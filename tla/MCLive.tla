------------------------------- MODULE MCLive -------------------------------
(***************************************************************************)
(* What must eventually happen to a merge, a channel, the bridge socket and *)
(* a killed message, for TLC: one behaviour moves one of the four            *)
(* components, under its own fairness, and leaves the others in an initial   *)
(* state.                                                                    *)
(***************************************************************************)
EXTENDS MergeMachine, Heartbeat, BridgeSession, Kills

VARIABLE part

Part == {"merge", "heartbeat", "bridge", "kills"}

\* A root and its child.
MCKids == <<{2}, {}>>

liveVars == <<part, vars, hbVars, bsVars, kiVars>>

LiveInit ==
    /\ part \in Part
    /\ Init /\ HbInit /\ BsInit /\ KiInit
    /\ part # "heartbeat" => legacy = {}
    /\ part # "merge" => issued = {}

LiveNext ==
    /\ part' = part
    /\ IF part = "merge" THEN Next ELSE UNCHANGED vars
    /\ IF part = "heartbeat" THEN HbNext ELSE UNCHANGED hbVars
    /\ IF part = "bridge" THEN BsNext ELSE UNCHANGED bsVars
    /\ IF part = "kills" THEN KiNext ELSE UNCHANGED kiVars

\* The fairness of each component, in the behaviours that move it.
LiveFairness ==
    /\ WF_vars(part = "merge" /\ Tick)
    /\ \A l \in Loser : WF_vars(part = "merge" /\ GateTimeout(l))
    /\ \A c \in Corr : WF_vars(part = "merge" /\ PullTimeout(c)) /\ WF_vars(part = "merge" /\ OfferTimeout(c))
    /\ WF_vars(part = "merge" /\ \E b \in busy : FrameEnd(b))
    /\ \A e \in End :
          /\ WF_hbVars(part = "heartbeat" /\ HeartbeatTick(e)) /\ WF_hbVars(part = "heartbeat" /\ OnMessage(e))
          /\ WF_hbVars(part = "heartbeat" /\ ReapTick(e)) /\ WF_hbVars(part = "heartbeat" /\ Wake(e))
    /\ WF_hbVars(part = "heartbeat" /\ HbTime)
    /\ WF_bsVars(part = "bridge" /\ Start) /\ WF_bsVars(part = "bridge" /\ Fallback)
    /\ WF_bsVars(part = "bridge" /\ ReconnectTimer) /\ WF_bsVars(part = "bridge" /\ GraduationWatch)
    /\ WF_bsVars(part = "bridge" /\ StopEnd)
    /\ SF_bsVars(part = "bridge" /\ SocketOpen)
    /\ \A n \in KNode : \A c \in Kids[n] : WF_kiVars(part = "kills" /\ ReplayTo(n, c))
    /\ \A n \in KNode \ {1} : WF_kiVars(part = "kills" /\ \E kind \in {"deliver", "union"} : OnDel(DelFrame(kind, n)))

LiveSpec == LiveInit /\ [][LiveNext]_liveVars /\ LiveFairness

\* Every variable of the four components stays in its type.
LiveTypeOK == TypeOK /\ HbTypeOK /\ BsTypeOK /\ KiTypeOK

\* Every round of a merge ends: the loser's gate falls, and a pull at the
\* winner is settled, also when no message ever arrives (_mergeSweep).
RoundsEnd == GateReleased /\ PullSettles

\* An open channel is watched: in the end one of its two ends alone pings, and a
\* channel whose far end is gone is evicted (_heartbeatTick, _reapTick).
ChannelsWatched == OnePinger /\ DeadEvicted

\* The bridge's socket is dialled again while the session needs it, and never
\* after stop() (_scheduleReconnect, stop).
BridgeDials == Redials /\ NoDialAfterStop
=============================================================================
