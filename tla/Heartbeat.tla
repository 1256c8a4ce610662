------------------------------ MODULE Heartbeat ------------------------------
(***************************************************************************)
(* The heartbeat of one open data channel (transport/web/mesh.js): one end  *)
(* pings, the other pongs, a silent pinger is replaced, two pingers are     *)
(* resolved by who still sends and then by role, and each end's reaper      *)
(* evicts a channel on which nothing arrives.                               *)
(*                                                                          *)
(* The channel is ordered and delivers once.  A clock reading is an age, in *)
(* ticks of tickMs, that stops counting where no decision reads it further. *)
(* An end may sleep: its timers and handlers do not run, frames queue.      *)
(***************************************************************************)
EXTENDS Integers, Sequences

CONSTANTS
    PingInterval, Takeover, Tiebreak, StaleAge, DeadAge,  \* HEARTBEAT_DEFAULTS, in ticks
    SendFailLimit,                                        \* SEND_FAIL_LIMIT
    Prompt,      \* TRUE: an awake end runs what is due before time passes
    MaxSleep,    \* bound: pauses of an end
    MaxQueue     \* bound: frames queued towards one end

ASSUME HeartbeatAssumption ==
    /\ PingInterval \in Nat \ {0} /\ Takeover \in Nat \ {0} /\ Tiebreak \in Nat
    /\ StaleAge \in Nat /\ DeadAge \in Nat /\ SendFailLimit \in Nat \ {0}
    /\ Prompt \in BOOLEAN /\ MaxSleep \in Nat /\ MaxQueue \in Nat \ {0}

End == {"offerer", "responder"}
Far(e) == IF e = "offerer" THEN "responder" ELSE "offerer"

VARIABLES
    beat,     \* per end: [st, pinger, fails, rxPing, tx, rx]; the last three are ages
    legacy,   \* ends that run the two-loop heartbeat from before the marker
    wire,     \* frames on their way to an end
    due,      \* timers due at an end: "beat", "reap"
    asleep, sleeps,
    cut       \* the path is gone while readyState still reads open

hbVars == <<beat, legacy, wire, due, asleep, sleeps, cut>>

\* No decision distinguishes ages beyond these.
PingAge == Takeover + Tiebreak
TxAge   == PingInterval + 2
Aged(n, cap) == IF n < cap THEN n + 1 ELSE cap

\* _openHeartbeat: the offerer pings first; nothing sent yet reads as an old send.
HbInit ==
    /\ beat = [e \in End |-> [st |-> "open", pinger |-> e = "offerer", fails |-> 0,
                              rxPing |-> 0, tx |-> TxAge, rx |-> 0]]
    /\ legacy \in {{}, {"responder"}, {"offerer"}}
    /\ wire = [e \in End |-> <<>>]
    /\ due = [e \in End |-> {}]
    /\ asleep = {} /\ sleeps = 0 /\ cut = FALSE

Runs(e) == beat[e].st # "gone" /\ e \notin asleep

\* A frame sent into a cut path, or to an end that evicted the channel, is lost.
OnWire(e, f) == IF cut \/ beat[Far(e)].st = "gone" THEN wire ELSE [wire EXCEPT ![Far(e)] = Append(@, f)]

-----------------------------------------------------------------------------
\* _pingTick: a send on a cut path may throw, which is only counted here.
PingTick(e, b, d) ==
    /\ due' = d
    /\ \/ /\ Len(wire[Far(e)]) < MaxQueue
          /\ beat' = [beat EXCEPT ![e] = [b EXCEPT !.tx = 0, !.fails = 0]]
          /\ wire' = OnWire(e, [kind |-> "ping", hb |-> e \notin legacy])
       \/ /\ cut
          /\ beat' = [beat EXCEPT ![e] = [b EXCEPT !.fails = Aged(@, SendFailLimit)]]
          /\ UNCHANGED wire

\* A ponger that has heard no ping for the takeover time; the offerer waits longer.
SilentTooLong(e) == beat[e].rxPing >= Takeover + (IF e = "offerer" THEN Tiebreak ELSE 0)

\* _heartbeatTick.  An end from before the marker pings at every tick.
HeartbeatTick(e) ==
    /\ Runs(e) /\ "beat" \in due[e]
    /\ LET d == [due EXCEPT ![e] = @ \ {"beat"}]
       IN  CASE e \in legacy                                  -> PingTick(e, beat[e], d)
             [] e \notin legacy /\ beat[e].pinger             ->
                   IF beat[e].tx >= PingInterval THEN PingTick(e, beat[e], d)
                   ELSE due' = d /\ UNCHANGED <<beat, wire>>
             [] e \notin legacy /\ ~beat[e].pinger            ->
                   IF SilentTooLong(e) THEN PingTick(e, [beat[e] EXCEPT !.pinger = TRUE], d)
                   ELSE due' = d /\ UNCHANGED <<beat, wire>>
    /\ UNCHANGED <<legacy, asleep, sleeps, cut>>

\* Mutant: a pinger never yields to a ping.
StaysPingerAlways(e, f) == beat[e].pinger \/ ~f.hb

\* The role after a ping: an unmarked ping makes a pinger of this end for good;
\* a pinger that has not sent for an interval and a tick has stalled and yields;
\* one that is sending is in a crossing, which the offerer wins.
StaysPinger(e, f) ==
    IF ~f.hb THEN TRUE
    ELSE beat[e].pinger /\ beat[e].tx <= PingInterval + 1 /\ e = "offerer"

\* dc.onmessage for ping and pong.
OnMessage(e) ==
    /\ Runs(e) /\ wire[e] # <<>>
    /\ LET f == Head(wire[e])
           W == [OnWire(e, [kind |-> "pong", hb |-> TRUE]) EXCEPT ![e] = Tail(@)]
           b == [beat[e] EXCEPT !.rx = 0, !.st = "open"]
       IN  IF f.kind = "ping"
           THEN /\ Len(wire[Far(e)]) < MaxQueue \/ cut
                /\ wire' = W
                /\ beat' = [beat EXCEPT ![e] = [b EXCEPT !.rxPing = 0,
                              !.pinger = IF e \in legacy THEN @ ELSE StaysPinger(e, f)]]
           ELSE /\ wire' = [wire EXCEPT ![e] = Tail(@)]
                /\ beat' = [beat EXCEPT ![e] = b]
    /\ UNCHANGED <<legacy, due, asleep, sleeps, cut>>

\* Mutant: a ping this end sent counts as a sign of life.
SilenceOfSends(e) == IF beat[e].tx < beat[e].rx THEN beat[e].tx ELSE beat[e].rx

\* The liveness clock: the last receipt of anything, or the opening.
Silence(e) == beat[e].rx

\* _reapTick on an open channel.
ReapTick(e) ==
    /\ Runs(e) /\ "reap" \in due[e]
    /\ due' = [due EXCEPT ![e] = @ \ {"reap"}]
    /\ beat' = [beat EXCEPT ![e].st =
          IF beat[e].fails >= SendFailLimit \/ Silence(e) > DeadAge THEN "gone"
          ELSE IF Silence(e) > StaleAge THEN "stale" ELSE "open"]
    /\ wire' = IF beat'[e].st = "gone" THEN [wire EXCEPT ![e] = <<>>] ELSE wire
    /\ UNCHANGED <<legacy, asleep, sleeps, cut>>

-----------------------------------------------------------------------------
Quiet(e) == Runs(e) => due[e] = {} /\ wire[e] = <<>>

\* A tick of the clock: both timers fall due at every end that still has them.
HbTime ==
    /\ Prompt => \A e \in End : Quiet(e)
    /\ due' = [e \in End |-> IF beat[e].st = "gone" THEN {} ELSE {"beat", "reap"}]
    /\ beat' = [e \in End |-> [beat[e] EXCEPT !.rxPing = Aged(@, PingAge), !.tx = Aged(@, TxAge),
                                              !.rx = Aged(@, DeadAge + 1)]]
    /\ UNCHANGED <<legacy, wire, asleep, sleeps, cut>>

Sleep(e) ==
    /\ e \notin asleep /\ sleeps < MaxSleep
    /\ asleep' = asleep \cup {e} /\ sleeps' = sleeps + 1
    /\ UNCHANGED <<beat, legacy, wire, due, cut>>

Wake(e) ==
    /\ e \in asleep /\ asleep' = asleep \ {e}
    /\ UNCHANGED <<beat, legacy, wire, due, sleeps, cut>>

Cut ==
    /\ ~cut /\ cut' = TRUE
    /\ wire' = [e \in End |-> <<>>]
    /\ UNCHANGED <<beat, legacy, due, asleep, sleeps>>

HbNext ==
    \/ \E e \in End : HeartbeatTick(e) \/ OnMessage(e) \/ ReapTick(e) \/ Sleep(e) \/ Wake(e)
    \/ HbTime
    \/ Cut

HbSpec == HbInit /\ [][HbNext]_hbVars

\* Timers and handlers that are due run, a sleeper wakes, time passes.
HbFairness ==
    /\ \A e \in End : WF_hbVars(HeartbeatTick(e)) /\ WF_hbVars(OnMessage(e)) /\ WF_hbVars(ReapTick(e)) /\ WF_hbVars(Wake(e))
    /\ WF_hbVars(HbTime)

HbFairSpec == HbSpec /\ HbFairness

-----------------------------------------------------------------------------
HbTypeOK ==
    /\ beat \in [End -> [st : {"open", "stale", "gone"}, pinger : BOOLEAN, fails : 0..SendFailLimit,
                         rxPing : 0..PingAge, tx : 0..TxAge, rx : 0..(DeadAge + 1)]]
    /\ legacy \subseteq End /\ asleep \subseteq End /\ sleeps \in 0..MaxSleep /\ cut \in BOOLEAN
    /\ \A e \in End : Len(wire[e]) <= MaxQueue /\ due[e] \subseteq {"beat", "reap"}

Pingers == {e \in End \ legacy : beat[e].pinger}
Together == \A e \in End : beat[e].st # "gone"

\* "The pair reaches one pinger and holds it while both ends are live": after
\* the last pause, whatever crossed, queued or was taken over meanwhile, the
\* pair comes to rest at exactly one pinger.  Next to an end without the marker
\* it is the marked end that keeps pinging.
OnePinger == <>[](Together /\ ~cut => \E e \in End \ legacy : Pingers = {e})

\* A channel whose path is gone is evicted at both ends although readyState
\* never leaves open, by the receipt clock or by the streak of throwing sends.
DeadEvicted == \A e \in End : cut ~> beat[e].st = "gone"

=============================================================================
