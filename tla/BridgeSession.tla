---------------------------- MODULE BridgeSession ----------------------------
(***************************************************************************)
(* A node's session with its bridge: the socket, its reconnect, graduation  *)
(* and credential timers and the authenticated hello of webTransport        *)
(* (transport/web/index.js), the requests of BridgeTransport over it        *)
(* (transport/web/bridge.js), and connect()/disconnect() above it           *)
(* (connect.js).                                                            *)
(*                                                                          *)
(* Delays are left out: an armed timer fires when it likes, so the backoff  *)
(* and its attempt counter are too.  The session has reconnect and          *)
(* autoHandshake on, as connect() builds it.  The mesh is its number of     *)
(* bound peers, up to the graduation floor.  A frame that is logged and     *)
(* dropped is no step.                                                      *)
(***************************************************************************)
EXTENDS Integers

CONSTANTS
    MeshFloor,        \* graduationMeshFloor
    TurnMaxTries      \* turnRefreshMaxTries

ASSUME SessionAssumption == MeshFloor \in Nat \ {0} /\ TurnMaxTries \in Nat \ {0}

VARIABLES
    session,  \* the closure state of webTransport
    hellos,   \* onBridgeAuthHello continuations: [cur, stage]; cur: its socket is still the socket
    request,  \* BridgeTransport._pending has an entry
    phase,    \* connect(): idle, transport, mesh, up, stopping, down, threw
    bsMesh    \* meshBoundCount(), up to the floor

bsVars == <<session, hellos, request, phase, bsMesh>>

Timer == {"reconnect", "watch", "turn", "reply", "fallback", "handshake"}
Hello == [cur : BOOLEAN, stage : {"verify", "ack"}]

BsInit ==
    /\ session = [sock |-> "none", err |-> FALSE, stopped |-> FALSE, timers |-> {},
                  graduated |-> FALSE, turnOnly |-> FALSE, tries |-> 0,
                  greet |-> "none",          \* what the bridge sent on this socket: none, welcome, hello
                  bound |-> FALSE,           \* bridge._bridgeNodeId
                  authed |-> FALSE,          \* bridgeNodeIdBig
                  ready |-> "pending",       \* the bridgeReady promise
                  state |-> "disconnected"]  \* bridgeState
    /\ hellos = {} /\ request = FALSE /\ phase = "idle" /\ bsMesh = 0

Disarm(r, T) == [r EXCEPT !.timers = @ \ T]

ScheduleReconnect(r) == IF r.stopped THEN r ELSE [r EXCEPT !.timers = @ \cup {"reconnect"}]

\* openSocket: the sessions it may leave; the constructor may throw.
OpenSocket(r) ==
    IF r.sock # "none" THEN {r}
    ELSE {[r EXCEPT !.sock = "connecting", !.err = FALSE],
          ScheduleReconnect([r EXCEPT !.state = "disconnected"])}

\* stopTurnRefresh, then a timer if the credential has an expiry to read.
ScheduleTurnRefresh(r) ==
    LET q == Disarm(r, {"turn", "reply"}) IN {q, [q EXCEPT !.timers = @ \cup {"turn"}]}

-----------------------------------------------------------------------------
(***************************************************************************)
(* The socket.                                                             *)
(***************************************************************************)
Start ==
    /\ phase = "idle" /\ phase' = "transport"
    /\ session' \in OpenSocket(session)
    /\ UNCHANGED <<hellos, request, bsMesh>>

\* 'open': start(), if it still waits, now waits for the handshake under a timer.
SocketOpen ==
    /\ session.sock = "connecting" /\ ~session.err
    /\ LET r == [session EXCEPT !.sock = "open", !.graduated = FALSE, !.greet = "none", !.state = "connecting"]
           q == Disarm(r, {"watch"})
       IN  session' = IF phase = "transport" THEN [q EXCEPT !.timers = @ \cup {"handshake"}] ELSE q
    /\ UNCHANGED <<hellos, request, phase, bsMesh>>

\* 'error' before the open: a close may still come, or only the fallback does.
SocketError ==
    /\ session.sock = "connecting" /\ ~session.err
    /\ session' = [session EXCEPT !.err = TRUE, !.timers = @ \cup {"fallback"}]
    /\ UNCHANGED <<hellos, request, phase, bsMesh>>

\* Mutant: a socket that errors without a close is kept.
AfterFallbackKept(r) == r

\* The fallback of a socket that never opened and never closed.
AfterFallback(r) ==
    IF r.sock = "connecting" /\ r.err /\ ~r.stopped
    THEN ScheduleReconnect([r EXCEPT !.sock = "none", !.state = "disconnected"]) ELSE r

Fallback ==
    /\ "fallback" \in session.timers
    /\ session' = AfterFallback(Disarm(session, {"fallback"}))
    /\ UNCHANGED <<hellos, request, phase, bsMesh>>

\* The close handler's branches: upgrade required, graduation while meshed,
\* reconnect, and stopped.
AfterClose(r, code) ==
    CASE code = 4426                          -> [r EXCEPT !.stopped = TRUE, !.state = "upgrade-required"]
      [] code = 4200 /\ bsMesh >= MeshFloor   ->
            [r EXCEPT !.graduated = TRUE, !.state = "graduated", !.timers = @ \cup {"watch"}]
      [] OTHER                                -> ScheduleReconnect([r EXCEPT !.state = "disconnected"])

\* 'close': handleConnClosed rejects the requests and unbinds; before the
\* handshake it also ends connect(), which throws.
ClosedWith(r, code) ==
    LET q == [r EXCEPT !.bound = FALSE, !.authed = FALSE, !.greet = "none",
                       !.ready = IF @ = "pending" THEN "rejected" ELSE @]
    IN  /\ session' = [Disarm(AfterClose(q, code), {"fallback"}) EXCEPT !.sock = "none", !.err = FALSE, !.turnOnly = FALSE]
        /\ hellos' = {[h EXCEPT !.cur = FALSE] : h \in hellos}
        /\ request' = FALSE

SocketClose ==
    /\ \E code \in {4426, 4200, 1006} :
          /\ session.sock = "open" \/ (session.sock = "connecting" /\ code = 1006)
          /\ ClosedWith(Disarm(session, {"handshake"}), code)
    /\ phase' = IF phase = "transport" /\ session.ready = "pending" THEN "threw" ELSE phase
    /\ UNCHANGED bsMesh

-----------------------------------------------------------------------------
(***************************************************************************)
(* Frames of the bridge.                                                   *)
(***************************************************************************)
\* 'welcome': the nonce of this connection and a credential.  A node back for
\* the credential only releases the socket itself, with 4200: SocketClose.
Welcome ==
    /\ session.sock = "open" /\ session.greet = "none"
    /\ session' \in ScheduleTurnRefresh([session EXCEPT !.greet = "welcome"])
    /\ UNCHANGED <<hellos, request, phase, bsMesh>>

\* 'turn': applyTurnFrame.
TurnFrame ==
    /\ session.sock = "open" /\ "reply" \in session.timers
    /\ session' \in ScheduleTurnRefresh(session)
    /\ UNCHANGED <<hellos, request, phase, bsMesh>>

\* The bridge's hello: ignored while an identity is bound, else verified.
BridgeHello ==
    /\ session.sock = "open" /\ session.greet = "welcome"
    /\ session' = [session EXCEPT !.greet = "hello"]
    /\ hellos' = IF session.bound THEN hellos ELSE hellos \cup {[cur |-> TRUE, stage |-> "verify"]}
    /\ UNCHANGED <<request, phase, bsMesh>>

\* After verifyAuthHello: rejected, or bound and our own proof is built.
HelloVerified(h) ==
    /\ h.stage = "verify"
    /\ \/ hellos' = hellos \ {h} /\ UNCHANGED session
       \/ hellos' = hellos \ {h} /\ session' = [session EXCEPT !.state = "upgrade-required"]
       \/ /\ hellos' = (hellos \ {h}) \cup {[h EXCEPT !.stage = "ack"]}
          /\ session' = [session EXCEPT !.bound = TRUE]
    /\ UNCHANGED <<request, phase, bsMesh>>

\* After buildAuthHello: the ack is sent and the session is open.
HelloAcked(h) ==
    /\ h.stage = "ack" /\ hellos' = hellos \ {h}
    /\ session' = [session EXCEPT !.authed = TRUE, !.state = "open", !.ready = IF @ = "pending" THEN "ok" ELSE @]
    /\ UNCHANGED <<request, phase, bsMesh>>

\* The stale checker and recordPong.
Stale ==
    /\ session.state = "open" /\ session.sock = "open"
    /\ session' = [session EXCEPT !.state = "stale"]
    /\ UNCHANGED <<hellos, request, phase, bsMesh>>

Pong ==
    /\ session.sock = "open" /\ session.state = "stale"
    /\ session' = [session EXCEPT !.state = "open"]
    /\ UNCHANGED <<hellos, request, phase, bsMesh>>

\* BridgeTransport.send, and its answer or its timeout.
Send ==
    /\ session.bound /\ session.sock = "open" /\ ~request
    /\ request' = TRUE /\ UNCHANGED <<session, hellos, phase, bsMesh>>

Settle == request /\ request' = FALSE /\ UNCHANGED <<session, hellos, phase, bsMesh>>

-----------------------------------------------------------------------------
(***************************************************************************)
(* Timers.                                                                 *)
(***************************************************************************)
Reconnected(r) == IF r.stopped THEN {r} ELSE OpenSocket([r EXCEPT !.state = "connecting"])

ReconnectTimer ==
    /\ "reconnect" \in session.timers
    /\ session' \in Reconnected(Disarm(session, {"reconnect"}))
    /\ UNCHANGED <<hellos, request, phase, bsMesh>>

\* The graduation watch: back to the bridge once the mesh is thin.
GraduationWatch ==
    /\ "watch" \in session.timers
    /\ session.stopped \/ bsMesh < MeshFloor
    /\ LET r == Disarm(session, {"watch"})
       IN  session' \in IF r.stopped THEN {r} ELSE OpenSocket([r EXCEPT !.graduated = FALSE, !.state = "connecting"])
    /\ UNCHANGED <<hellos, request, phase, bsMesh>>

\* The credential is about to lapse: in band over an open socket, else a new
\* dial, of a graduate with its mesh for the credential only.
TurnTimer ==
    /\ "turn" \in session.timers
    /\ LET r == Disarm(session, {"turn"})
       IN  CASE r.stopped       -> session' = r
             [] ~r.stopped /\ r.sock = "open" -> session' = [r EXCEPT !.tries = 1, !.timers = @ \cup {"reply"}]
             [] ~r.stopped /\ r.sock # "open" ->
                   session' \in OpenSocket([Disarm(r, {"watch"}) EXCEPT
                                   !.turnOnly = r.graduated /\ bsMesh >= MeshFloor,
                                   !.graduated = FALSE, !.state = "connecting"])
    /\ UNCHANGED <<hellos, request, phase, bsMesh>>

\* No answer to turn-refresh, or it could not be sent: again, up to the limit.
ReplyTimer ==
    /\ "reply" \in session.timers
    /\ LET r == Disarm(session, {"reply"})
       IN  session' = IF r.stopped \/ r.sock # "open" \/ r.tries >= TurnMaxTries THEN r
                      ELSE [r EXCEPT !.tries = @ + 1, !.timers = @ \cup {"reply"}]
    /\ UNCHANGED <<hellos, request, phase, bsMesh>>

\* reconnectNow; closing an open socket ends in SocketClose.
ReconnectNow ==
    /\ ~session.stopped /\ phase = "up"
    /\ LET r == Disarm(session, {"reconnect"})
       IN  IF r.sock = "open" THEN ClosedWith(r, 1006)
           ELSE session' \in (IF r.sock = "none" THEN OpenSocket([r EXCEPT !.state = "connecting"]) ELSE {r})
                /\ UNCHANGED <<hellos, request>>
    /\ UNCHANGED <<phase, bsMesh>>

-----------------------------------------------------------------------------
(***************************************************************************)
(* connect() and disconnect().                                             *)
(***************************************************************************)
\* transport.start() settles by the handshake or by its timeout.
Handshaken ==
    /\ phase = "transport" /\ session.ready = "ok"
    /\ phase' = "mesh" /\ session' = Disarm(session, {"handshake"})
    /\ UNCHANGED <<hellos, request, bsMesh>>

HandshakeTimeout ==
    /\ "handshake" \in session.timers /\ ~session.authed /\ session.ready = "pending"
    /\ session' = [Disarm(session, {"handshake"}) EXCEPT !.ready = "rejected"]
    /\ phase' = IF phase = "transport" THEN "threw" ELSE phase
    /\ UNCHANGED <<hellos, request, bsMesh>>

\* stop(), up to the awaited stop of the sub-transports.
StopBegun(r) == [r EXCEPT !.stopped = TRUE, !.timers = @ \cap {"fallback", "handshake"}]

\* waitForLiveBind: a live channel, or the one deadline; without a mesh it stops
\* what it built and throws, unless the caller accepts a bridge alone
\* (allowBridgeOnly, either way here).
MeshGate ==
    /\ phase = "mesh"
    /\ \/ phase' = "up" /\ UNCHANGED session
       \/ bsMesh = 0 /\ phase' = "stopping" /\ session' = StopBegun(session)
    /\ UNCHANGED <<hellos, request, bsMesh>>

Disconnect ==
    /\ phase = "up" /\ phase' = "stopping"
    /\ session' = StopBegun(session)
    /\ UNCHANGED <<hellos, request, bsMesh>>

\* The rest of stop(): the socket is closed and its close handler runs.
StopEnd ==
    /\ phase = "stopping" /\ phase' = "down"
    /\ IF session.sock = "none" THEN session' = [session EXCEPT !.state = "disconnected"] /\ UNCHANGED <<hellos, request>>
       ELSE ClosedWith(session, 1005)
    /\ bsMesh' = 0

\* Channels bind and die; a disposed mesh has none.
MeshChange ==
    /\ phase \in {"mesh", "up", "stopping", "threw"}
    /\ bsMesh' \in {bsMesh - 1, bsMesh + 1} \cap 0..MeshFloor
    /\ UNCHANGED <<session, hellos, request, phase>>

BsNext ==
    \/ Start \/ SocketOpen \/ SocketError \/ Fallback \/ SocketClose
    \/ Welcome \/ TurnFrame \/ BridgeHello \/ Stale \/ Pong \/ Send \/ Settle
    \/ \E h \in hellos : HelloVerified(h) \/ HelloAcked(h)
    \/ ReconnectTimer \/ GraduationWatch \/ TurnTimer \/ ReplyTimer \/ ReconnectNow
    \/ Handshaken \/ HandshakeTimeout \/ MeshGate \/ Disconnect \/ StopEnd
    \/ MeshChange

BsSpec == BsInit /\ [][BsNext]_bsVars

\* Timers fire.  The bridge is reachable: of infinitely many attempts one opens.
BsFairness ==
    /\ WF_bsVars(Start) /\ WF_bsVars(Fallback) /\ WF_bsVars(ReconnectTimer)
    /\ WF_bsVars(GraduationWatch) /\ WF_bsVars(StopEnd)
    /\ SF_bsVars(SocketOpen)

BsFairSpec == BsSpec /\ BsFairness

-----------------------------------------------------------------------------
BsTypeOK ==
    /\ session \in [sock : {"none", "connecting", "open"}, err : BOOLEAN, stopped : BOOLEAN,
                    timers : SUBSET Timer, graduated : BOOLEAN, turnOnly : BOOLEAN,
                    tries : 0..TurnMaxTries, greet : {"none", "welcome", "hello"}, bound : BOOLEAN,
                    authed : BOOLEAN, ready : {"pending", "ok", "rejected"},
                    state : {"disconnected", "connecting", "open", "stale", "graduated", "upgrade-required"}]
    /\ hellos \subseteq Hello /\ request \in BOOLEAN
    /\ phase \in {"idle", "transport", "mesh", "up", "stopping", "down", "threw"}
    /\ bsMesh \in 0..MeshFloor

Served == session.sock = "open" \/ (session.graduated /\ bsMesh >= MeshFloor)

\* "So a node never strands itself off the network": unless it was stopped, a
\* node that has neither an open socket nor a mesh of its own to live on dials
\* until it has, whatever socket failed how, and whichever of the reconnect,
\* graduation and credential timers was running.
Redials == (phase # "idle" /\ ~session.stopped) ~> (Served \/ session.stopped)

\* A stopped transport (disconnect, or the bridge's 4426) never dials again,
\* although timers armed before, or during the awaited stop, still fire.
NoDialAfterStop == [][session.stopped => ~(session.sock = "none" /\ session'.sock = "connecting")]_bsVars

=============================================================================
