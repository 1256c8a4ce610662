------------------------------ MODULE Handoff ------------------------------
(***************************************************************************)
(* Graceful departures: leave() of AxonaPeer.js, the handoff of a topic's   *)
(* history to an heir (pubsubLeaveHandoff, repairPlane.js), and what the    *)
(* receiver makes of HANDOFF and REPLICATE (syncEngine.js).                 *)
(*                                                                          *)
(* One topic, one message.  Any order of candidates stands for the XOR      *)
(* order.  Routing delivers a frame to its target or loses it.  Which node  *)
(* roots is RootElection's; here a backup without a principal takes the     *)
(* claim.  Nodes depart, none crashes, nothing expires.                     *)
(***************************************************************************)
EXTENDS Integers, FiniteSets

CONSTANTS
    Relay,         \* the nodes
    HandoffTries,  \* HANDOFF_TRIES
    MaxRefuse,     \* bound: pushes refused or held short by their receiver
    MaxDrop,       \* bound: frames lost
    MaxGone,       \* bound: departures
    MaxLeaving     \* bound: departures under way at once

NoRelay == "no relay"

ASSUME HandoffAssumption ==
    /\ IsFiniteSet(Relay) /\ NoRelay \notin Relay
    /\ HandoffTries \in Nat \ {0} /\ MaxRefuse \in Nat /\ MaxDrop \in Nat /\ MaxGone \in Nat /\ MaxLeaving \in Nat

VARIABLES
    status,   \* "up", "leaving", "gone"
    custody,  \* the role on the topic: [kind, body, of]
    sees,     \* neighbours a node believes in
    job,      \* the entry of _handoffInFlight: [stage, heir, alt, round, acked]
    post,     \* frames under way: [kind, from, to, ok]
    inbox,    \* REPLICATE bodies accepted and not yet ingested: [from, to]
    published, refused, dropped,
    blame     \* what may cost a body: a departure cut off by leave()'s bound, one that
              \* was never acked, one exempted by a dispatch

hoVars == <<status, custody, sees, job, post, inbox, published, refused, dropped, blame>>

NoRole == [kind |-> "none", body |-> FALSE, of |-> NoRelay]
NoJob == [stage |-> "none", heir |-> NoRelay, alt |-> NoRelay, round |-> 0, acked |-> FALSE]

HoInit ==
    /\ status = [n \in Relay |-> "up"]
    /\ custody = [n \in Relay |-> NoRole]
    /\ sees = [n \in Relay |-> Relay \ {n}]
    /\ job = [n \in Relay |-> NoJob]
    /\ post = {} /\ inbox = {} /\ published = FALSE /\ refused = 0 /\ dropped = 0 /\ blame = {}

Runs(n) == status[n] # "gone"
Frame(kind, n, m) == [kind |-> kind, from |-> n, to |-> m, ok |-> TRUE]

-----------------------------------------------------------------------------
(***************************************************************************)
(* The leaver.                                                             *)
(***************************************************************************)
\* The topic's first publish makes its root.
Publish(n) ==
    /\ ~published /\ status[n] = "up" /\ published' = TRUE
    /\ custody' = [custody EXCEPT ![n] = [kind |-> "root", body |-> TRUE, of |-> NoRelay]]
    /\ UNCHANGED <<status, sees, job, post, inbox, refused, dropped, blame>>

\* _replicateRoots: a live root keeps backups (one push at a time here).
Replicate(n, m) ==
    /\ status[n] = "up" /\ custody[n].kind = "root" /\ custody[n].body
    /\ m \in sees[n] /\ ~custody[m].body /\ post = {} /\ inbox = {}
    /\ post' = post \cup {Frame("REPLICATE", n, m)}
    /\ UNCHANGED <<status, custody, sees, job, inbox, published, refused, dropped, blame>>

\* _rootAliveForLeave: strict; the principal must be a neighbour right now.
RootAliveForLeave(n) == custody[n].of \in sees[n]

\* leave(), and pubsubLeaveHandoff up to its list of jobs: a holder that is no
\* root stays out if its root is alive.
Leave(n) ==
    /\ status[n] = "up" /\ Cardinality({m \in Relay : status[m] # "up"}) < MaxGone
    /\ Cardinality({m \in Relay : status[m] = "leaving"}) < MaxLeaving
    /\ status' = [status EXCEPT ![n] = "leaving"]
    /\ job' = [job EXCEPT ![n].stage =
          IF custody[n].body /\ (custody[n].kind = "root" \/ ~RootAliveForLeave(n)) THEN "resolve" ELSE "done"]
    /\ UNCHANGED <<custody, sees, post, inbox, published, refused, dropped, blame>>

\* Phase A, _pickHeirs: the first two candidates the table names; a node with an
\* empty table asks the network.
ResolveHeirs(n) ==
    /\ job[n].stage = "resolve" /\ Runs(n)
    /\ LET known == IF sees[n] # {} THEN sees[n] ELSE {m \in Relay \ {n} : Runs(m)}
       IN  \/ \E h \in known : \E a \in (known \ {h}) \cup (IF known = {h} THEN {NoRelay} ELSE {}) :
                job' = [job EXCEPT ![n] = [@ EXCEPT !.stage = "send", !.heir = h, !.alt = a]]
           \/ known = {} /\ job' = [job EXCEPT ![n].stage = "tail"]
    /\ UNCHANGED <<status, custody, sees, post, inbox, published, refused, dropped, blame>>

\* A root hands over its claim; another holder only its history, to two nodes.
Pushes(n, h, a) ==
    IF custody[n].kind = "root" THEN {Frame("HANDOFF", n, h)}
    ELSE {Frame("REPLICATE", n, m) : m \in {h, a} \ {NoRelay}}

\* Phase B, a round; a retry names an heir anew and keeps the last one as the
\* runner-up.
SendRound(n) ==
    /\ job[n].stage = "send" /\ Runs(n)
    /\ \E h \in {job[n].heir} \cup (IF job[n].round > 0 THEN sees[n] ELSE {}) :
          LET a == IF h = job[n].heir THEN job[n].alt ELSE job[n].heir
          IN  /\ job' = [job EXCEPT ![n] = [@ EXCEPT !.stage = "window", !.heir = h, !.alt = a]]
              /\ post' = post \cup Pushes(n, h, a)
    /\ UNCHANGED <<status, custody, sees, inbox, published, refused, dropped, blame>>

WindowEnds(n) ==
    /\ job[n].stage = "window" /\ Runs(n)
    /\ job' = [job EXCEPT ![n] =
          IF @.acked \/ @.round + 1 >= HandoffTries THEN [@ EXCEPT !.stage = "tail"]
          ELSE [@ EXCEPT !.stage = "send", !.round = job[n].round + 1]]
    /\ UNCHANGED <<status, custody, sees, post, inbox, published, refused, dropped, blame>>

\* Phase C: what is unacked goes once more, to the runner-up if there is one.
LastPush(n) ==
    /\ job[n].stage = "tail" /\ Runs(n)
    /\ LET j == job[n]
           target == IF j.alt # NoRelay THEN j.alt ELSE j.heir
       IN  /\ post' = IF j.acked \/ target = NoRelay THEN post ELSE post \cup Pushes(n, target, NoRelay)
           /\ job' = [job EXCEPT ![n] = [NoJob EXCEPT !.stage = "done"]]
           /\ blame' = IF j.acked THEN blame ELSE blame \cup {"unacked"}
    /\ UNCHANGED <<status, custody, sees, inbox, published, refused, dropped>>

\* The rest of leave(): peer-leaving is heard or not, the node is gone.
\* Its time bound may end the handoff at any stage.
Depart(n) ==
    /\ status[n] = "leaving"
    /\ status' = [status EXCEPT ![n] = "gone"]
    /\ custody' = [custody EXCEPT ![n] = NoRole]
    /\ job' = [job EXCEPT ![n] = NoJob]
    /\ blame' = IF job[n].stage # "done" THEN blame \cup {"cutoff"} ELSE blame
    /\ \E told \in BOOLEAN :
          sees' = [m \in Relay |-> IF m = n THEN {} ELSE IF told THEN sees[m] \ {n} ELSE sees[m]]
    /\ UNCHANGED <<post, inbox, published, refused, dropped>>

\* The channel to a departed node is found closed.
NoticeGone(n, m) ==
    /\ Runs(n) /\ m \in sees[n] /\ ~Runs(m)
    /\ sees' = [sees EXCEPT ![n] = @ \ {m}]
    /\ UNCHANGED <<status, custody, job, post, inbox, published, refused, dropped, blame>>

-----------------------------------------------------------------------------
(***************************************************************************)
(* The receiver.                                                           *)
(***************************************************************************)
Refuses == refused < MaxRefuse /\ refused' = refused + 1

\* HANDOFF: refused in silence (gated, saturated, cut), or adopted and acked
\* with what is held.
OnHandoff(p) ==
    /\ p.kind = "HANDOFF" /\ Runs(p.to)
    /\ LET adopt(full) == [custody EXCEPT ![p.to] = [kind |-> "root", body |-> @.body \/ full, of |-> NoRelay]]
           ack(full) == [kind |-> "HANDOFFACK", from |-> p.to, to |-> p.from, ok |-> full]
       IN  \/ Refuses /\ post' = post \ {p} /\ UNCHANGED custody
           \/ /\ custody' = adopt(TRUE) /\ post' = (post \ {p}) \cup {ack(TRUE)}
              /\ UNCHANGED refused
           \/ /\ ~custody[p.to].body /\ Refuses
              /\ custody' = adopt(FALSE) /\ post' = (post \ {p}) \cup {ack(FALSE)}
    /\ UNCHANGED <<status, sees, job, inbox, published, dropped, blame>>

\* Mutant: an ack is an ack, however little is held.
AckCountsAny(p) == TRUE

\* A short ack is not an ack.
AckCounts(p) == p.ok

OnHandoffAck(p) ==
    /\ p.kind = "HANDOFFACK" /\ Runs(p.to)
    /\ post' = post \ {p}
    /\ job' = IF AckCounts(p) /\ job[p.to].stage # "none" THEN [job EXCEPT ![p.to].acked = TRUE] ELSE job
    /\ UNCHANGED <<status, custody, sees, inbox, published, refused, dropped, blame>>

\* REPLICATE: queued, and consumed from then on; a departing holder takes the
\* dispatch for its ack.
OnReplicate(p) ==
    /\ p.kind = "REPLICATE" /\ Runs(p.to)
    /\ post' = post \ {p}
    /\ inbox' = inbox \cup {[from |-> p.from, to |-> p.to]}
    /\ IF job[p.from].stage \in {"send", "window"} /\ ~job[p.from].acked /\ custody[p.from].kind # "root"
       THEN job' = [job EXCEPT ![p.from].acked = TRUE] /\ blame' = blame \cup {"dispatch"}
       ELSE UNCHANGED <<job, blame>>
    /\ UNCHANGED <<status, custody, sees, published, refused, dropped>>

\* _syncIngest of it: a root takes the union; elsewhere the grant is refused, or
\* makes a backup.
Ingest(q) ==
    /\ Runs(q.to) /\ inbox' = inbox \ {q}
    /\ \/ /\ custody' = [custody EXCEPT ![q.to] = IF @.kind = "root" THEN [@ EXCEPT !.body = TRUE]
                                                  ELSE [kind |-> "backup", body |-> TRUE, of |-> q.from]]
          /\ UNCHANGED refused
       \/ custody[q.to].kind # "root" /\ Refuses /\ UNCHANGED custody
    /\ UNCHANGED <<status, sees, job, post, published, dropped, blame>>

\* A frame is lost; one for a node that is gone reaches nobody.
LoseFrame(p) ==
    /\ post' = post \ {p}
    /\ \/ Runs(p.to) /\ dropped < MaxDrop /\ dropped' = dropped + 1
       \/ ~Runs(p.to) /\ UNCHANGED dropped
    /\ UNCHANGED <<status, custody, sees, job, inbox, published, refused, blame>>

\* A backup whose principal is no neighbour any more takes the claim.
Promote(n) ==
    /\ Runs(n) /\ custody[n].kind = "backup" /\ custody[n].of \notin sees[n]
    /\ custody' = [custody EXCEPT ![n] = [kind |-> "root", body |-> @.body, of |-> NoRelay]]
    /\ UNCHANGED <<status, sees, job, post, inbox, published, refused, dropped, blame>>

HoNext ==
    \/ \E n \in Relay :
          \/ Publish(n) \/ Leave(n) \/ ResolveHeirs(n) \/ SendRound(n) \/ WindowEnds(n) \/ LastPush(n) \/ Depart(n) \/ Promote(n)
          \/ \E m \in Relay : Replicate(n, m) \/ NoticeGone(n, m)
    \/ \E p \in post : OnHandoff(p) \/ OnHandoffAck(p) \/ OnReplicate(p) \/ LoseFrame(p)
    \/ \E q \in inbox : Ingest(q)

HoSpec == HoInit /\ [][HoNext]_hoVars

-----------------------------------------------------------------------------
HoTypeOK ==
    /\ status \in [Relay -> {"up", "leaving", "gone"}]
    /\ custody \in [Relay -> [kind : {"none", "root", "backup"}, body : BOOLEAN, of : Relay \cup {NoRelay}]]
    /\ sees \in [Relay -> SUBSET Relay]
    /\ job \in [Relay -> [stage : {"none", "resolve", "send", "window", "tail", "done"}, heir : Relay \cup {NoRelay},
                          alt : Relay \cup {NoRelay}, round : 0..(HandoffTries - 1), acked : BOOLEAN]]
    /\ post \subseteq [kind : {"HANDOFF", "HANDOFFACK", "REPLICATE"}, from : Relay, to : Relay, ok : BOOLEAN]
    /\ inbox \subseteq [from : Relay, to : Relay]
    /\ refused \in 0..MaxRefuse /\ dropped \in 0..MaxDrop
    /\ published \in BOOLEAN /\ blame \subseteq {"cutoff", "unacked", "dispatch"}

BodyHeld == \E n \in Relay : Runs(n) /\ custody[n].body

\* "So a topic's history survives the root's departure": no departure that ended
\* in its own time with an honest ack takes the last copy with it, whatever was
\* refused, held short, lost, sent twice or re-resolved on the way, and whoever
\* stayed out because its root was alive.
HandoffKeepsBody == published /\ blame = {} => BodyHeld

=============================================================================
