------------------------------- MODULE Kills -------------------------------
(***************************************************************************)
(* One message and its kill at the nodes that hold a topic: a root, relays   *)
(* below it, and the cohort that the root replicates to.  The body and the   *)
(* kill reach a node by fan-out, by the replay of a renewal, by REPLICATE    *)
(* and by the REPLAYUP of a child, in any order, repeated or never.  Every   *)
(* node holds a role of the topic and an application that reads it.          *)
(*                                                                           *)
(* A node holds the body or the tombstone and never both, so a frame that    *)
(* carries what a node holds carries one of them.  Kills are signed by the   *)
(* message's author and no behaviour lasts TTL_MS.  The gates of a merge are *)
(* in MergeMachine, the root's succession is in RootElection.                *)
(***************************************************************************)
EXTENDS Naturals, FiniteSets

CONSTANTS
    Kids,       \* the tree: the children of each node; node 1 is the root
    Cohort,     \* the nodes that the root replicates to
    MaxBreak    \* bound: restarts and frames lost, together

KNode == DOMAIN Kids

ASSUME KillsAssumption ==
    /\ 1 \in KNode /\ \A n \in KNode : Kids[n] \subseteq KNode \ {1, n}
    /\ Cohort \subseteq KNode \ {1}
    /\ MaxBreak \in Nat

VARIABLES
    cached,     \* the nodes whose role.cache holds the body
    tombs,      \* the nodes whose role.tombstones hold the kill
    app,        \* what the application at a node was given
    killKeys,   \* the nodes whose _appDelivered holds the kill's key
    air,        \* frames in flight
    waiting,    \* handlers suspended in an await
    overtaken,  \* ghost: the nodes that a kill passed while a DELIVER awaited
    breaks      \* restarts and frames lost so far

kiVars == <<cached, tombs, app, killKeys, air, waiting, overtaken, breaks>>

\* The state a snapshot, a delta or a replay carries: cached bodies, and every
\* active tombstone whatever `since` says.
\* (mutant HeldBodyOnly) a transfer that carries the cache alone
HeldBodyOnly(n) == IF n \in cached THEN {"body"} ELSE {}
HeldItems(n) == HeldBodyOnly(n) \cup (IF n \in tombs THEN {"del"} ELSE {})

Frames(kind, to, whats) == {[kind |-> kind, to |-> n, what |-> w] : n \in to, w \in whats}
Fanout(n, what) == Frames("deliver", Kids[n], {what})
\* A root pushes what it stamps at once, and what else it takes in at its next tick.
Replica(n, what) == IF n = 1 THEN Frames("union", Cohort, {what}) ELSE {}

KiInit ==
    /\ cached = {} /\ tombs = {} /\ app = [n \in KNode |-> "none"] /\ killKeys = {}
    /\ air = {} /\ waiting = {} /\ overtaken = {} /\ breaks = 0

Awaits(handler, n) == [handler |-> handler, at |-> n]

---------------------------------------------------------------------------
(* The store.                                                                *)

DeliverToApp(n) == app' = [app EXCEPT ![n] = IF @ = "none" THEN "body" ELSE @]

\* A kill takes back what the application was given, the first time only.
DeliverKillToApp(n) ==
    /\ killKeys' = killKeys \cup {n}
    /\ app' = [app EXCEPT ![n] = IF n \notin killKeys /\ @ = "body" THEN "retracted" ELSE @]

CachePush(n) ==
    /\ cached' = cached \cup {n}
    /\ DeliverToApp(n)
    /\ air' = air \cup Fanout(n, "body") \cup Replica(n, "body")
    /\ UNCHANGED <<tombs, killKeys, overtaken, breaks>>

\* The first sight of a kill drops the body and passes the kill on; every sight of
\* it is offered to the application.
ApplyKill(n) ==
    /\ DeliverKillToApp(n)
    /\ IF n \notin tombs
       THEN /\ tombs' = tombs \cup {n}
            /\ cached' = cached \ {n}
            /\ air' = air \cup Fanout(n, "del") \cup Replica(n, "del")
       ELSE UNCHANGED <<tombs, cached, air>>
    /\ overtaken' = IF Awaits("deliver", n) \in waiting THEN overtaken \cup {n} ELSE overtaken
    /\ UNCHANGED breaks

Suppressed(n) == n \in cached \cup tombs

Suspend(handler, n) == waiting' = waiting \cup {Awaits(handler, n)}
Resumes(handler, n) == Awaits(handler, n) \in waiting /\ waiting' = waiting \ {Awaits(handler, n)}

Ignored == UNCHANGED <<cached, tombs, app, killKeys, air, overtaken, breaks>>

---------------------------------------------------------------------------
(* Writes at the root.  The author may send both again at any time.           *)

WriteArrives(op) ==
    /\ Suspend(op, 1)
    /\ Ignored

IngestPublish ==
    /\ Resumes("pub", 1)
    /\ IF Suppressed(1) THEN Ignored ELSE CachePush(1)

OnKill ==
    /\ Resumes("kill", 1)
    /\ ApplyKill(1)

---------------------------------------------------------------------------
(* What nodes send each other.                                               *)

SendSnapshot(kind, to, whats) ==
    /\ whats # {}
    /\ air' = air \cup Frames(kind, {to}, whats)
    /\ UNCHANGED <<cached, tombs, app, killKeys, waiting, overtaken, breaks>>

\* A renewal's replay: the bodies above `since`, which may exclude this one.
ReplayTo(n, c) == c \in Kids[n] /\ \E whats \in {HeldItems(n), HeldItems(n) \ {"body"}} : SendSnapshot("deliver", c, whats)

Replicate(n) == n \in Cohort /\ SendSnapshot("union", n, HeldItems(1))

\* A parent behind its child pulls, and the child answers with its delta.
PullUp(n, c) == c \in Kids[n] /\ SendSnapshot("union", n, HeldItems(c))

Lose(f) ==
    /\ breaks < MaxBreak /\ breaks' = breaks + 1
    /\ air' = air \ {f}
    /\ UNCHANGED <<cached, tombs, app, killKeys, waiting, overtaken>>

---------------------------------------------------------------------------
(* What a node does with a frame.                                            *)

\* _onDeliver pushes a body at once when the relay knows the topic's kind.  For the
\* first body of a topic it awaits the kind between the test for the tombstone and
\* the push.
OnDeliver(n) ==
    /\ [kind |-> "deliver", to |-> n, what |-> "body"] \in air
    /\ ~Suppressed(n)
    /\ \/ CachePush(n) /\ UNCHANGED waiting
       \/ Suspend("deliver", n) /\ Ignored

DeriveDone(n) == Resumes("deliver", n) /\ CachePush(n)

OnDel(f) ==
    /\ f \in air /\ f.what = "del"
    /\ ApplyKill(f.to)
    /\ UNCHANGED waiting

\* A REPLICATE or a REPLAYUP: the body is verified, and what the node holds by
\* then decides.
OnUnion(n) ==
    /\ [kind |-> "union", to |-> n, what |-> "body"] \in air
    /\ Suspend("union", n)
    /\ Ignored

\* (mutant) an ingest that trusts the tombstones it saw before it verified the body
IngestStampedUnchecked(n) == Resumes("union", n) /\ (IF n \in cached THEN Ignored ELSE CachePush(n))
IngestStamped(n) == Resumes("union", n) /\ (IF Suppressed(n) THEN Ignored ELSE CachePush(n))

Restart(n) ==
    /\ n # 1 /\ breaks < MaxBreak /\ breaks' = breaks + 1
    /\ cached' = cached \ {n} /\ tombs' = tombs \ {n} /\ killKeys' = killKeys \ {n}
    /\ app' = [app EXCEPT ![n] = "none"]
    /\ waiting' = {b \in waiting : b.at # n} /\ overtaken' = overtaken \ {n}
    /\ air' = {f \in air : f.to # n}

---------------------------------------------------------------------------

KiNext ==
    \/ \E op \in {"pub", "kill"} : WriteArrives(op)
    \/ IngestPublish
    \/ OnKill
    \/ \E n \in KNode :
        \/ \E c \in Kids[n] : ReplayTo(n, c) \/ PullUp(n, c)
        \/ Replicate(n)
        \/ OnDeliver(n)
        \/ DeriveDone(n)
        \/ OnUnion(n)
        \/ IngestStamped(n)
        \/ Restart(n)
    \/ \E f \in air : Lose(f) \/ OnDel(f)

KiSpec == KiInit /\ [][KiNext]_kiVars

DelFrame(kind, n) == [kind |-> kind, to |-> n, what |-> "del"]

\* A subscriber renews at every tick, and a kill that is not lost arrives.
KiFairness ==
    /\ \A n \in KNode : \A c \in Kids[n] : WF_kiVars(ReplayTo(n, c))
    /\ \A n \in KNode \ {1} : WF_kiVars(\E kind \in {"deliver", "union"} : OnDel(DelFrame(kind, n)))

KiFairSpec == KiSpec /\ KiFairness

KiTypeOK ==
    /\ {cached, tombs, killKeys, overtaken} \subseteq SUBSET KNode
    /\ app \in [KNode -> {"none", "body", "retracted"}]
    /\ air \subseteq Frames("deliver", KNode, {"body", "del"}) \cup Frames("union", KNode, {"body", "del"})
    /\ waiting \subseteq [handler : {"pub", "kill", "deliver", "union"}, at : KNode]
    /\ breaks \in 0 .. MaxBreak

\* What _onPull answers a read with.
Hit(n) == n \in cached

\* A node that holds a message's tombstone answers no read with the message, and
\* its application was never given it or had it taken back: a body that was in
\* flight, or awaiting its verification, when the kill passed does not bring the
\* message back (_onPull, _ingestStamped, _onDeliver).  A relay that awaited the
\* kind of its first body is the exception.
KilledStaysDead == \A n \in tombs \ overtaken : ~Hit(n) /\ app[n] # "body"

\* Once the root holds the tombstone, every copy of the message is dropped in the
\* end and none comes back: a fan-out that was lost is made up for by the next
\* renewal or replication (_replayTo, _replicateRole).
KillConverges == [](1 \in tombs => <>[](cached \subseteq overtaken))
=============================================================================
