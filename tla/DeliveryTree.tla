---------------------------- MODULE DeliveryTree ----------------------------
(***************************************************************************)
(* The delivery tree of one topic below a live root: who seats whom, how a  *)
(* full node delegates (wireHandlers.js), how a node selects and keeps its  *)
(* parent (AxonaManager, topicLifetime.js, armed as by default), and how a  *)
(* seat, a branch or a node goes (repairPlane.js).                          *)
(*                                                                          *)
(* Bodies are left out: a renewal may or may not be answered, as there is   *)
(* or is not something newer to replay.  Routing is: a message whose target *)
(* serves nothing or is gone reaches the root.  Map order and the XOR       *)
(* distance to a child are any order.  Timers have no length, but a seat    *)
(* lapses only when its holder does not renew it.                           *)
(***************************************************************************)
EXTENDS Integers, FiniteSets

CONSTANTS
    Reader,        \* nodes below the root
    MaxDirect,     \* MAX_DIRECT
    MinReaders,    \* CHILD_MIN_READERS
    MaxTries,      \* bound: attach attempts of a node not yet settled
    MaxPromote,    \* bound: delegations to a new child
    MaxLoss,       \* bound: messages lost and nodes dead, together
    MaxTrouble,    \* bound: delegations and losses, together
    MaxLeave,      \* bound: readers that unsubscribe
    MaxNet         \* bound: messages under way when a renewal is sent

Root == "root"
Nobody == "none"
Member == Reader \cup {Root}

\* With so few readers a child is never over capacity.
ASSUME TreeAssumption ==
    /\ IsFiniteSet(Reader) /\ Root \notin Reader /\ Nobody \notin Reader
    /\ MaxDirect \in Nat /\ Cardinality(Reader) <= MaxDirect + 1
    /\ MinReaders \in Nat /\ MaxTries \in Nat \ {0} /\ MaxPromote \in Nat
    /\ MaxLoss \in Nat /\ MaxTrouble \in Nat /\ MaxLeave \in Nat /\ MaxNet \in Nat

VARIABLES
    want,      \* nodes whose mySubscriptions has the topic
    dead,
    relay,     \* nodes with a non-root role
    seats,     \* role.subscribers, per node
    kids,      \* role.children
    pend,      \* role.merge.pendingDelegation: [nonce, child, subs]
    pin,       \* _upstream
    attached,  \* nodes whose _attach record has a generation
    mail,      \* messages under way
    promotes, losses, left

dtVars == <<want, dead, relay, seats, kids, pend, pin, attached, mail, promotes, losses, left>>
counts == <<promotes, losses, left>>

DtInit ==
    /\ want = {} /\ attached = {} /\ dead = {} /\ relay = {} /\ mail = {} /\ left = {}
    /\ pin = [n \in Reader |-> Nobody] /\ seats = [n \in Member |-> {}]
    /\ kids = [n \in Member |-> {}] /\ pend = [n \in Member |-> {}]
    /\ promotes = 0 /\ losses = 0

Troubles == promotes + losses < MaxTrouble

Serves(p) == p = Root \/ p \in relay
Target(n) == IF pin[n] = Nobody THEN Root ELSE pin[n]

\* k is the attempt a SUB carries and its answer echoes, 0 when there is none:
\* the order of a node's attempts since the last one it committed.
Sub(n, to, k)             == [t |-> "sub", from |-> n, to |-> to, k |-> k]
Delivers(p, n, k, gen, to) == [t |-> "deliver", from |-> p, to |-> n, k |-> k, gen |-> gen, delegate |-> to]
Adopt(p, c, S, nonce)     == [t |-> "adopt", from |-> p, to |-> c, subs |-> S, nonce |-> nonce]
AdoptAck(c, p, S, nonce)  == [t |-> "ack", from |-> c, to |-> p, subs |-> S, nonce |-> nonce]
Unsub(n, to)              == [t |-> "unsub", from |-> n, to |-> to]
Rehome(p, n, to)          == [t |-> "rehome", from |-> p, to |-> n, upstream |-> to]

Attempts(n) == {0} \cup {m.k : m \in {x \in mail : (x.t = "sub" /\ x.from = n) \/ (x.t = "deliver" /\ x.to = n)}}
Latest(n) == CHOOSE k \in Attempts(n) : \A j \in Attempts(n) : j <= k

\* _sendSubscribe.  Its attempts are numbered above those still open.
Subscribing(n, P) == Sub(n, IF P[n] = Nobody THEN Root ELSE P[n], Latest(n) + 1)

-----------------------------------------------------------------------------
(***************************************************************************)
(* Subscribing.                                                            *)
(***************************************************************************)
\* pubsubSubscribe.
Subscribe(n) ==
    /\ n \notin want \cup dead /\ Latest(n) < MaxTries
    /\ want' = want \cup {n}
    /\ mail' = mail \cup {Subscribing(n, pin)}
    /\ UNCHANGED <<dead, relay, seats, kids, pend, pin, attached, counts>>

\* pubsubUnsubscribe: the pin goes, the attachment too unless a role keeps it.
Unsubscribe(n) ==
    /\ n \in want /\ Cardinality(left) < MaxLeave /\ left' = left \cup {n}
    /\ want' = want \ {n}
    /\ attached' = IF n \in relay THEN attached ELSE attached \ {n}
    /\ pin' = [pin EXCEPT ![n] = Nobody]
    /\ mail' = mail \cup {Unsub(n, Target(n))}
    /\ UNCHANGED <<dead, relay, seats, kids, pend, promotes, losses>>

\* refreshTick renews readers and relays with seats.
RenewSeat(n) ==
    /\ n \notin dead /\ (n \in want \/ (n \in relay /\ seats[n] # {}))
    /\ Cardinality(mail) < MaxNet /\ ~\E m \in mail : m.t = "sub" /\ m.from = n
    /\ Latest(n) < MaxTries
    /\ mail' = mail \cup {Subscribing(n, pin)}
    /\ UNCHANGED <<want, dead, relay, seats, kids, pend, pin, attached, counts>>

\* The generation a holder's DELIVERs name: the root's own, or the attachment's.
GenCarried(p) == p = Root \/ p \in attached

-----------------------------------------------------------------------------
(***************************************************************************)
(* _onSub and _accept.                                                     *)
(***************************************************************************)
Pending(p) == UNION {d.subs : d \in pend[p]}
Leaves(p) == seats[p] \ (kids[p] \cup Pending(p))
Full(p) == Cardinality(seats[p]) >= MaxDirect
Heads(m) == m.t = "sub" /\ m.to \notin dead /\ Serves(m.to)

\* A waypoint that serves nothing, or is gone, is popped.
SubRerouted(m) ==
    /\ m \in mail /\ m.t = "sub" /\ ~Heads(m)
    /\ mail' = (mail \ {m}) \cup {[m EXCEPT !.to = Root]}
    /\ UNCHANGED <<want, dead, relay, seats, kids, pend, pin, attached, counts>>

\* A renewal: answered when there is something to replay.
SubRenewed(m) ==
    /\ m \in mail /\ Heads(m) /\ m.from \in seats[m.to]
    /\ mail' \in {mail \ {m}, (mail \ {m}) \cup {Delivers(m.to, m.from, m.k, GenCarried(m.to), Nobody)}}
    /\ UNCHANGED <<want, dead, relay, seats, kids, pend, pin, attached, counts>>

\* A new seat; over capacity when there is no leaf to promote and no child.
SubSeated(m) ==
    LET p == m.to
    IN  /\ m \in mail /\ Heads(m) /\ m.from \notin seats[p] /\ m.from # p
        /\ Full(p) => Cardinality(Leaves(p)) < 2 /\ kids[p] \cap seats[p] = {}
        /\ seats' = [seats EXCEPT ![p] = @ \cup {m.from}]
        /\ mail' = (mail \ {m}) \cup {Delivers(p, m.from, m.k, GenCarried(p), Nobody)}
        /\ UNCHANGED <<want, dead, relay, kids, pend, pin, attached, counts>>

\* _promoteChild: a leaf is to take the others, which stay seated here until it
\* says so; each is told its new parent.
SubPromotes(m) ==
    LET p == m.to
    IN  /\ m \in mail /\ Heads(m) /\ m.from \notin seats[p] /\ m.from # p
        /\ Full(p) /\ Cardinality(Leaves(p)) >= 2
        /\ promotes < MaxPromote /\ Troubles /\ promotes' = promotes + 1
        /\ \E c \in Leaves(p) :
              LET batch == Leaves(p) \ {c}
              IN  /\ kids' = [kids EXCEPT ![p] = @ \cup {c}]
                  /\ pend' = [pend EXCEPT ![p] = @ \cup {[nonce |-> promotes', child |-> c, subs |-> batch]}]
                  /\ mail' = (mail \ {m}) \cup {Adopt(p, c, batch, promotes')}
                              \cup {Delivers(p, b, 0, GenCarried(p), c) : b \in batch}
                              \cup {Delivers(p, m.from, m.k, GenCarried(p), Nobody)}
        /\ seats' = [seats EXCEPT ![p] = @ \cup {m.from}]
        /\ UNCHANGED <<want, dead, relay, pin, attached, losses, left>>

\* Deepen: the newcomer goes to a child, without a pending entry.
SubDeepens(m) ==
    LET p == m.to
    IN  /\ m \in mail /\ Heads(m) /\ m.from \notin seats[p] /\ m.from # p
        /\ Full(p) /\ Cardinality(Leaves(p)) < 2
        /\ \E c \in kids[p] \cap seats[p] :
              mail' = (mail \ {m}) \cup {Adopt(p, c, {m.from}, 0), Delivers(p, m.from, m.k, GenCarried(p), c)}
        /\ kids' = [kids EXCEPT ![p] = @ \cap seats[p]]
        /\ UNCHANGED <<want, dead, relay, seats, pend, pin, attached, counts>>

-----------------------------------------------------------------------------
(***************************************************************************)
(* Delegation.                                                             *)
(***************************************************************************)
\* _onAdopt: a relay pinned to the parent, the batch seated, an ack, and a SUB.
OnAdopt(m) ==
    LET c == m.to
        S == m.subs \ {c}
        P == [pin EXCEPT ![c] = m.from]
    IN  /\ m \in mail /\ m.t = "adopt" /\ c \notin dead /\ Latest(c) < MaxTries
        /\ relay' = relay \cup {c} /\ pin' = P
        /\ seats' = [seats EXCEPT ![c] = @ \cup S]
        /\ mail' = (mail \ {m}) \cup {AdoptAck(c, m.from, S, m.nonce), Subscribing(c, P)}
                    \cup (IF GenCarried(c) THEN {} ELSE {Delivers(c, s, 0, FALSE, Nobody) : s \in S \ seats[c]})
        /\ UNCHANGED <<want, dead, kids, pend, attached, counts>>

\* Mutant: the ack is not read, every delegated seat is released.
ReleasedAll(p, d, accepted) == (d.subs \cap seats[p]) \ kids[p]

\* The seats a settled delegation gives up: the ones the child names.
Released(p, d, accepted) == (accepted \cap d.subs \cap seats[p]) \ kids[p]

\* _settleDelegation: a child that took nothing is a leaf again.
Settle(p, d, accepted) ==
    LET gone == Released(p, d, accepted)
    IN  /\ pend' = [pend EXCEPT ![p] = @ \ {d}]
        /\ seats' = [seats EXCEPT ![p] = @ \ gone]
        /\ kids' = IF gone = {} THEN [kids EXCEPT ![p] = @ \ {d.child}] ELSE kids

OnAdoptAck(m) ==
    /\ m \in mail /\ m.t = "ack" /\ m.to \notin dead /\ mail' = mail \ {m}
    /\ IF \E d \in pend[m.to] : d.nonce = m.nonce
       THEN \E d \in pend[m.to] : d.nonce = m.nonce /\ Settle(m.to, d, m.subs)
       ELSE UNCHANGED <<seats, kids, pend>>
    /\ UNCHANGED <<want, dead, relay, pin, attached, counts>>

\* _delegationSweep.
DelegationTimeout(p) ==
    /\ \E d \in pend[p] : Settle(p, d, {})
    /\ UNCHANGED <<want, dead, relay, pin, attached, mail, counts>>

-----------------------------------------------------------------------------
(***************************************************************************)
(* _onDeliver: the attachment decision.                                    *)
(***************************************************************************)
\* An answer to an attempt newer than the committed one is taken from any parent;
\* fan-out only from the pinned one; a frame naming no generation re-pins.
Decision(n, m) ==
    IF ~m.gen THEN "legacy"
    ELSE IF m.k > 0 THEN "commit"
    ELSE IF n \in attached /\ pin[n] = m.from THEN "forward" ELSE "data"

\* Once attempt k is committed the ones up to it are data only.
Committed(n, k, N) ==
    {IF (x.t = "sub" /\ x.from = n) \/ (x.t = "deliver" /\ x.to = n)
     THEN [x EXCEPT !.k = IF @ > k THEN @ - k ELSE 0] ELSE x : x \in N}

OnDeliver(m) ==
    LET n == m.to
        v == Decision(n, m)
    IN  /\ m \in mail /\ m.t = "deliver" /\ n \notin dead
        /\ mail' = IF v = "commit" THEN Committed(n, m.k, mail \ {m}) ELSE mail \ {m}
        /\ attached' = IF v \in {"commit", "forward"} THEN attached \cup {n} ELSE attached
        /\ pin' = IF v = "data" THEN pin
                  ELSE [pin EXCEPT ![n] = IF v # "legacy" /\ m.delegate \notin {Nobody, n} THEN m.delegate ELSE m.from]
        /\ UNCHANGED <<want, dead, relay, seats, kids, pend, counts>>

-----------------------------------------------------------------------------
(***************************************************************************)
(* What goes.                                                              *)
(***************************************************************************)
\* _retireRole: the pin goes with the role, the attachment unless it is a reader's.
RoleGone(n) ==
    /\ relay' = relay \ {n} /\ pin' = [pin EXCEPT ![n] = Nobody]
    /\ seats' = [seats EXCEPT ![n] = {}] /\ kids' = [kids EXCEPT ![n] = {}] /\ pend' = [pend EXCEPT ![n] = {}]
    /\ attached' = IF n \in want THEN attached ELSE attached \ {n}

\* _onUnsub, at the waypoint or past it.
OnUnsub(m) ==
    /\ m \in mail /\ m.t = "unsub"
    /\ IF m.to \notin dead /\ Serves(m.to)
       THEN /\ seats' = [seats EXCEPT ![m.to] = @ \ {m.from}]
            /\ kids' = [kids EXCEPT ![m.to] = @ \ {m.from}]
            /\ mail' = mail \ {m}
       ELSE mail' = (mail \ {m}) \cup {Unsub(m.from, Root)} /\ UNCHANGED <<seats, kids>>
    /\ UNCHANGED <<want, dead, relay, pend, pin, attached, counts>>

Renews(n, p) ==
    /\ n \notin dead /\ (n \in want \/ (n \in relay /\ seats[n] # {}))
    /\ Target(n) = p \/ \E m \in mail : m.t = "sub" /\ m.from = n /\ m.to = p

\* DROP_MS without a renewal.
Lapse(p, n) ==
    /\ mail = {} /\ n \in seats[p] /\ ~Renews(n, p)
    /\ seats' = [seats EXCEPT ![p] = @ \ {n}] /\ kids' = [kids EXCEPT ![p] = @ \ {n}]
    /\ UNCHANGED <<want, dead, relay, pend, pin, attached, mail, counts>>

\* A relay without seats and without a reader of its own.
Reap(n) ==
    /\ mail = {} /\ n \in relay \ want /\ seats[n] = {} /\ pend[n] = {}
    /\ RoleGone(n)
    /\ UNCHANGED <<want, dead, mail, counts>>

\* _roleDemand.
Demand(n) == Cardinality(seats[n] \cap want)

\* Mutant: a thin branch stands.
ThinBranchNever(n) == FALSE

\* _thinBranchSweep: fewer readers than are worth a branch, and a live parent.
ThinBranch(n) ==
    /\ n \in relay /\ seats[n] # {} /\ Demand(n) < MinReaders
    /\ pin[n] # Nobody /\ pin[n] \notin dead /\ pend[n] = {}

\* _stepDownChild: its seats are sent to its own parent.
StepDown(n) ==
    /\ mail = {} /\ ThinBranch(n)
    /\ mail' = mail \cup {Rehome(n, s, pin[n]) : s \in seats[n]} \cup {Unsub(n, pin[n])}
    /\ RoleGone(n)
    /\ UNCHANGED <<want, dead, counts>>

OnRehome(m) ==
    LET n == m.to
        P == [pin EXCEPT ![n] = IF m.upstream = n THEN Nobody ELSE m.upstream]
    IN  /\ m \in mail /\ m.t = "rehome" /\ n \notin dead
        /\ Latest(n) < MaxTries
        /\ IF pin[n] = m.from THEN pin' = P /\ mail' = (mail \ {m}) \cup {Subscribing(n, P)}
           ELSE mail' = mail \ {m} /\ UNCHANGED pin
        /\ UNCHANGED <<want, dead, relay, seats, kids, pend, attached, counts>>

\* A node goes without a word, and what it held; its peers learn it.
Die(n) ==
    /\ n \notin dead /\ losses < MaxLoss /\ Troubles /\ losses' = losses + 1
    /\ dead' = dead \cup {n} /\ want' = want \ {n}
    /\ relay' = relay \ {n} /\ attached' = attached \ {n} /\ pin' = [pin EXCEPT ![n] = Nobody]
    /\ seats' = [seats EXCEPT ![n] = {}] /\ kids' = [kids EXCEPT ![n] = {}] /\ pend' = [pend EXCEPT ![n] = {}]
    /\ mail' = {m \in mail : m.from # n /\ ~(m.to = n /\ m.t \notin {"sub", "unsub"})}
    /\ UNCHANGED <<promotes, left>>

\* pubsubPeerDied, and _unpinIfWaypointDead.
Unpin(n) ==
    /\ pin[n] \in dead /\ pin' = [pin EXCEPT ![n] = Nobody]
    /\ UNCHANGED <<want, dead, relay, seats, kids, pend, attached, mail, counts>>

Lose(m) ==
    /\ m \in mail /\ losses < MaxLoss /\ Troubles /\ losses' = losses + 1
    /\ mail' = mail \ {m}
    /\ UNCHANGED <<want, dead, relay, seats, kids, pend, pin, attached, promotes, left>>

Handle(m) ==
    \/ SubRerouted(m) \/ SubRenewed(m) \/ SubSeated(m) \/ SubPromotes(m) \/ SubDeepens(m)
    \/ OnAdopt(m) \/ OnAdoptAck(m) \/ OnDeliver(m) \/ OnUnsub(m) \/ OnRehome(m)

DtNext ==
    \/ \E n \in Reader : Subscribe(n) \/ Unsubscribe(n) \/ RenewSeat(n)
    \/ \E m \in mail : Handle(m)
    \/ \E m \in mail : Lose(m)
    \/ \E p \in Member : DelegationTimeout(p)
    \/ \E p \in Member, n \in Reader : Lapse(p, n)
    \/ \E n \in Reader : Reap(n) \/ StepDown(n) \/ Die(n) \/ Unpin(n)

DtSpec == DtInit /\ [][DtNext]_dtVars

-----------------------------------------------------------------------------
DtTypeOK ==
    /\ want \subseteq Reader \ dead /\ dead \subseteq Reader /\ relay \subseteq Reader \ dead
    /\ attached \subseteq Reader /\ left \subseteq Reader
    /\ seats \in [Member -> SUBSET Reader] /\ kids \in [Member -> SUBSET Reader]
    /\ pin \in [Reader -> Member \cup {Nobody}]
    /\ \A n \in Reader : pin[n] # n /\ n \notin seats[n] /\ (n \notin relay => seats[n] = {})
    /\ promotes \in 0..MaxPromote /\ losses \in 0..MaxLoss

\* A node is fed when seats lead to it from the root.
Below(S) == S \cup UNION {seats[p] : p \in S}
Fed == Below(Below(Below({Root})))

\* At rest: nothing is under way, pending or due, and every renewal finds its seat.
AtRest ==
    /\ mail = {} /\ \A p \in Member : pend[p] = {}
    /\ \A n \in Reader : pin[n] \notin dead /\ ~ThinBranch(n)
    /\ \A n \in Reader : n \in want \/ (n \in relay /\ seats[n] # {}) => n \in seats[Target(n)]
    /\ \A p \in Member : \A n \in seats[p] : Renews(n, p)

\* "This node KEEPS SERVING those subscribers until the child's ADOPTACK names
\* them": whichever of ADOPT, ADOPTACK, handover and timeout is lost, late or
\* first, no settling of a delegation gives up the seat of a reader that its
\* child does not hold, unless the reader left meanwhile or the child died.
KeepServed ==
    \A p \in Member : \A d \in pend[p] \ pend'[p] : \A n \in seats[p] \ seats'[p] :
        n \in seats[d.child] \cup left \/ d.child \in dead

\* "So the tree is self-healing": no two delegations, timed out, acked or
\* overtaken, leave nodes that renew with each other and get nothing from the
\* root; a ring of two is broken by the step-down of a thin branch, and only by it.
RestIsServed == AtRest => want \subseteq Fed

\* A delegation gives up no reader that its child does not hold, and a tree come
\* to rest feeds everyone who wants the topic (_accept, _settleDelegation).
ReadersServed == [][KeepServed /\ RestIsServed']_dtVars

=============================================================================
