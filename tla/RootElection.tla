----------------------------- MODULE RootElection -----------------------------
(***************************************************************************)
(* Who roots one topic: the claim of pubsub/rootClaim.js, the beacons and   *)
(* the self-verification of pubsub/rootElection.js, and the request          *)
(* handlers of pubsub/wireHandlers.js and AxonaManager.js that move a claim. *)
(*                                                                          *)
(* A node is its XOR rank: 1 is the closest to the topic.  One message       *)
(* stands for the custody of a role.  Every node is merge-capable; the merge *)
(* itself is one step here (MergeMachine is its detail), or its legacy       *)
(* fallback when the answer to an offer is lost.  Convictions of a root are  *)
(* WriteFlight's and left out.  Ages stand for the clocks: a record is fresh *)
(* and then old, a hold is new and then late.                                *)
(***************************************************************************)
EXTENDS Integers, FiniteSets

CONSTANTS
    RootN,        \* the nodes are 1..RootN
    MaxEpoch,     \* bound on the epochs minted
    MaxMishap,     \* bound on the faults: deaths, channels lost between live nodes,
                  \* roles torn down, offers whose answer is lost
    MaxBeacon,    \* bound on the beacons in flight; more are lost
    MaxWait,      \* bound on the verdicts and lookups awaited at once
    BeaconLayers  \* how many hops a beacon travels

ASSUME ElectionAssumption ==
    /\ RootN \in Nat \ {0} /\ MaxEpoch \in Nat \ {0} /\ BeaconLayers \in Nat \ {0}
    /\ MaxMishap \in Nat /\ MaxBeacon \in Nat /\ MaxWait \in Nat

Rank == 1..RootN
NoOne == 0

VARIABLES
    alive,    \* the nodes that run
    nbr,      \* nbr[n]: the direct neighbours n believes in
    seat,     \* seat[n]: n's role on the topic, [kind, epoch, body, pin]
    rec,      \* rec[n]: _rootBeacons, [root, epoch, fresh, verified]
    hold,     \* hold[n]: _stepDownHold with the accepted winner, [to, won, late]
    rival,    \* rival[n]: role.merge.candidate, [id, epoch]
    beacons,  \* ROOTBEACON in flight: [root, epoch, to, layer]
    forward,  \* forward[n]: the root a write was forwarded to by name, [root, same]
    visited,  \* visited[n]: what the verify in flight will answer, NoOne if none is
    kept,     \* a message was stamped and neither expired nor died with its last root
    mishaps,  \* how many faults there were
    silent    \* one of them was an offer whose answer was lost

reVars == <<alive, nbr, seat, rec, hold, rival, beacons, forward, visited, kept, mishaps, silent>>

NoSeat == [kind |-> "none", epoch |-> 0, body |-> FALSE, pin |-> NoOne]
NoRec == [root |-> NoOne, epoch |-> 0, fresh |-> FALSE, verified |-> FALSE]
NoHold == [to |-> NoOne, won |-> FALSE, late |-> FALSE]
NoCand == [id |-> NoOne, epoch |-> 0]
NoForward == [root |-> NoOne, same |-> FALSE]

Connected(g) == \A S \in SUBSET Rank \ {{}, Rank} : \E m \in S : g[m] \ S # {}

ReInit ==
    /\ alive = Rank
    /\ nbr \in {g \in [Rank -> SUBSET Rank] :
                  /\ \A m, n \in Rank : m \in g[n] <=> n \in g[m]
                  /\ \A n \in Rank : n \notin g[n]
                  /\ Connected(g)}
    /\ seat = [n \in Rank |-> NoSeat] /\ rec = [n \in Rank |-> NoRec]
    /\ hold = [n \in Rank |-> NoHold] /\ rival = [n \in Rank |-> NoCand]
    /\ beacons = {} /\ forward = [n \in Rank |-> NoForward]
    /\ visited = [n \in Rank |-> NoOne] /\ kept = FALSE
    /\ mishaps = 0 /\ silent = FALSE

-----------------------------------------------------------------------------
(***************************************************************************)
(* The decision table.                                                     *)
(***************************************************************************)
IsRoot(n) == seat[n].kind = "root"

\* Custody is a root's; a child's copy goes with its role (holdsHistory).
Custody(n) == IsRoot(n) /\ seat[n].body

\* A bare request ends where no neighbour is closer (selfClosestReachable).
IsTerminal(n) == n \in alive /\ \A m \in nbr[n] : m > n

\* servingCapable and meshBare: a node without a neighbour roots nothing.
Capable(n) == nbr[n] # {}

\* _knownEpoch: the highest epoch it has evidence of, expired or not.
KnownEpoch(n) == IF rec[n].epoch > seat[n].epoch THEN rec[n].epoch ELSE seat[n].epoch

LiveCloserRoot(n, requireReachable) ==
    LET b == rec[n]
    IN  IF /\ b.root # NoOne /\ b.root < n
           /\ \/ b.verified /\ b.fresh
              \/ b.root \in nbr[n]
              \/ ~requireReachable /\ b.fresh
        THEN b.root ELSE NoOne

Held(n) == hold[n].to # NoOne

HoldTarget(n) ==
    LET h == hold[n]
    IN  IF h.won \/ h.to \in nbr[n] \/ LiveCloserRoot(n, FALSE) = h.to THEN h.to ELSE NoOne

\* One relation for two claims: the higher epoch, at equal or unknown epochs
\* the closer node.
ClaimWins(a, ea, b, eb) == IF ea > 0 /\ eb > 0 /\ ea # eb THEN ea > eb ELSE a < b

BestKnown(n) ==
    LET known == {n} \cup nbr[n] \cup ({rec[n].root} \ {NoOne})
    IN  CHOOSE m \in known : \A k \in known : m <= k

-----------------------------------------------------------------------------
(***************************************************************************)
(* Taking and shedding a claim.                                            *)
(***************************************************************************)
\* become, or _set to root: the next epoch, no hold, no upstream.
AsRoot(n, body) == [kind |-> "root", epoch |-> KnownEpoch(n) + 1, body |-> body, pin |-> NoOne]

Announced(n, epoch) == {[root |-> n, epoch |-> epoch, to |-> m, layer |-> BeaconLayers] : m \in nbr[n]}

\* What the network takes of the beacons sent; the others are lost.
Flooded(B, bs) == {B \cup S : S \in {T \in SUBSET bs : Cardinality(B \cup T) <= MaxBeacon}}

TakeRoot(n, body) ==
    /\ KnownEpoch(n) < MaxEpoch
    /\ seat' = [seat EXCEPT ![n] = AsRoot(n, body)]
    /\ hold' = [hold EXCEPT ![n] = NoHold]

\* demote: the role stays as a child pinned to the winner; only a closer
\* winner, or the one a merge accepted, is held for.
Demoted(n, w) == [seat[n] EXCEPT !.kind = "child", !.pin = w]
HeldFor(n, w, won) == IF won \/ w < n THEN [to |-> w, won |-> won, late |-> FALSE] ELSE hold[n]

\* Mutant: a root sheds its claim whatever it holds.
HoldsBodyNever(n) == FALSE

HoldsBody(n) == seat[n].body

\* _mergeCandidate: the one entry of every path that names a winner.  Without
\* custody the root yields at once; with custody the winner is recorded, if it
\* wins over this node's claim and over the standing candidate.
MergeCandidate(s, n, w, e) ==
    IF ~IsRoot(n) \/ w = n THEN seat' = s /\ UNCHANGED <<hold, rival>>
    ELSE IF ~HoldsBody(n)
    THEN /\ seat' = [s EXCEPT ![n] = Demoted(n, w)]
         /\ hold' = [hold EXCEPT ![n] = HeldFor(n, w, FALSE)]
         /\ rival' = [rival EXCEPT ![n] = NoCand]
    ELSE /\ rival' = IF /\ ClaimWins(w, e, n, seat[n].epoch)
                        /\ rival[n].id = NoOne \/ ClaimWins(w, e, rival[n].id, rival[n].epoch)
                     THEN [rival EXCEPT ![n] = [id |-> w, epoch |-> e]] ELSE rival
         /\ seat' = s /\ UNCHANGED hold

\* A record written anew is no longer the one a forward relied on.
SetRecord(n, r) ==
    /\ rec' = [rec EXCEPT ![n] = r]
    /\ forward' = [forward EXCEPT ![n].same = FALSE]

-----------------------------------------------------------------------------
(***************************************************************************)
(* Requests at their terminal.                                             *)
(***************************************************************************)
\* _onSub, where it changes a claim: no role, or a child's promotion.  A held
\* node without a role passes the request on, and a live closer root is
\* deferred to.
OnSubscribe(n) ==
    /\ IsTerminal(n) /\ ~IsRoot(n) /\ Capable(n)
    /\ ~Held(n) /\ LiveCloserRoot(n, TRUE) = NoOne
    /\ TakeRoot(n, seat[n].body)
    /\ beacons' \in Flooded(beacons, Announced(n, KnownEpoch(n) + 1))
    /\ UNCHANGED <<alive, nbr, rec, rival, forward, visited, kept, mishaps, silent>>

\* _onPub at a node that stamps: it is root, or becomes it.
OnPub(n) ==
    /\ IsTerminal(n) /\ LiveCloserRoot(n, FALSE) = NoOne
    /\ \/ IsRoot(n) /\ seat' = [seat EXCEPT ![n].body = TRUE] /\ UNCHANGED <<hold, beacons>>
       \/ /\ ~IsRoot(n) /\ Capable(n) /\ ~Held(n)
          /\ TakeRoot(n, TRUE)
          /\ beacons' \in Flooded(beacons, Announced(n, KnownEpoch(n) + 1))
    /\ kept' = TRUE
    /\ UNCHANGED <<alive, nbr, rec, rival, forward, visited, mishaps, silent>>

Waiting == Cardinality({n \in Rank : forward[n].root # NoOne}) + Cardinality({n \in Rank : visited[n] # NoOne})

\* _onPub at a node that names another root: the hold intercept, and the
\* beacon's last-mile correction, which a root makes too.
ForwardPub(n) ==
    /\ IsTerminal(n) /\ forward[n].root = NoOne /\ Waiting < MaxWait
    /\ LET to == IF Held(n) /\ ~IsRoot(n) THEN HoldTarget(n) ELSE LiveCloserRoot(n, FALSE)
       IN  /\ to # NoOne
           /\ forward' = [forward EXCEPT ![n] = [root |-> to, same |-> rec[n].root = to]]
    /\ UNCHANGED <<alive, nbr, seat, rec, hold, rival, beacons, visited, kept, mishaps, silent>>

\* The verdict on it: consumed by the named node, which stamps it if it is
\* root; or it reached nobody, or came back, and the record it relied on goes.
ForwardConsumed(n) ==
    LET w == forward[n].root
        stamps == IsRoot(w) /\ LiveCloserRoot(w, FALSE) = NoOne
    IN  /\ n \in alive /\ w \in alive
        /\ forward' = [forward EXCEPT ![n] = NoForward]
        /\ MergeCandidate(IF stamps THEN [seat EXCEPT ![w].body = TRUE] ELSE seat, n, w, 0)
        /\ kept' = (kept \/ stamps)
        /\ UNCHANGED <<alive, nbr, rec, beacons, visited, mishaps, silent>>

ForwardFailed(n) ==
    /\ n \in alive /\ forward[n].root # NoOne
    /\ forward' = [forward EXCEPT ![n] = NoForward]
    /\ rec' = IF forward[n].same THEN [rec EXCEPT ![n] = NoRec] ELSE rec
    /\ UNCHANGED <<alive, nbr, seat, hold, rival, beacons, visited, kept, mishaps, silent>>

\* claimReachable: a subscriber without an upstream that no neighbour is closer than.
ClaimReachable(n) ==
    /\ IsTerminal(n) /\ ~IsRoot(n) /\ seat[n].pin = NoOne /\ ~Held(n)
    /\ TakeRoot(n, seat[n].body)
    /\ beacons' \in Flooded(beacons, IF seat[n].kind = "none" THEN Announced(n, KnownEpoch(n) + 1) ELSE {})
    /\ UNCHANGED <<alive, nbr, rec, rival, forward, visited, kept, mishaps, silent>>

-----------------------------------------------------------------------------
(***************************************************************************)
(* Beacons and verification.                                               *)
(***************************************************************************)
EmitRootBeacons(n) ==
    /\ n \in alive /\ IsRoot(n)
    /\ beacons' \in Flooded(beacons, Announced(n, seat[n].epoch)) /\ beacons' # beacons
    /\ UNCHANGED <<alive, nbr, seat, rec, hold, rival, forward, visited, kept, mishaps, silent>>

Relayed(b) ==
    IF b.layer = 1 THEN {}
    ELSE {[b EXCEPT !.to = m, !.layer = b.layer - 1] : m \in nbr[b.to] \ {b.root}}

Supersedes(n, e) == IsRoot(n) /\ e > seat[n].epoch

\* Mutant: of two claims at one epoch neither yields.
YieldsByEpoch(n, root, e) == Supersedes(n, e)

\* The higher incarnation, or the closer node.
Yields(n, root, e) == Supersedes(n, e) \/ root < n

\* _onRootBeacon: refresh the accepted winner, verify, record, yield, relay.
OnRootBeacon(b) ==
    LET n == b.to
        believed == Supersedes(n, b.epoch) \/ b.root <= BestKnown(n)
        yields == believed /\ Yields(n, b.root, b.epoch)
        high == IF rec[n].epoch > b.epoch THEN rec[n].epoch ELSE b.epoch
        fresh == [hold EXCEPT ![n].late = @ /\ ~(hold[n].won /\ hold[n].to = b.root)]
    IN  /\ n \in alive
        /\ beacons' \in Flooded(beacons \ {b}, Relayed(b))
        /\ IF believed THEN SetRecord(n, [root |-> b.root, epoch |-> high, fresh |-> TRUE, verified |-> FALSE])
           ELSE UNCHANGED <<rec, forward>>
        /\ IF yields /\ IsRoot(n) THEN MergeCandidate(seat, n, b.root, b.epoch)
           ELSE hold' = fresh /\ UNCHANGED <<seat, rival>>
        /\ UNCHANGED <<alive, nbr, visited, kept, mishaps, silent>>

BeaconLost(b) ==
    /\ beacons' = beacons \ {b}
    /\ UNCHANGED <<alive, nbr, seat, rec, hold, rival, forward, visited, kept, mishaps, silent>>

\* _verifyRoots: a lookup that visits a closer live node; its answer is used
\* when it arrives, if the claim still stands.
VerifyBegin(n) ==
    /\ n \in alive /\ IsRoot(n) /\ visited[n] = NoOne /\ Waiting < MaxWait
    /\ \E c \in alive : c < n /\ visited' = [visited EXCEPT ![n] = c]
    /\ UNCHANGED <<alive, nbr, seat, rec, hold, rival, beacons, forward, kept, mishaps, silent>>

VerifyEnd(n) ==
    /\ n \in alive /\ visited[n] # NoOne
    /\ visited' = [visited EXCEPT ![n] = NoOne]
    /\ IF IsRoot(n)
       THEN /\ SetRecord(n, [root |-> visited[n], epoch |-> 0, fresh |-> TRUE, verified |-> TRUE])
            /\ MergeCandidate(seat, n, visited[n], 0)
       ELSE UNCHANGED <<seat, rec, hold, rival, forward>>
    /\ UNCHANGED <<alive, nbr, beacons, kept, mishaps, silent>>

-----------------------------------------------------------------------------
(***************************************************************************)
(* The merge, seen from the claims.                                        *)
(***************************************************************************)
\* The winner pulled everything; the loser sheds its claim and holds for it.
MergeDone(n) ==
    LET w == rival[n].id
    IN  /\ n \in alive /\ IsRoot(n) /\ w \in alive /\ IsRoot(w)
        /\ ~ClaimWins(n, seat[n].epoch, w, seat[w].epoch)
        /\ seat' = [seat EXCEPT ![n] = Demoted(n, w), ![w].body = @ \/ seat[n].body]
        /\ hold' = [hold EXCEPT ![n] = HeldFor(n, w, TRUE)]
        /\ rival' = [rival EXCEPT ![n] = NoCand]
        /\ UNCHANGED <<alive, nbr, rec, beacons, forward, visited, kept, mishaps, silent>>

\* The winner is gone, is no root, or is outranked; the last becomes the loser.
MergeRefused(n) ==
    LET w == rival[n].id
        outranked == w \in alive /\ IsRoot(w) /\ ClaimWins(n, seat[n].epoch, w, seat[w].epoch)
    IN  /\ n \in alive /\ w # NoOne
        /\ w \notin alive \/ ~IsRoot(w) \/ outranked
        /\ LET c == [rival EXCEPT ![n] = NoCand]
           IN  IF outranked /\ HoldsBody(w)
               THEN /\ rival' = IF rival[w].id = NoOne \/ ClaimWins(n, seat[n].epoch, rival[w].id, rival[w].epoch)
                                THEN [c EXCEPT ![w] = [id |-> n, epoch |-> seat[n].epoch]] ELSE c
                    /\ UNCHANGED <<seat, hold>>
               ELSE /\ rival' = c
                    /\ seat' = IF outranked THEN [seat EXCEPT ![w] = Demoted(w, n)] ELSE seat
                    /\ hold' = IF outranked THEN [hold EXCEPT ![w] = HeldFor(w, n, FALSE)] ELSE hold
        /\ UNCHANGED <<alive, nbr, rec, beacons, forward, visited, kept, mishaps, silent>>

Mishap == mishaps < MaxMishap /\ mishaps' = mishaps + 1

\* The legacy fallback: the offer was delivered and its answer lost.
MergeSilent(n) ==
    /\ n \in alive /\ IsRoot(n) /\ rival[n].id \in alive /\ Mishap
    /\ silent' = TRUE
    /\ seat' = [seat EXCEPT ![n] = Demoted(n, rival[n].id)]
    /\ hold' = [hold EXCEPT ![n] = HeldFor(n, rival[n].id, FALSE)]
    /\ rival' = [rival EXCEPT ![n] = NoCand]
    /\ UNCHANGED <<alive, nbr, rec, beacons, forward, visited, kept>>

\* A child's SUB tells its high-water; the root pulls what it lacks.
PullUp(n) ==
    LET w == seat[n].pin
    IN  /\ n \in alive /\ seat[n].kind = "child" /\ seat[n].body
        /\ w \in alive /\ IsRoot(w) /\ ~seat[w].body
        /\ seat' = [seat EXCEPT ![w].body = TRUE]
        /\ UNCHANGED <<alive, nbr, rec, hold, rival, beacons, forward, visited, kept, mishaps, silent>>

-----------------------------------------------------------------------------
(***************************************************************************)
(* Clocks, channels, tear-down.                                            *)
(***************************************************************************)
HoldAges(n) ==
    /\ n \in alive /\ Held(n)
    /\ hold' = [hold EXCEPT ![n] = IF @.late THEN NoHold ELSE [@ EXCEPT !.late = TRUE]]
    /\ UNCHANGED <<alive, nbr, seat, rec, rival, beacons, forward, visited, kept, mishaps, silent>>

RecordAges(n) ==
    /\ n \in alive /\ rec[n].root # NoOne
    /\ SetRecord(n, IF rec[n].fresh THEN [rec[n] EXCEPT !.fresh = FALSE] ELSE NoRec)
    /\ UNCHANGED <<alive, nbr, seat, hold, rival, beacons, visited, kept, mishaps, silent>>

\* The TTL of the message passes, everywhere.
Expire ==
    /\ kept /\ kept' = FALSE
    /\ seat' = [n \in Rank |-> [seat[n] EXCEPT !.body = FALSE]]
    /\ UNCHANGED <<alive, nbr, rec, hold, rival, beacons, forward, visited, mishaps, silent>>

\* refreshTick tears down a child without seats and an empty root.
RetireRole(n) ==
    /\ n \in alive /\ seat[n].kind # "none" /\ (IsRoot(n) => ~seat[n].body)
    /\ Mishap /\ UNCHANGED silent
    /\ seat' = [seat EXCEPT ![n] = NoSeat]
    /\ hold' = [hold EXCEPT ![n].won = FALSE]
    /\ rival' = [rival EXCEPT ![n] = NoCand]
    /\ UNCHANGED <<alive, nbr, rec, beacons, forward, visited, kept>>

NodeDies(n) ==
    /\ n \in alive /\ alive # {n} /\ Mishap /\ UNCHANGED silent
    /\ alive' = alive \ {n}
    /\ kept' = (kept /\ \E m \in alive \ {n} : Custody(m))
    /\ UNCHANGED <<nbr, seat, rec, hold, rival, beacons, forward, visited>>

\* pubsubPeerDied: the channel to m is gone, m dead or not.
PeerDied(n, m) ==
    /\ n \in alive /\ m \in nbr[n]
    /\ \/ m \in alive /\ n \in nbr[m] /\ Mishap
       \/ (m \notin alive \/ n \notin nbr[m]) /\ UNCHANGED mishaps
    /\ UNCHANGED silent
    /\ nbr' = [nbr EXCEPT ![n] = @ \ {m}]
    /\ rec' = IF rec[n].root = m THEN [rec EXCEPT ![n] = NoRec] ELSE rec
    /\ seat' = IF seat[n].pin = m THEN [seat EXCEPT ![n].pin = NoOne] ELSE seat
    /\ forward' = IF rec[n].root = m THEN [forward EXCEPT ![n].same = FALSE] ELSE forward
    /\ UNCHANGED <<alive, hold, rival, beacons, visited, kept>>

\* _unpinIfWaypointDead: the renewal toward a dead upstream reached nobody.
UnpinDead(n) ==
    /\ n \in alive /\ seat[n].pin \in Rank \ alive
    /\ seat' = [seat EXCEPT ![n].pin = NoOne]
    /\ UNCHANGED <<alive, nbr, rec, hold, rival, beacons, forward, visited, kept, mishaps, silent>>

\* A new channel.
Link(n, m) ==
    /\ {n, m} \subseteq alive /\ n < m /\ n \notin nbr[m] /\ m \notin nbr[n]
    /\ nbr' = [nbr EXCEPT ![n] = @ \cup {m}, ![m] = @ \cup {n}]
    /\ UNCHANGED <<alive, seat, rec, hold, rival, beacons, forward, visited, kept, mishaps, silent>>

ReNext ==
    \/ \E n \in Rank :
          \/ OnSubscribe(n) \/ OnPub(n) \/ ForwardPub(n) \/ ForwardConsumed(n) \/ ForwardFailed(n)
          \/ ClaimReachable(n) \/ EmitRootBeacons(n) \/ VerifyBegin(n) \/ VerifyEnd(n)
          \/ MergeDone(n) \/ MergeRefused(n) \/ MergeSilent(n) \/ PullUp(n)
          \/ HoldAges(n) \/ RecordAges(n) \/ RetireRole(n) \/ NodeDies(n) \/ UnpinDead(n)
          \/ \E m \in Rank : PeerDied(n, m) \/ Link(n, m)
    \/ \E b \in beacons : OnRootBeacon(b) \/ BeaconLost(b)
    \/ Expire

ReSpec == ReInit /\ [][ReNext]_reVars

-----------------------------------------------------------------------------
ReTypeOK ==
    /\ alive \subseteq Rank /\ nbr \in [Rank -> SUBSET Rank]
    /\ seat \in [Rank -> [kind : {"none", "child", "root"}, epoch : 0..MaxEpoch, body : BOOLEAN, pin : 0..RootN]]
    /\ rec \in [Rank -> [root : 0..RootN, epoch : 0..MaxEpoch, fresh : BOOLEAN, verified : BOOLEAN]]
    /\ hold \in [Rank -> [to : 0..RootN, won : BOOLEAN, late : BOOLEAN]]
    /\ rival \in [Rank -> [id : 0..RootN, epoch : 0..MaxEpoch]]
    /\ beacons \subseteq [root : Rank, epoch : 1..MaxEpoch, to : Rank, layer : 1..BeaconLayers]
    /\ forward \in [Rank -> [root : 0..RootN, same : BOOLEAN]]
    /\ visited \in [Rank -> 0..RootN] /\ kept \in BOOLEAN
    /\ mishaps \in 0..MaxMishap /\ silent \in BOOLEAN

\* A step-down never strands custody: whatever beacons, verdicts, lookups and
\* merges cross, and whoever claims meanwhile, a stamped message stays with some
\* running root until it expires or its last root dies.  A root sheds its claim
\* over custody only through a merge, to a node that is a root then.  The legacy
\* fallback, which hands over without an answer, is outside of it.
BodyKept == kept /\ ~silent => \E n \in alive : Custody(n)

Roots == {n \in alive : IsRoot(n)}

\* Two claims on one topic do not live side by side for ever, nor do all nodes
\* wait on each other: once the faults are over the nodes settle on one root,
\* through beacons, self-verification, holds and merges whose evidence is stale.
OneRoot == <>[](Cardinality(Roots) = 1)

\* Timers fire and awaited answers come.  Of a beacon sent for ever some are
\* heard.  Nothing is assumed of publishes, of verification or of faults.
ReFairness ==
    /\ \A n \in Rank :
          /\ WF_reVars(OnSubscribe(n)) /\ WF_reVars(ClaimReachable(n)) /\ SF_reVars(EmitRootBeacons(n))
          /\ WF_reVars(HoldAges(n)) /\ WF_reVars(RecordAges(n)) /\ WF_reVars(UnpinDead(n))
          /\ WF_reVars(VerifyEnd(n)) /\ WF_reVars(ForwardFailed(n) \/ ForwardConsumed(n))
          /\ WF_reVars(MergeDone(n)) /\ WF_reVars(MergeRefused(n))
    /\ \A n \in Rank : \A m \in Rank \ {n} :
          /\ WF_reVars(PeerDied(n, m)) /\ WF_reVars(Link(n, m))
          /\ SF_reVars(\E b \in beacons : b.root = m /\ b.to = n /\ OnRootBeacon(b))

ReFairSpec == ReSpec /\ ReFairness

=============================================================================
