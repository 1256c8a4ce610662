------------------------------- MODULE Lookup -------------------------------
(***************************************************************************)
(* The acked lookup walk of AxonaPeer.  A node is its distance to the target *)
(* of the lookup, so the target is 0.  The walk is handed from node to node, *)
(* each of which acknowledges it, chooses the next hop among the peers that  *)
(* the walk has not visited and goes on; the node that ends it sends the     *)
(* result back along the path it carries, to an originator that waits no     *)
(* longer than its deadline.                                                 *)
(*                                                                           *)
(* Which of several candidates wins depends on latencies and on chance: any  *)
(* may.  The learning a successful walk sets off (reinforcement, hop caches  *)
(* at other nodes) and the recursive walk of old kernels are left out.       *)
(***************************************************************************)
EXTENDS Naturals, Sequences, FiniteSets, SequencesExt

CONSTANTS
    WalkN,      \* nodes of the network
    MaxHops,    \* MAX_HOPS
    Reselect,   \* LOOKUP_RESELECT
    MaxLost     \* bound: frames, acknowledgements and channels lost

ASSUME LookupAssumption ==
    WalkN \in Nat \ {0, 1} /\ MaxHops \in Nat /\ Reselect \in BOOLEAN /\ MaxLost \in Nat

Hop == 0..(WalkN - 1)
Target == 0
Source == WalkN - 1
NoHop == WalkN

VARIABLES
    link,       \* the pairs of nodes with an open channel
    routable,      \* [Hop -> the peers a node may route to]
    dead,       \* [Hop -> the peers it has a loss mark for]
    walks,      \* copies of the walk: where, the path, the step's candidates, the chosen hop
    results,    \* lookup_done frames under way: to whom, the path, the verdict
    answer,     \* what the caller of lookup has
    reached,    \* ghost: the target took the walk
    lost        \* faults so far

lkVars == <<link, routable, dead, walks, results, answer, reached, lost>>

Connected(a, b) == {a, b} \in link
Closest(hops) == CHOOSE h \in hops : \A k \in hops : h <= k
Visited(w) == ToSet(w.path)

LkInit ==
    /\ link \in SUBSET {{p[1], p[2]} : p \in {q \in Hop \X Hop : q[1] # q[2]}}
    /\ routable = [h \in Hop |-> {k \in Hop \ {h} : {h, k} \in link}]
    /\ dead = [h \in Hop |-> {}]
    /\ walks = {} /\ results = {} /\ answer = "none" /\ reached = FALSE /\ lost = 0

\* A walk that a node has taken and not yet stepped.
Taken(h, path) == [at |-> h, path |-> path, next |-> NoHop, cands |-> {}]

\* The originator registers the walk before its own first step.
LookupStart ==
    /\ answer = "none"
    /\ answer' = "waiting" /\ walks' = {Taken(Source, <<Source>>)}
    /\ UNCHANGED <<link, routable, dead, results, reached, lost>>

(***************************************************************************)
(* The result's way back.                                                    *)
(***************************************************************************)
\* Mutant: the result goes to the node that the path ends with.
WalkPrevLast(path, h) == path[Len(path)]

\* The node before h on the path, or NoHop.
WalkPrev(path, h) ==
    LET at == {i \in 2..Len(path) : path[i] = h} IN
    IF at = {} THEN NoHop ELSE path[(CHOOSE i \in at : \A j \in at : j <= i) - 1]

\* What node h does with a result: settle its own lookup, or pass it on to its
\* predecessor, to whom the frame may be lost.
WalkFinish(h, path, verdict, inFlight) ==
    IF h = Source
    THEN /\ answer' = IF answer = "waiting" THEN verdict ELSE answer
         /\ results' = inFlight
         /\ UNCHANGED lost
    ELSE LET prev == WalkPrev(path, h) IN
         /\ UNCHANGED answer
         /\ \/ /\ prev # NoHop /\ Connected(h, prev)
               /\ results' = inFlight \cup {[to |-> prev, path |-> path, verdict |-> verdict]}
               /\ UNCHANGED lost
            \/ /\ prev = NoHop \/ ~Connected(h, prev)
               /\ results' = inFlight /\ UNCHANGED lost

LookupDone(r) ==
    /\ r \in results
    /\ WalkFinish(r.to, r.path, r.verdict, results \ {r})
    /\ UNCHANGED <<link, routable, dead, walks, reached>>

(***************************************************************************)
(* The step at one node, up to its awaits: the candidates and the choice.    *)
(***************************************************************************)
Ends(w, verdict) == walks' = walks \ {w} /\ WalkFinish(w.at, w.path, verdict, results)

StepFound(w) ==
    /\ w.next = NoHop /\ w.at = Target
    /\ Ends(w, "found") /\ reached' = TRUE
    /\ UNCHANGED <<link, routable, dead, lost>>

StepMaxHops(w) ==
    /\ w.next = NoHop /\ w.at # Target /\ Len(w.path) - 1 >= MaxHops
    /\ Ends(w, "max-hops")
    /\ UNCHANGED <<link, routable, dead, reached>>

\* A dead peer's entry leaves the routable; a peer of a peer that is connected
\* already may take its place.
Replacements(h, kept) == {k \in Hop \ (kept \cup {h} \cup dead[h]) : Connected(h, k) /\ \E n \in kept : k \in routable[n]}

\* The peers that make progress and were not visited, else the best of the
\* others that were not.
Candidates(w, known) ==
    LET fresh  == known \ (Visited(w) \cup dead[w.at])
        closer == {k \in fresh : k < w.at}
    IN  IF closer # {} THEN closer ELSE IF fresh = {} THEN {} ELSE {Closest(fresh)}

\* The target itself, if it is known, else one of the candidates.
NextHops(w, known, cands) == IF Target \in known \ dead[w.at] THEN {Target} ELSE cands

StepChoose(w) ==
    /\ w.next = NoHop /\ w.at # Target /\ Len(w.path) - 1 < MaxHops
    /\ LET kept == {k \in routable[w.at] : ~(k \in dead[w.at] /\ k < w.at /\ k \notin Visited(w))}
           repl == Replacements(w.at, kept)
       IN  \E known \in IF kept = routable[w.at] \/ repl = {} THEN {kept} ELSE {kept \cup {k} : k \in repl} :
              /\ LET cands == Candidates(w, known) IN
                 IF cands = {}
                 THEN Ends(w, "stalled") /\ routable' = [routable EXCEPT ![w.at] = known]
                 ELSE \E next \in NextHops(w, known, cands), cached \in BOOLEAN :
                        /\ walks' = (walks \ {w}) \cup {[w EXCEPT !.next = next, !.cands = cands]}
                        /\ routable' = [routable EXCEPT ![w.at] = IF cached THEN known \cup {Target} ELSE known]
                        /\ UNCHANGED <<results, answer, lost>>
    /\ UNCHANGED <<link, dead, reached>>

(***************************************************************************)
(* The send, after the awaits.                                               *)
(***************************************************************************)
\* Without re-selection the step is charged before it is sent.
PathCharged(w) == IF Reselect THEN w.path ELSE Append(w.path, w.next)

\* The next eligible candidate after a dead edge: closest first.
PickNext(w) ==
    LET left == {k \in w.cands \ {w.next} : k \notin Visited(w) \cup dead[w.at] /\ Connected(w.at, k)}
    IN  IF left = {} THEN NoHop ELSE Closest(left)

\* The edge is gone (edge) or the hop is slow: only the first earns another try.
\* kept is what the walk leaves behind at the next hop, if the frame arrived.
SendFailed(w, edge, kept) ==
    IF Reselect /\ edge /\ PickNext(w) # NoHop
    THEN /\ walks' = (walks \ {w}) \cup kept \cup
                     {[w EXCEPT !.next = PickNext(w), !.cands = w.cands \ {w.next}]}
         /\ UNCHANGED <<results, answer>>
    ELSE /\ walks' = (walks \ {w}) \cup kept
         /\ IF w.at = Source
            THEN answer' = (IF answer = "waiting" THEN "send-failed" ELSE answer) /\ UNCHANGED results
            ELSE LET prev == WalkPrev(PathCharged(w), w.at) IN
                 /\ results' = IF prev = NoHop \/ ~Connected(w.at, prev) THEN results
                               ELSE results \cup {[to |-> prev, path |-> PathCharged(w), verdict |-> "send-failed"]}
                 /\ UNCHANGED answer

HandedOn(w) == Taken(w.next, Append(w.path, w.next))

\* The next hop takes the walk and says so.
WalkForwarded(w) ==
    /\ w.next # NoHop /\ Connected(w.at, w.next)
    /\ walks' = (walks \ {w}) \cup {HandedOn(w)}
    /\ UNCHANGED <<link, routable, dead, results, answer, reached, lost>>

\* The channel went while the step awaited; opening is for bound peers only.
DeadAfterAwait(w) ==
    /\ w.next # NoHop /\ ~Connected(w.at, w.next)
    /\ SendFailed(w, TRUE, {})
    /\ UNCHANGED <<link, routable, dead, reached, lost>>

\* The frame or its acknowledgement is lost: the walk may go on in two places.
SendLost(w, arrived, edge) ==
    /\ w.next # NoHop /\ Connected(w.at, w.next) /\ lost < MaxLost
    /\ lost' = lost + 1
    /\ SendFailed(w, edge, IF arrived THEN {HandedOn(w)} ELSE {})
    /\ UNCHANGED <<link, routable, dead, reached>>

(***************************************************************************)
(* Faults and timers.                                                        *)
(***************************************************************************)
\* A channel is lost: both ends evict and mark at once.
LinkLost(a, b) ==
    /\ Connected(a, b) /\ a < b /\ lost < MaxLost /\ lost' = lost + 1
    /\ link' = link \ {{a, b}}
    /\ routable' = [routable EXCEPT ![a] = @ \ {b}, ![b] = @ \ {a}]
    /\ dead' = [dead EXCEPT ![a] = @ \cup {b}, ![b] = @ \cup {a}]
    /\ UNCHANGED <<walks, results, answer, reached>>

ResultLost(r) ==
    /\ r \in results /\ lost < MaxLost /\ lost' = lost + 1
    /\ results' = results \ {r}
    /\ UNCHANGED <<link, routable, dead, walks, answer, reached>>

WalkDeadline ==
    /\ answer = "waiting" /\ answer' = "walk-deadline"
    /\ UNCHANGED <<link, routable, dead, walks, results, reached, lost>>

\* A node that stops settles the walks it originated.
SettleWalksPending ==
    /\ answer = "waiting" /\ answer' = "stopped"
    /\ UNCHANGED <<link, routable, dead, walks, results, reached, lost>>

LkNext ==
    \/ LookupStart \/ WalkDeadline \/ SettleWalksPending
    \/ \E w \in walks :
          \/ StepFound(w) \/ StepMaxHops(w) \/ StepChoose(w) \/ WalkForwarded(w) \/ DeadAfterAwait(w)
          \/ \E arrived \in BOOLEAN, edge \in BOOLEAN : SendLost(w, arrived, edge)
    \/ \E r \in results : LookupDone(r) \/ ResultLost(r)
    \/ \E a, b \in Hop : LinkLost(a, b)

LkSpec == LkInit /\ [][LkNext]_lkVars

(***************************************************************************)
(* Properties.                                                               *)
(***************************************************************************)
Verdict == {"found", "stalled", "max-hops", "send-failed"}

\* Every variable stays in its type.
LkTypeOK ==
    /\ \A p \in link : p \subseteq Hop /\ Cardinality(p) = 2
    /\ routable \in [Hop -> SUBSET Hop] /\ dead \in [Hop -> SUBSET Hop]
    /\ \A w \in walks : w.at \in Hop /\ w.path \in Seq(Hop) /\ w.next \in Hop \cup {NoHop} /\ w.cands \subseteq Hop
    /\ \A r \in results : r.to \in Hop /\ r.path \in Seq(Hop) /\ r.verdict \in Verdict
    /\ answer \in Verdict \cup {"none", "waiting", "walk-deadline", "stopped"}
    /\ reached \in BOOLEAN /\ lost \in 0..MaxLost

\* "The walk never revisits": no copy of the walk visits a node twice, however
\* it was re-selected, duplicated or handed on; a lookup that reports the
\* target found did reach it; and where nothing is lost a walk never vanishes:
\* as long as its caller waits, one copy of it or of its result is under way.
WalkHonest ==
    /\ \A w \in walks : IsInjective(w.path)
    /\ answer = "found" => reached
    /\ lost = 0 /\ answer = "waiting" => Cardinality(walks) + Cardinality(results) = 1
=============================================================================
