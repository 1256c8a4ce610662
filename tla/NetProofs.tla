------------------------------ MODULE NetProofs ------------------------------
(***************************************************************************)
(* The parts between a peer's API and its channels that no other module of   *)
(* proofs treats: the dials of the fill and the peers of the table, for      *)
(* every number of peers, seats and attempts; the client that retracts what  *)
(* it published, for every number of retries; the generations of a topic,    *)
(* however many there are; and the types of these, of the lookup, of the     *)
(* relay and of all the parts together.                                      *)
(***************************************************************************)
EXTENDS MCNet, CarriersProofs, KillsProofs, FiniteSetTheorems, SequenceTheorems, WellFoundedInduction, TLAPS

(***************************************************************************)
(* The fill.                                                                 *)
(***************************************************************************)
\* The dials of some attempts that take a seat that is left, and those that
\* are out to displace an entry.
Filling(as) == {a \in as : a.st = "issued" /\ ~a.swaps}
Swapping(as) == {a \in as : a.st = "issued" /\ a.swaps}

FillCounts ==
    /\ seats \subseteq Other /\ Cardinality(seats) <= Seats
    /\ IsFiniteSet(attempts) /\ surprises \in Nat
    /\ \A a \in attempts : a.id \in Other

\* The dials fit; and either surprises alone account for the filling ones, or
\* the displacing ones fit too.
Booked ==
    /\ Cardinality(seats) + Cardinality(Filling(attempts)) <= Seats + surprises
    /\ \/ Cardinality(Filling(attempts)) <= surprises
       \/ Cardinality(seats) + Cardinality(Filling(attempts)) + Cardinality(Swapping(attempts)) <= Seats + surprises

FillInv == FillCounts /\ Booked

LEMMA FillNumbers == Known \in Nat /\ Seats \in Nat
  BY FillAssumption

LEMMA SeatsFinite ==
  ASSUME NEW s \in SUBSET Other PROVE IsFiniteSet(s) /\ Cardinality(s) \in Nat
  <1>1. IsFiniteSet(Other)
    BY FillNumbers, FS_Interval DEF Other
  <1> QED
    BY <1>1, FS_Subset, FS_CardinalityType

\* The dials are some of the attempts, each of one kind.
LEMMA DialCounts ==
  ASSUME NEW as, IsFiniteSet(as)
  PROVE  /\ IsFiniteSet(Filling(as)) /\ IsFiniteSet(Swapping(as))
         /\ Cardinality(Filling(as)) \in Nat /\ Cardinality(Swapping(as)) \in Nat /\ Cardinality(as) \in Nat
         /\ Cardinality(Filling(as)) + Cardinality(Swapping(as)) <= Cardinality(as)
  <1> DEFINE F == Filling(as)
             W == Swapping(as)
  <1>1. F \subseteq as /\ W \subseteq as /\ F \cup W \subseteq as /\ F \cap W = {}
    BY DEF Filling, Swapping
  <1>2. IsFiniteSet(F) /\ IsFiniteSet(W)
    BY <1>1, FS_Subset
  <1>3. Cardinality(F) \in Nat /\ Cardinality(W) \in Nat /\ Cardinality(as) \in Nat
    BY <1>2, FS_CardinalityType
  <1>4. Cardinality(F \cup W) = Cardinality(F) + Cardinality(W) - Cardinality(F \cap W)
    BY <1>2, FS_Union
  <1>5. Cardinality(F \cup W) <= Cardinality(as)
    BY <1>1, FS_Subset
  <1>6. Cardinality(F \cap W) = 0
    BY <1>1, FS_EmptySet
  <1>7. ASSUME NEW f \in Nat, NEW w \in Nat, NEW n \in Nat, NEW u, NEW c, u = f + w - c, u <= n, c = 0
        PROVE  f + w <= n
    BY <1>7
  <1>8. Cardinality(F) + Cardinality(W) <= Cardinality(as)
    BY <1>3, <1>4, <1>5, <1>6, <1>7, Zenon
  <1> QED
    BY <1>2, <1>3, <1>8

\* Attempts that end take no dial with them that was not theirs.
LEMMA FewerDials ==
  ASSUME NEW as, IsFiniteSet(as), NEW bs, bs \subseteq as
  PROVE  /\ IsFiniteSet(bs)
         /\ Cardinality(Filling(bs)) <= Cardinality(Filling(as))
         /\ Cardinality(Swapping(bs)) <= Cardinality(Swapping(as))
  <1>1. Filling(bs) \subseteq Filling(as) /\ Swapping(bs) \subseteq Swapping(as)
    BY DEF Filling, Swapping
  <1> QED
    BY <1>1, DialCounts, FS_Subset

\* A dial that ends was counted once.
LEMMA OneDialLess ==
  ASSUME NEW as, IsFiniteSet(as), NEW a \in as, a.st = "issued"
  PROVE  \/ Cardinality(Filling(as \ {a})) = Cardinality(Filling(as)) - 1
         \/ Cardinality(Swapping(as \ {a})) = Cardinality(Swapping(as)) - 1
  <1>1. CASE a.swaps
    <2>1. Swapping(as \ {a}) = Swapping(as) \ {a} /\ a \in Swapping(as)
      BY <1>1 DEF Swapping
    <2> QED
      BY <2>1, DialCounts, FS_RemoveElement
  <1>2. CASE ~a.swaps
    <2>1. Filling(as \ {a}) = Filling(as) \ {a} /\ a \in Filling(as)
      BY <1>2 DEF Filling
    <2> QED
      BY <2>1, DialCounts, FS_RemoveElement
  <1> QED
    BY <1>1, <1>2

\* The farthest entry of the table is one of its entries.
LEMMA FarthestSeated ==
  ASSUME NEW s \in SUBSET Other, s # {}
  PROVE  (CHOOSE p \in s : \A q \in s : q <= p) \in s
  <1> DEFINE T == {Known - p : p \in s}
  <1>0. \A p \in s : Known - p \in Nat
    BY FillNumbers DEF Other
  <1>1. T \subseteq Nat /\ T # {}
    BY <1>0
  <1>2. PICK x \in T : \A y \in T : <<y, x>> \notin OpToRel(<, Nat)
    BY <1>1, NatLessThanWellFounded, WFMin
  <1>3. \A y \in T : ~(y < x)
    BY <1>1, <1>2, Zenon DEF OpToRel
  <1>4. PICK p \in s : x = Known - p
    OBVIOUS
  <1>5. \A q \in s : q <= p
    <2> SUFFICES ASSUME NEW q \in s PROVE q <= p
      OBVIOUS
    <2>1. ~(Known - q < Known - p)
      BY <1>3, <1>4
    <2> QED
      BY <2>1, FillNumbers DEF Other
  <1> HIDE DEF T
  <1> QED
    BY <1>5

\* A peer that is seated takes at most one seat, and none beyond the cap.
LEMMA SeatedCounts ==
  ASSUME seats \in SUBSET Other, Cardinality(seats) <= Seats, NEW id \in Other
  PROVE  /\ Seated(id) \in SUBSET Other /\ Cardinality(Seated(id)) <= Seats
         /\ Cardinality(Seated(id)) <= Cardinality(seats) + 1
         /\ Cardinality(seats) = Seats => Cardinality(Seated(id)) <= Cardinality(seats)
  <1>1. IsFiniteSet(seats) /\ Cardinality(seats) \in Nat
    BY SeatsFinite
  <1>2. CASE Cardinality(seats) < Seats
    <2>1. Seated(id) = seats \cup {id}
      BY <1>2 DEF Seated
    <2>2. Cardinality(seats \cup {id}) = IF id \in seats THEN Cardinality(seats) ELSE Cardinality(seats) + 1
      BY <1>1, FS_AddElement
    <2>3. Cardinality(seats \cup {id}) \in Nat
      BY SeatsFinite
    <2> QED
      BY <1>1, <1>2, <2>1, <2>2, <2>3, FillNumbers
  <1>3. CASE ~(Cardinality(seats) < Seats) /\ ImproveAdmits(id)
    <2> DEFINE m == CHOOSE p \in seats : \A q \in seats : q <= p
    <2>1. m \in seats
      BY <1>3, FarthestSeated DEF ImproveAdmits
    <2>2. Seated(id) = (seats \ {m}) \cup {id}
      BY <1>3 DEF Seated
    <2> HIDE DEF m
    <2>3. IsFiniteSet(seats \ {m}) /\ Cardinality(seats \ {m}) = Cardinality(seats) - 1
      BY <1>1, <2>1, FS_RemoveElement
    <2>4. Cardinality((seats \ {m}) \cup {id}) =
          IF id \in seats \ {m} THEN Cardinality(seats \ {m}) ELSE Cardinality(seats \ {m}) + 1
      BY <2>3, FS_AddElement
    <2>5. Cardinality(Seated(id)) <= Cardinality(seats) /\ Seated(id) \in SUBSET Other
      BY <1>1, <2>2, <2>3, <2>4
    <2>6. Cardinality(Seated(id)) \in Nat
      BY <2>5, SeatsFinite
    <2> QED
      BY <1>1, <2>5, <2>6, FillNumbers
  <1>4. CASE ~(Cardinality(seats) < Seats) /\ ~ImproveAdmits(id)
    <2>1. Seated(id) = seats
      BY <1>4 DEF Seated
    <2> QED
      BY <1>1, <2>1
  <1> QED
    BY <1>2, <1>3, <1>4

LEMMA FillCounted ==
  ASSUME FillInv
  PROVE  /\ seats \in SUBSET Other /\ IsFiniteSet(seats) /\ Cardinality(seats) \in Nat /\ Seats \in Nat
         /\ Cardinality(Filling(attempts)) \in Nat /\ Cardinality(Swapping(attempts)) \in Nat
         /\ Cardinality(attempts) \in Nat
  BY FillNumbers, SeatsFinite, DialCounts DEF FillInv, FillCounts

LEMMA FillInit == FlInit => FillInv
  <1> SUFFICES ASSUME FlInit PROVE FillInv
    OBVIOUS
  <1>1. seats = {} /\ attempts = {} /\ surprises = 0
    BY DEF FlInit
  <1>2. Filling({}) = {} /\ Swapping({}) = {}
    BY DEF Filling, Swapping
  <1>3. Cardinality({}) = 0 /\ IsFiniteSet({})
    BY FS_EmptySet
  <1> QED
    BY <1>1, <1>2, <1>3, FillNumbers DEF FillInv, FillCounts, Booked

\* Attempts end and entries are lost.
LEMMA LessKeeps ==
  ASSUME FillInv, attempts' \subseteq attempts, seats' \subseteq seats, surprises' = surprises
  PROVE  FillInv'
  <1>1. /\ IsFiniteSet(attempts')
        /\ Cardinality(Filling(attempts')) <= Cardinality(Filling(attempts))
        /\ Cardinality(Swapping(attempts')) <= Cardinality(Swapping(attempts))
    BY FewerDials DEF FillInv, FillCounts
  <1>2. Cardinality(Filling(attempts')) \in Nat /\ Cardinality(Swapping(attempts')) \in Nat
    BY <1>1, DialCounts
  <1>3. seats' \in SUBSET Other /\ Cardinality(seats') \in Nat /\ Cardinality(seats') <= Cardinality(seats)
    BY FillCounted, SeatsFinite, FS_Subset
  <1> QED
    BY <1>1, <1>2, <1>3, FillCounted DEF FillInv, FillCounts, Booked

\* An attempt that opens is not a dial yet.
LEMMA OpeningKeeps ==
  ASSUME FillInv, NEW id \in Other, NEW by, attempts' = attempts \cup {Asked(id, by)}, seats' = seats, surprises' = surprises
  PROVE  FillInv'
  <1>1. Asked(id, by).st # "issued" /\ Asked(id, by).id \in Other
    BY DEF Asked
  <1>2. Filling(attempts') = Filling(attempts) /\ Swapping(attempts') = Swapping(attempts)
    BY <1>1 DEF Filling, Swapping
  <1>3. IsFiniteSet(attempts')
    BY FS_AddElement DEF FillInv, FillCounts
  <1> QED
    BY <1>1, <1>2, <1>3 DEF FillInv, FillCounts, Booked

\* The availability, net of the attempts in flight.
LEMMA AvailabilityMeans ==
  ASSUME FillInv
  PROVE  Availability(1) > 0 => Cardinality(seats) + Cardinality(attempts) <= Seats
  BY FillCounted DEF Availability

\* A dial that goes out was covered when its open returned.
LEMMA OutKeeps ==
  ASSUME FillInv, NEW a \in attempts, Covered(a.id), attempts' = (attempts \ {a}) \cup {Out(a)},
         seats' = seats, surprises' = surprises
  PROVE  FillInv'
  <1>0. IsFiniteSet(attempts)
    BY DEF FillInv, FillCounts
  <1>1. IsFiniteSet(attempts \ {a}) /\ Cardinality(attempts \ {a}) = Cardinality(attempts) - 1
    BY <1>0, FS_RemoveElement
  <1>2. IsFiniteSet(attempts') /\ Cardinality(attempts') <= Cardinality(attempts)
    <2>1. /\ IsFiniteSet(attempts')
          /\ Cardinality(attempts') = IF Out(a) \in attempts \ {a} THEN Cardinality(attempts \ {a})
                                      ELSE Cardinality(attempts \ {a}) + 1
      BY <1>1, FS_AddElement
    <2> QED
      BY <2>1, <1>1, FillCounted
  <1>3. /\ Cardinality(Filling(attempts')) \in Nat /\ Cardinality(Swapping(attempts')) \in Nat
        /\ Cardinality(attempts') \in Nat
        /\ Cardinality(Filling(attempts')) + Cardinality(Swapping(attempts')) <= Cardinality(attempts')
    BY <1>2, DialCounts
  <1>4. FillCounts'
    <2>1. Out(a).id \in Other
      BY DEF Out, FillInv, FillCounts
    <2> QED
      BY <1>2, <2>1 DEF FillInv, FillCounts
  <1>5. CASE Availability(1) > 0
    BY <1>2, <1>3, <1>4, <1>5, AvailabilityMeans, FillCounted DEF FillInv, FillCounts, Booked
  <1>6. CASE ~(Availability(1) > 0)
    <2>1. ImproveAdmits(a.id) /\ Cardinality(seats) = Seats
      BY <1>6, FillCounted DEF Covered, ImproveAdmits, FillInv, FillCounts
    <2>2. Availability(1) = 0
      BY <1>6, FillCounted DEF Availability
    <2>3. Out(a).swaps
      BY <2>1, <2>2 DEF Out
    <2>4. Filling(attempts') \subseteq Filling(attempts)
      BY <2>3 DEF Filling
    <2>5. Cardinality(Filling(attempts')) <= Cardinality(Filling(attempts))
      BY <1>0, <2>4, DialCounts, FS_Subset
    <2> QED
      BY <1>3, <1>4, <2>1, <2>5, FillCounted DEF FillInv, FillCounts, Booked
  <1> QED
    BY <1>5, <1>6

\* A dial that binds gives up its token for the seat it takes.
LEMMA TableBoundKeeps ==
  ASSUME FillInv, NEW a \in attempts, a.st = "issued", attempts' = attempts \ {a},
         seats' = Seated(a.id), surprises' = surprises
  PROVE  FillInv'
  <1>0. IsFiniteSet(attempts)
    BY DEF FillInv, FillCounts
  <1>1. /\ IsFiniteSet(attempts')
        /\ Cardinality(Filling(attempts')) <= Cardinality(Filling(attempts))
        /\ Cardinality(Swapping(attempts')) <= Cardinality(Swapping(attempts))
    BY <1>0, FewerDials
  <1>2. \/ Cardinality(Filling(attempts')) = Cardinality(Filling(attempts)) - 1
        \/ Cardinality(Swapping(attempts')) = Cardinality(Swapping(attempts)) - 1
    BY <1>0, OneDialLess
  <1>3. Cardinality(Filling(attempts')) \in Nat /\ Cardinality(Swapping(attempts')) \in Nat
    BY <1>1, DialCounts
  <1>4. /\ seats' \in SUBSET Other /\ Cardinality(seats') <= Seats
        /\ Cardinality(seats') <= Cardinality(seats) + 1
    <2>1. a.id \in Other
      BY DEF FillInv, FillCounts
    <2> QED
      BY <2>1, SeatedCounts DEF FillInv, FillCounts
  <1>5. Cardinality(seats') \in Nat
    BY <1>4, SeatsFinite
  <1> QED
    BY <1>1, <1>2, <1>3, <1>4, <1>5, FillCounted DEF FillInv, FillCounts, Booked

\* A peer that binds by a dial of its own is a surprise to the dials out.
LEMMA InboundKeeps ==
  ASSUME FillInv, NEW id \in Other, attempts' = attempts, seats' = Seated(id),
         surprises' = surprises + (IF Cardinality(seats') > Cardinality(seats) /\ Dials # {} THEN 1 ELSE 0)
  PROVE  FillInv'
  <1>1. /\ seats' \in SUBSET Other /\ Cardinality(seats') <= Seats
        /\ Cardinality(seats') <= Cardinality(seats) + 1
    BY SeatedCounts DEF FillInv, FillCounts
  <1>2. Cardinality(seats') \in Nat
    BY <1>1, SeatsFinite
  <1>3. CASE Dials # {}
    BY <1>1, <1>2, <1>3, FillCounted DEF FillInv, FillCounts, Booked
  <1>4. CASE Dials = {}
    <2>1. Filling(attempts) = {} /\ Swapping(attempts) = {}
      BY <1>4 DEF Dials, Filling, Swapping
    <2>2. Cardinality(Filling(attempts)) = 0 /\ Cardinality(Swapping(attempts)) = 0
      BY <2>1, FS_EmptySet
    <2> QED
      BY <1>1, <1>2, <1>4, <2>2, FillCounted DEF FillInv, FillCounts, Booked
  <1> QED
    BY <1>3, <1>4

LEMMA FillStep == FillInv /\ [FlNext]_flVars => FillInv'
  <1> SUFFICES ASSUME FillInv, [FlNext]_flVars PROVE FillInv'
    OBVIOUS
  <1>1. ASSUME seats' = seats, attempts' = attempts, surprises' = surprises PROVE FillInv'
    BY <1>1, LessKeeps
  <1>2. CASE TickStart \/ NearSearched \/ BandDiscovered \/ PeerExchanged \/ DialPhaseEnds
    BY <1>1, <1>2 DEF TickStart, NearSearched, BandDiscovered, PeerExchanged, DialPhaseEnds
  <1>3. CASE NearImproveStep
    <2>1. CASE attempts' = attempts
      BY <1>1, <1>3, <2>1 DEF NearImproveStep
    <2>2. ASSUME NEW id \in Other, attempts' = attempts \cup {Asked(id, "improve")} PROVE FillInv'
      BY <1>3, <2>2, OpeningKeeps DEF NearImproveStep
    <2> QED
      BY <1>3, <2>1, <2>2 DEF NearImproveStep
  <1>4. ASSUME NEW id \in Other, DialNext(id) PROVE FillInv'
    <2>1. seats' = seats /\ surprises' = surprises /\ (attempts' = attempts \/ attempts' = attempts \cup {Asked(id, "fill")})
      BY <1>4 DEF DialNext
    <2> QED
      BY <1>1, <2>1, OpeningKeeps
  <1>5. ASSUME NEW id \in Other, Gossip(id) PROVE FillInv'
    BY <1>5, OpeningKeeps DEF Gossip
  <1>6. ASSUME NEW id \in Other, BackoffEnds(id) \/ MarkDue(id) PROVE FillInv'
    BY <1>1, <1>6 DEF BackoffEnds, MarkDue
  <1>7. ASSUME NEW id \in Other, InboundBound(id) PROVE FillInv'
    BY <1>7, InboundKeeps DEF InboundBound
  <1>8. ASSUME NEW id \in Other, SeatLost(id) PROVE FillInv'
    <2>1. seats' \subseteq seats /\ attempts' = attempts /\ surprises' = surprises
      BY <1>8 DEF SeatLost
    <2> QED
      BY <2>1, LessKeeps
  <1>9. ASSUME NEW a \in attempts, OpenReturned(a) PROVE FillInv'
    <2>1. seats' = seats /\ surprises' = surprises
      BY <1>9 DEF OpenReturned
    <2>2. \/ attempts' = attempts \ {a}
          \/ Covered(a.id) /\ attempts' = (attempts \ {a}) \cup {Out(a)}
      BY <1>9 DEF OpenReturned
    <2>3. CASE attempts' = attempts \ {a}
      BY <2>1, <2>3, LessKeeps
    <2> QED
      BY <2>1, <2>2, <2>3, OutKeeps
  <1>10. ASSUME NEW a \in attempts, DialBound(a) PROVE FillInv'
    BY <1>10, TableBoundKeeps DEF DialBound
  <1>11. ASSUME NEW a \in attempts, DialFailed(a) \/ NoPath(a) PROVE FillInv'
    <2>1. seats' = seats /\ surprises' = surprises /\ attempts' = attempts \ {a}
      BY <1>11 DEF DialFailed, NoPath
    <2> QED
      BY <2>1, LessKeeps
  <1>12. CASE UNCHANGED flVars
    BY <1>1, <1>12 DEF flVars
  <1> QED
    BY <1>2, <1>3, <1>4, <1>5, <1>6, <1>7, <1>8, <1>9, <1>10, <1>11, <1>12 DEF FlNext, TickStep

\* The dials that are out fit the seats that are left, but for those that
\* other peers took meanwhile and for dials that displace: the second read of
\* the availability, after the awaited open, sees to it.
THEOREM DialsCoveredAlways == FlSpec => []DialsCovered
  <1>1. FillInv => DialsCovered
    <2>1. {a \in Dials : ~a.swaps} = Filling(attempts)
      BY DEF Dials, Filling
    <2> QED
      BY <2>1 DEF FillInv, Booked, DialsCovered
  <1> QED
    BY <1>1, FillInit, FillStep, PTL DEF FlSpec

(***************************************************************************)
(* Admission.                                                                *)
(***************************************************************************)
\* The grace map holds every close that the connections spared for refusals
\* can defer: refusals come when the table is full or its lane is busy.
GraceSuffices == GraceMax = 0 \/ MaxConnections + KJoin <= GraceMax + Cap

\* A close under way is of a channel that is there; the identities a handler
\* has still to offer are bound and not in the table.
SeatInv ==
    /\ table \subseteq Peer /\ class \in [Peer -> {"none", "M", "I", "u"}] /\ grace \in Seq(Peer)
    /\ closing \subseteq {p \in Peer : class[p] # "none"}
    /\ offers \subseteq BoundPeers \ table
    /\ TableBound

LEMMA AdmissionNumbers ==
  /\ Peers \in Nat /\ Cap \in Nat /\ KJoin \in Nat /\ GraceMax \in Nat /\ MaxConnections \in Nat /\ KJoin < Cap
  BY AdmissionAssumption

LEMMA TableCounted ==
  ASSUME SeatInv PROVE Cardinality(table) \in Nat
  <1>1. IsFiniteSet(Peer)
    BY AdmissionNumbers, FS_Interval DEF Peer
  <1>2. IsFiniteSet(table)
    BY <1>1, FS_Subset DEF SeatInv
  <1> QED
    BY <1>2, FS_CardinalityType

LEMMA SeatInit == AdInit => SeatInv
  BY DEF AdInit, SeatInv, BoundPeers, TableBound

\* A peer is refused where the table is near its cap.
LEMMA RefusedNearCap ==
  ASSUME SeatInv, NEW p, NEW d \in GateDecision(p), d.how = "refuse"
  PROVE  Cardinality(table) + KJoin >= Cap
  <1>1. CASE Cardinality(table) < Cap /\ ~(KJoin > 0 /\ Cardinality(table) >= Cap - KJoin)
    <2>1. d = Verdict1("admit", Nil)
      BY <1>1 DEF GateDecision
    <2> QED
      BY <2>1 DEF Verdict1
  <1>2. CASE Cardinality(table) >= Cap - KJoin
    BY <1>2, AdmissionNumbers, TableCounted
  <1> QED
    BY <1>1, <1>2, AdmissionNumbers, TableCounted

\* The victim of a swap is an entry of the table.
LEMMA VictimSeated ==
  ASSUME NEW p, NEW d \in GateDecision(p), d.how = "swap"
  PROVE  d.victim \in table
  <1>1. CASE Cardinality(table) < Cap
    BY <1>1 DEF GateDecision, Verdict1
  <1>2. CASE ~(Cardinality(table) < Cap) /\ Victims(p) = {}
    BY <1>2 DEF GateDecision, Verdict1
  <1>3. CASE ~(Cardinality(table) < Cap) /\ Victims(p) # {}
    <2>1. d \in {Verdict1(IF MayRetire(v) THEN "swap" ELSE "refuse", v) : v \in Victims(p)}
      BY <1>3 DEF GateDecision
    <2>2. PICK v \in Victims(p) : d = Verdict1(IF MayRetire(v) THEN "swap" ELSE "refuse", v)
      BY <2>1
    <2>3. d.victim = v
      BY <2>2 DEF Verdict1
    <2> QED
      BY <2>3 DEF Victims, Evictable
  <1> QED
    BY <1>1, <1>2, <1>3

\* The offered peer is seated, perhaps in the place of another; its class and
\* the class of others change among the classes of channels.
LEMMA SeatedKeeps ==
  ASSUME SeatInv, NEW p \in offers, NEW out \in SUBSET table,
         table' = (table \ out) \cup {p}, closing' = closing \cup (out \cap BoundPeers),
         class' \in {class, [class EXCEPT ![p] = "M"]}, offers' = offers \ {p}, grace' = grace
  PROVE  SeatInv'
  <1>1. class' \in [Peer -> {"none", "M", "I", "u"}] /\ \A q \in Peer : class'[q] # "none" <=> class[q] # "none"
    BY DEF SeatInv, BoundPeers
  <1>2. BoundPeers' = BoundPeers \ out
    BY <1>1 DEF SeatInv, BoundPeers
  <1> QED
    BY <1>1, <1>2 DEF SeatInv, BoundPeers, TableBound

\* Channels of peers outside the table are closed.
LEMMA ClosedKeeps ==
  ASSUME SeatInv, NEW ps, ps \cap (table \cup offers') = {}, closing' = closing \cup (ps \cap BoundPeers),
         table' = table, class' = class, offers' \subseteq offers, grace' \in Seq(Peer)
  PROVE  SeatInv'
  <1>1. BoundPeers' = BoundPeers \ ps
    BY DEF BoundPeers
  <1> QED
    BY <1>1 DEF SeatInv, BoundPeers, TableBound

LEMMA NoCloseKeeps ==
  ASSUME SeatInv, closing' = closing, table' = table, class' = class, offers' \subseteq offers, grace' \in Seq(Peer)
  PROVE  SeatInv'
  BY DEF SeatInv, BoundPeers, TableBound

LEMMA RefusedKeeps ==
  ASSUME GraceSuffices, SeatInv, NEW p \in offers, Cardinality(table) + KJoin >= Cap, Refused(p), offers' = offers \ {p}
  PROVE  SeatInv'
  <1>1. table' = table /\ class' = class /\ p \in Peer /\ p \notin table
    BY DEF Refused, SeatInv, BoundPeers
  <1>2. CASE GraceMax > 0 /\ p \in ToSet(grace)
    <2>1. grace' = grace /\ closing' = closing
      BY <1>2 DEF Refused
    <2> QED
      BY <1>1, <2>1, NoCloseKeeps DEF SeatInv
  <1>3. CASE GraceMax > 0 /\ p \notin ToSet(grace) /\ Cardinality(table) + Len(grace) + 1 <= MaxConnections
    <2>1. Len(grace) \in Nat
      BY DEF SeatInv
    <2>2. Len(grace) < GraceMax
      BY <1>3, <2>1, TableCounted, AdmissionNumbers DEF GraceSuffices
    <2>3. Overflow = {}
      BY <2>2 DEF Overflow
    <2>4. Kept = grace
      BY <2>3 DEF Kept
    <2>5. grace' = Append(grace, p) /\ closing' = closing \cup ({} \cap BoundPeers)
      BY <1>3, <2>3, <2>4 DEF Refused, Close
    <2>6. grace' \in Seq(Peer)
      BY <1>1, <2>5 DEF SeatInv
    <2> QED
      BY <1>1, <2>5, <2>6, ClosedKeeps
  <1>4. CASE ~(GraceMax > 0 /\ p \in ToSet(grace))
             /\ ~(GraceMax > 0 /\ Cardinality(table) + Len(grace) + 1 <= MaxConnections)
    <2>1. grace' = grace /\ closing' = closing \cup ((IF MayRetire(p) THEN {p} ELSE {}) \cap BoundPeers)
      BY <1>4 DEF Refused, Close
    <2>2. (IF MayRetire(p) THEN {p} ELSE {}) \cap (table \cup offers') = {}
      BY <1>1
    <2> QED
      BY <1>1, <2>1, <2>2, ClosedKeeps DEF SeatInv
  <1> QED
    BY <1>2, <1>3, <1>4

LEMMA SeedKeeps ==
  ASSUME GraceSuffices, SeatInv, NEW p \in Peer, Seed(p)
  PROVE  SeatInv'
  <1>1. p \in offers /\ offers' = offers \ {p} /\ p \notin table
    BY DEF Seed, SeatInv
  <1>2. CASE ~gated
    <2>1. LegacyInsert(p)
      BY <1>1, <1>2 DEF Seed
    <2>2. closing' = closing /\ grace' = grace /\ class' \in {class, [class EXCEPT ![p] = "M"]}
      BY <2>1 DEF LegacyInsert
    <2>3. CASE table' = table
      <3>1. class' = class
        BY <1>1, <2>1, <2>3 DEF LegacyInsert
      <3> QED
        BY <1>1, <2>2, <2>3, <3>1, NoCloseKeeps DEF SeatInv
    <2>4. CASE table' = table \cup {p}
      <3>1. table' = (table \ {}) \cup {p} /\ closing' = closing \cup ({} \cap BoundPeers) /\ {} \in SUBSET table
        BY <2>2, <2>4
      <3> QED
        BY <1>1, <2>2, <3>1, SeatedKeeps
    <2> QED
      BY <2>1, <2>3, <2>4 DEF LegacyInsert
  <1>3. ASSUME NEW d \in GateDecision(p), GateCommit(p, d), grace' = grace, class' \in {class, [class EXCEPT ![p] = "M"]}
        PROVE  SeatInv'
    <2> DEFINE out == IF d.how = "swap" THEN {d.victim} ELSE {}
    <2>1. table' = (table \ out) \cup {p} /\ closing' = closing \cup (out \cap BoundPeers)
      BY <1>3 DEF GateCommit, Close
    <2>2. out \in SUBSET table
      BY <1>3, VictimSeated
    <2> HIDE DEF out
    <2> QED
      BY <1>1, <1>3, <2>1, <2>2, SeatedKeeps
  <1>4. CASE gated /\ armed /\ class[p] = "I"
    <2>1. Promote(p)
      BY <1>1, <1>4 DEF Seed
    <2>2. PICK d \in GateDecision(p) :
             IF d.how = "refuse" \/ (d.how # "swap" /\ ~RoomInM)
             THEN UNCHANGED <<table, closing, class>>
             ELSE GateCommit(p, d) /\ class' \in {class, [class EXCEPT ![p] = "M"]}
      BY <2>1 DEF Promote
    <2>3. grace' = grace
      BY <2>1 DEF Promote
    <2>4. CASE d.how = "refuse" \/ (d.how # "swap" /\ ~RoomInM)
      BY <1>1, <2>2, <2>3, <2>4, NoCloseKeeps DEF SeatInv
    <2> QED
      BY <1>3, <2>2, <2>3, <2>4
  <1>5. CASE gated /\ ~(armed /\ class[p] = "I")
    <2>1. AdmitOrImprove(p)
      BY <1>1, <1>5 DEF Seed
    <2>2. PICK d \in GateDecision(p) :
             IF d.how = "refuse" THEN Refused(p) ELSE GateCommit(p, d) /\ UNCHANGED <<class, waitsFor, grace>>
      BY <2>1 DEF AdmitOrImprove
    <2>3. CASE d.how = "refuse"
      BY <1>1, <2>2, <2>3, RefusedNearCap, RefusedKeeps
    <2>4. CASE d.how # "refuse"
      BY <1>3, <2>2, <2>4
    <2> QED
      BY <2>3, <2>4
  <1> QED
    BY <1>2, <1>4, <1>5

\* A channel that ends outside the table.
LEMMA EndedKeeps ==
  ASSUME SeatInv, NEW p \in Peer, Ended1(p), offers = {}, offers' = offers, grace' = grace,
         table' \subseteq table, p \notin table'
  PROVE  SeatInv'
  <1>1. class' \in [Peer -> {"none", "M", "I", "u"}]
    BY DEF Ended1, SeatInv
  <1>2. \A q \in Peer \ {p} : class[q] # "none" => class'[q] # "none"
    BY DEF Ended1, SeatInv
  <1>3. closing' = closing \ {p}
    BY DEF Ended1
  <1> QED
    BY <1>1, <1>2, <1>3 DEF SeatInv, BoundPeers, TableBound

LEMMA SeatStep ==
  ASSUME GraceSuffices, SeatInv, [AdNext]_adVars PROVE SeatInv'
  <1>1. ASSUME UNCHANGED <<table, class, closing, grace, offers>> PROVE SeatInv'
    BY <1>1, NoCloseKeeps DEF SeatInv
  <1>2. ASSUME NEW p \in Peer, NEW c \in {"M", "I", "u"}, PeerBound(p, c) PROVE SeatInv'
    <2>1. /\ table' = table /\ closing' = closing /\ grace' = grace /\ offers' = {p}
          /\ class[p] = "none" /\ class' = [class EXCEPT ![p] = c]
      BY <1>2 DEF PeerBound
    <2>2. BoundPeers' = BoundPeers \cup {p} /\ p \notin BoundPeers
      BY <2>1 DEF BoundPeers, SeatInv
    <2> QED
      BY <2>1, <2>2 DEF SeatInv, BoundPeers, TableBound
  <1>3. CASE ReconcileBound
    BY <1>3 DEF ReconcileBound, SeatInv, BoundPeers, TableBound
  <1>4. CASE GraceFire
    <2> DEFINE p == Head(grace)
    <2>1. grace # <<>> /\ grace \in Seq(Peer) /\ p \in Peer /\ Tail(grace) \in Seq(Peer) /\ offers = {} /\ offers' = {}
      BY <1>4 DEF GraceFire, SeatInv
    <2>2. grace' \in Seq(Peer)
      BY <1>4, <2>1 DEF GraceFire
    <2>3. table' = table /\ class' = class
      BY <1>4 DEF GraceFire
    <2>4. closing' = closing \cup ((IF p \notin table /\ MayRetire(p) THEN {p} ELSE {}) \cap BoundPeers)
      BY <1>4 DEF GraceFire, Close
    <2> HIDE DEF p
    <2>5. (IF p \notin table /\ MayRetire(p) THEN {p} ELSE {}) \cap (table \cup offers') = {}
      BY <2>1
    <2> QED
      BY <2>1, <2>2, <2>3, <2>4, <2>5, ClosedKeeps
  <1>5. ASSUME NEW p \in Peer, Seed(p) PROVE SeatInv'
    BY <1>5, SeedKeeps
  <1>6. ASSUME NEW p \in Peer, CloseConfirmed(p) PROVE SeatInv'
    <2>1. p \notin table
      BY <1>6 DEF CloseConfirmed, SeatInv, TableBound, BoundPeers
    <2> QED
      BY <1>6, <2>1, EndedKeeps DEF CloseConfirmed
  <1>7. ASSUME NEW p \in Peer, PeerDied(p) PROVE SeatInv'
    BY <1>7, EndedKeeps DEF PeerDied
  <1>8. ASSUME NEW p \in Peer, Silent(p) \/ DutyChange(p) \/ LaneTime(p) \/ AddByVitality(p) PROVE SeatInv'
    BY <1>1, <1>8 DEF Silent, DutyChange, LaneTime, AddByVitality
  <1>9. ASSUME NEW p \in Peer, Opened1(p) PROVE SeatInv'
    <2>1. offers = {} /\ offers' = {}
      BY <1>9 DEF Opened1
    <2>2. CASE p \notin BoundPeers
      BY <1>1, <1>9, <2>1, <2>2 DEF Opened1
    <2>3. CASE p \in BoundPeers
      <3>1. LegacyInsert(p)
        BY <1>9, <2>3 DEF Opened1
      <3>2. /\ closing' = closing /\ grace' = grace /\ table' \subseteq table \cup {p}
            /\ class' \in {class, [class EXCEPT ![p] = "M"]}
        BY <3>1 DEF LegacyInsert
      <3>3. class' \in [Peer -> {"none", "M", "I", "u"}] /\ \A q \in Peer : class[q] # "none" => class'[q] # "none"
        BY <3>2 DEF SeatInv
      <3> QED
        BY <2>1, <2>3, <3>2, <3>3 DEF SeatInv, BoundPeers, TableBound
    <2> QED
      BY <2>2, <2>3
  <1>10. CASE UNCHANGED adVars
    BY <1>1, <1>10 DEF adVars
  <1> QED
    BY <1>2, <1>3, <1>4, <1>5, <1>6, <1>7, <1>8, <1>9, <1>10 DEF AdNext

\* A peer of the table keeps the channel it was admitted with: the fire of a
\* grace timer closes no peer that was admitted meanwhile, a swap closes the
\* peer it evicts, and no other close reaches one.  And the fill's dials fit.
THEOREM SeatsBoundedAlways ==
  ASSUME GraceSuffices PROVE AdSpec /\ FlSpec => []SeatsBounded
  <1>1. SeatInv => TableBound
    BY DEF SeatInv
  <1>2. SeatInv /\ [AdNext]_adVars => SeatInv'
    BY SeatStep
  <1>3. AdSpec => []TableBound
    BY <1>1, <1>2, SeatInit, PTL DEF AdSpec
  <1>4. TableBound /\ DialsCovered => SeatsBounded
    BY DEF SeatsBounded
  <1> QED
    BY <1>3, <1>4, DialsCoveredAlways, PTL

(***************************************************************************)
(* The client's retries.                                                     *)
(***************************************************************************)
\* A kill is called only for a message that was published, and the entry of the
\* kill is the younger one: it has been tried no more often than the publish.
ClientInv ==
    /\ ClTypeOK
    /\ ~published => pendPub = NotPending /\ pendKill = NotPending /\ kills = 0
    /\ RetractionOutlivesBody
    /\ pendKill # NotPending /\ pendPub # NotPending => pendKill <= pendPub

LEMMA ClientBounds == MaxTry \in Nat /\ MaxKill \in Nat /\ MaxFresh \in Nat /\ MaxBurst \in Nat \ {0}
  BY ClientAssumption

LEMMA ClientInit == ClInit => ClientInv
  <1> SUFFICES ASSUME ClInit PROVE ClientInv
    OBVIOUS
  <1> USE ClientBounds DEF NotPending
  <1>1. /\ pendPub \in -1 .. MaxTry /\ pendKill \in -1 .. MaxTry
        /\ burst \in 0 .. MaxBurst /\ kills \in 0 .. MaxKill /\ fresh \in 0 .. MaxFresh
    BY DEF ClInit
  <1>2. ClTypeOK
    BY <1>1 DEF ClInit, ClTypeOK
  <1> QED
    BY <1>2 DEF ClInit, ClientInv, RetractionOutlivesBody

\* Steps that touch neither the pending entries nor what they depend on.
LEMMA PendingKept ==
  ASSUME ClientInv, ClTypeOK', UNCHANGED <<published, pendPub, pendKill, kills>>
  PROVE  ClientInv'
  BY DEF ClientInv, RetractionOutlivesBody

LEMMA ClientStep == ClientInv /\ [ClNext]_clVars => ClientInv'
  <1> SUFFICES ASSUME ClientInv, [ClNext]_clVars PROVE ClientInv'
    OBVIOUS
  <1> USE ClientBounds DEF NotPending
  <1> ClTypeOK
    BY DEF ClientInv
  <1>1. CASE Pub
    BY <1>1 DEF Pub, PubsubPublish, EarlyResendPlan, ClientInv, ClTypeOK, RetractionOutlivesBody,
                subVars, appVars, rootVars
  <1>2. CASE EarlyResend
    BY <1>2, PendingKept DEF EarlyResend, ClTypeOK, subVars, appVars, rootVars
  <1>3. CASE Kill
    BY <1>3 DEF Kill, PubsubKill, ClientInv, ClTypeOK, RetractionOutlivesBody, subVars, appVars, rootVars
  <1>4. ASSUME NEW aged \in {{}, {"pub"}, {"pub", "kill"}}, RetryTick(aged) PROVE ClientInv'
    <2>1. /\ pendPub' = IF pendPub = -1 \/ "pub" \in aged \/ pendPub >= MaxTry THEN -1 ELSE pendPub + 1
          /\ pendKill' = IF pendKill = -1 \/ "kill" \in aged \/ pendKill >= MaxTry THEN -1 ELSE pendKill + 1
          /\ UNCHANGED <<published, kills>>
      BY <1>4 DEF RetryTick, Retried
    <2>2. ClTypeOK'
      BY <1>4, <2>1 DEF RetryTick, Resent, ClTypeOK, subVars, appVars, rootVars
    <2>3. "kill" \in aged => "pub" \in aged
      OBVIOUS
    <2> QED
      BY <2>1, <2>2, <2>3 DEF ClientInv, ClTypeOK, RetractionOutlivesBody
  <1>5. ASSUME NEW frame \in {"pub", "kill"}, RootIngest(frame) PROVE ClientInv'
    BY <1>5, PendingKept DEF RootIngest, ClTypeOK, subVars, appVars, retryVars
  <1>6. ASSUME NEW frame \in sent, LoseFrame(frame) PROVE ClientInv'
    BY <1>6, PendingKept DEF LoseFrame, ClTypeOK, subVars, appVars, retryVars, rootVars
  <1>7. CASE RootFresh \/ RootDelivers
    <2>1. UNCHANGED <<published, handles, resolving, reading, keys, shown, pendPub, pendKill, burst, pull, kills, phase>>
      BY <1>7 DEF RootFresh, RootDelivers, subVars, appVars, retryVars
    <2>2. rootHas' \in {"nothing", "body", "tomb"} /\ sent' \subseteq {"pub", "kill", "deliver", "del"}
      BY <1>7 DEF RootFresh, RootDelivers, rootVars, ClTypeOK
    <2>3. fresh' \in 0 .. MaxFresh
      BY <1>7 DEF RootFresh, RootDelivers, rootVars, ClTypeOK
    <2> QED
      BY <2>1, <2>2, <2>3, PendingKept DEF ClTypeOK
  <1>8. CASE OnBody
    <2>1. ClTypeOK'
      <3>1. UNCHANGED <<published, handles, resolving, reading, burst, pull, rootHas, fresh, kills, phase>> /\ sent' \subseteq sent
        BY <1>8 DEF OnBody, subVars, rootVars
      <3>2. keys' \subseteq {"body", "kill"} /\ shown' \in {"nothing", "body", "retracted"}
        BY <1>8 DEF OnBody, DispatchDelivery, ClTypeOK, appVars
      <3>3. pendPub' \in -1 .. MaxTry /\ pendKill' \in -1 .. MaxTry
        BY <1>8 DEF OnBody, ConfirmPending, ClTypeOK, appVars
      <3> QED
        BY <3>1, <3>2, <3>3 DEF ClTypeOK
    <2>2. /\ published' = published /\ kills' = kills
          /\ \/ UNCHANGED <<pendPub, pendKill>>
             \/ pendPub' = -1 /\ pendKill' = -1
      BY <1>8 DEF OnBody, ConfirmPending, appVars
    <2> QED
      BY <2>1, <2>2 DEF ClientInv, RetractionOutlivesBody
  <1>9. CASE OnRetraction
    BY <1>9 DEF OnRetraction, ConfirmPending, DispatchDelivery, ClientInv, ClTypeOK, RetractionOutlivesBody,
                subVars, appVars, rootVars
  <1>10. ASSUME NEW h \in Handle, Subscribe(h) \/ Stop(h) PROVE ClientInv'
    BY <1>10, PendingKept DEF Subscribe, Stop, PubsubUnsubscribe, ResetConsumption, ClTypeOK,
                              appVars, retryVars, rootVars
  <1>11. ASSUME NEW h \in Handle, NEW since \in {"all", "now"}, Subscribed(h, since) PROVE ClientInv'
    BY <1>11, PendingKept DEF Subscribed, ApplySince, ResetConsumption, PubsubSubscribe, ClTypeOK,
                              retryVars, rootVars
  <1>12. CASE Terminated
    BY <1>12, PendingKept DEF Terminated, ClTypeOK, appVars, retryVars, rootVars
  <1>13. CASE Pull \/ PullExpires \/ PullReturned
    BY <1>13, PendingKept DEF Pull, RequestPull, PullExpires, PullReturned, ClTypeOK,
                              subVars, appVars, retryVars, rootVars
  <1>14. ASSUME NEW reply \in {"empty", "invalid", "body"}, OnPullResp(reply) PROVE ClientInv'
    BY <1>14, PendingKept DEF OnPullResp, ClTypeOK, subVars, appVars, retryVars, rootVars
  <1>15. CASE LeaveCalled
    BY <1>15, PendingKept DEF LeaveCalled, ClTypeOK, subVars, appVars, retryVars, rootVars
  <1>16. CASE LeaveEnds
    BY <1>16 DEF LeaveEnds, ClientInv, ClTypeOK, RetractionOutlivesBody, subVars, appVars, rootVars
  <1>17. CASE UNCHANGED clVars
    BY <1>17, PendingKept DEF clVars, ClTypeOK
  <1> QED
    BY <1>1, <1>2, <1>3, <1>4, <1>5, <1>6, <1>7, <1>8, <1>9, <1>10, <1>11, <1>12, <1>13, <1>14,
       <1>15, <1>16, <1>17 DEF ClNext

\* Whatever the limits of the retries, a peer that has given up a retraction has
\* given up the message too (refreshTick, kill, _confirmPending, leave).
THEOREM RetractionOutlivesBodyAlways == ClSpec => []RetractionOutlivesBody
  <1>1. ClientInv => RetractionOutlivesBody
    BY DEF ClientInv
  <1> QED
    BY ClientInit, ClientStep, <1>1, PTL DEF ClSpec

\* A retracted message is not given back, by a node that was told or by a retry.
THEOREM RetractionsHoldAlways == KiSpec /\ ClSpec => []RetractionsHold
  <1>1. KillsInv /\ ClientInv => RetractionsHold
    BY DEF KillsInv, ClientInv, RetractionsHold
  <1> QED
    BY KillsInit, KillsStep, ClientInit, ClientStep, <1>1, PTL DEF KiSpec, ClSpec

\* The tree's and the client's variables keep their types.
THEOREM RetractionTypes == KiSpec /\ ClSpec => [](KiTypeOK /\ ClTypeOK)
  <1>1. KillsInv /\ ClientInv => KiTypeOK /\ ClTypeOK
    BY DEF KillsInv, ClientInv
  <1> QED
    BY KillsInit, KillsStep, ClientInit, ClientStep, <1>1, PTL DEF KiSpec, ClSpec

-----------------------------------------------------------------------------
(***************************************************************************)
(* The generations of a topic.                                               *)
(***************************************************************************)
\* A notice under way is of a generation that the root has on record as ended, or
\* of the one it is ending; and what it holds is younger than the record.
LifetimeInv ==
    /\ state \in {"none", "live", "dismantling"} /\ epoch \in Nat /\ highWater \in Nat
    /\ state # "none" => highWater < epoch
    /\ \A f \in inAir : f.k = "notice" =>
          f.e \in Nat \ {0} /\ (f.e <= highWater \/ (state = "dismantling" /\ f.e = epoch))

LEMMA LifetimeInit == LtInit => LifetimeInv
  BY DEF LtInit, LifetimeInv

\* Steps that leave the root's epochs alone and send no notice.
LEMMA NoNotice ==
  ASSUME LifetimeInv, UNCHANGED <<state, epoch, highWater>>,
         \A f \in inAir' : f \in inAir \/ f.k # "notice"
  PROVE  LifetimeInv'
  BY DEF LifetimeInv

\* A generation is formed above every one on record.
LEMMA FormedAbove ==
  ASSUME LifetimeInv, NEW kind, Formed(kind), \A f \in inAir' : f \in inAir \/ f.k # "notice"
  PROVE  LifetimeInv'
  BY DEF LifetimeInv, Formed, Minted

LEMMA LifetimeStep == LifetimeInv /\ [LtNext]_ltVars => LifetimeInv'
  <1> SUFFICES ASSUME LifetimeInv, [LtNext]_ltVars PROVE LifetimeInv'
    OBVIOUS
  <1>1. ASSUME NEW f \in inAir, OnSubAtRoot(f) PROVE LifetimeInv'
    <2>1. \A g \in inAir' : g \in inAir \/ g.k # "notice"
      BY <1>1 DEF OnSubAtRoot
    <2> QED
      BY <1>1, <2>1, FormedAbove, NoNotice DEF OnSubAtRoot
  <1>2. ASSUME NEW f \in inAir, SeatRefused(f) \/ OnUnsubAtRoot(f) \/ LoseAir(f) PROVE LifetimeInv'
    BY <1>2, NoNotice DEF SeatRefused, OnUnsubAtRoot, LoseAir, holderVars
  <1>3. ASSUME NEW f \in inAir, OnDeliverAtMember(f) \/ OnReplicate(f) \/ OnTopicTerminated(f) PROVE LifetimeInv'
    BY <1>3, NoNotice DEF OnDeliverAtMember, OnReplicate, OnTopicTerminated, holderVars
  <1>4. CASE WriteAtRoot
    <2>1. \A g \in inAir' : g \in inAir \/ g.k # "notice"
      BY <1>4 DEF WriteAtRoot
    <2> QED
      BY <1>4, <2>1, FormedAbove, NoNotice DEF WriteAtRoot
  <1>5. CASE BodyGone \/ SeatLapses \/ DemandAges \/ ReplicateTo
    BY <1>5, NoNotice DEF BodyGone, SeatLapses, DemandAges, ReplicateTo
  <1>6. CASE TerminationSweep
    <2>1. CASE ~Targets \/ (state = "dismantling" /\ sends >= Rounds)
      BY <1>6, <2>1 DEF TerminationSweep, TerminateStep, LifetimeInv
    <2>2. CASE ~(~Targets \/ (state = "dismantling" /\ sends >= Rounds))
      BY <1>6, <2>2 DEF TerminationSweep, TerminateStep, LifetimeInv
    <2> QED
      BY <2>1, <2>2
  <1>7. CASE HighWaterLapses
    <2>1. \A f \in inAir : f.k = "notice" => ~(f.e <= highWater)
      BY <1>7 DEF HighWaterLapses, Names, LifetimeInv
    <2> QED
      BY <1>7, <2>1 DEF HighWaterLapses, LifetimeInv
  <1>8. ASSUME NEW since \in {"all", "now"}, AppSub(since) PROVE LifetimeInv'
    BY <1>8, NoNotice DEF AppSub, EmitSubscribe, holderVars
  <1>9. CASE RenewSub \/ AppStop
    BY <1>9, NoNotice DEF RenewSub, AppStop, EmitSubscribe, holderVars
  <1>10. CASE LeaseLapses \/ LeftLapses \/ CopyExpires \/ ReapRole
    BY <1>10, NoNotice DEF LeaseLapses, LeftLapses, CopyExpires, ReapRole, holderVars
  <1>11. CASE UNCHANGED ltVars
    BY <1>11, NoNotice DEF ltVars, holderVars
  <1> QED
    BY <1>1, <1>2, <1>3, <1>4, <1>5, <1>6, <1>7, <1>8, <1>9, <1>10, <1>11 DEF LtNext

\* However many generations a topic has had, a late notice of an ended one never
\* names the one that is live (_knownEpoch, _terminateStep, _leftPrune).
THEOREM GenerationsDistinctAlways == LtSpec => []GenerationsDistinct
  <1>1. LifetimeInv => GenerationsDistinct
    BY DEF LifetimeInv, GenerationsDistinct
  <1> QED
    BY LifetimeInit, LifetimeStep, <1>1, PTL DEF LtSpec

\* What the types need: an epoch is a generation that was formed, and the rounds
\* of notices are counted from the start of a dismantling.
RootTyped ==
    /\ state \in {"none", "live", "dismantling"} /\ seat \in {"none", "reader", "standby"}
    /\ gens \in 0 .. MaxGen /\ sends \in 0 .. Rounds
    /\ epoch \in 0 .. gens /\ highWater \in 0 .. gens
    /\ holds \in BOOLEAN /\ replica \in BOOLEAN /\ old \in BOOLEAN
    /\ state = "live" => sends = 0

MemberTyped ==
    /\ appointed \in 0 .. MaxGen /\ left \in 0 .. MaxGen /\ attached \in 0 .. MaxGen
    /\ told \subseteq 1 .. MaxGen /\ subAttempts \subseteq 1 .. MaxAsk /\ asks \in 0 .. MaxAsk
    /\ sub \in BOOLEAN /\ handle \in BOOLEAN /\ hasRole \in BOOLEAN /\ copies \in BOOLEAN /\ pinned \in BOOLEAN

Air == [k : {"sub", "unsub", "deliver", "grant", "notice"},
        kind : {"-", "reader", "standby", "body"}, n : 0 .. MaxAsk, e : 0 .. MaxGen]

\* A SUB names the seat it asks for.
AirTyped == inAir \subseteq Air /\ \A f \in inAir : f.k = "sub" => f.kind \in {"reader", "standby"}

LtTyped == RootTyped /\ MemberTyped /\ AirTyped

LEMMA LifetimeConstants ==
  /\ MaxGen \in Nat /\ MaxAsk \in Nat /\ Rounds \in Nat \ {0}
  /\ 0 \in 0 .. MaxGen /\ 0 \in 0 .. MaxAsk /\ 0 \in 0 .. Rounds /\ 0 \in 0 .. 0
  BY LifetimeAssumption

LEMMA LtTypedInit == LtInit => LtTyped
  <1> SUFFICES ASSUME LtInit PROVE LtTyped
    OBVIOUS
  <1>1. RootTyped
    <2>1. /\ state = "none" /\ seat = "none" /\ gens = 0 /\ sends = 0 /\ epoch = 0 /\ highWater = 0
          /\ holds = FALSE /\ replica = FALSE /\ old = FALSE
      BY DEF LtInit
    <2>2. gens \in 0 .. MaxGen /\ sends \in 0 .. Rounds /\ epoch \in 0 .. gens /\ highWater \in 0 .. gens
      BY <2>1, LifetimeConstants
    <2> QED
      BY <2>1, <2>2 DEF RootTyped
  <1>2. MemberTyped
    <2>1. appointed \in 0 .. MaxGen /\ left \in 0 .. MaxGen /\ attached \in 0 .. MaxGen /\ asks \in 0 .. MaxAsk
      BY LifetimeConstants DEF LtInit
    <2>2. told = {} /\ subAttempts = {} /\ sub = FALSE /\ handle = FALSE /\ hasRole = FALSE /\ copies = FALSE /\ pinned = FALSE
      BY DEF LtInit
    <2> QED
      BY <2>1, <2>2 DEF MemberTyped
  <1>3. AirTyped
    BY DEF LtInit, AirTyped
  <1> QED
    BY <1>1, <1>2, <1>3 DEF LtTyped

LEMMA RootKept == RootTyped /\ UNCHANGED holderVars => RootTyped'
  BY DEF RootTyped, holderVars

LEMMA MemberKept == MemberTyped /\ UNCHANGED memberVars => MemberTyped'
  BY DEF MemberTyped, memberVars

LEMMA AirKept == AirTyped /\ inAir' \subseteq inAir => AirTyped'
  BY DEF AirTyped

\* A frame that is sent names a generation that was formed.
LEMMA AirSent ==
  ASSUME AirTyped, NEW f \in Air, f.k = "sub" => f.kind \in {"reader", "standby"}, inAir' \subseteq inAir \cup {f}
  PROVE  AirTyped'
  BY DEF AirTyped

LEMMA FormedTyped ==
  ASSUME RootTyped, NEW kind \in {"none", "reader", "standby"}, Formed(kind), holds' \in BOOLEAN, old' \in BOOLEAN
  PROVE  RootTyped'
  <1>1. state' = "live" /\ epoch' = highWater + 1 /\ gens' = gens + 1 /\ seat' = kind
        /\ replica' = FALSE /\ sends' = 0 /\ highWater' = highWater /\ gens < MaxGen
    BY DEF Formed, Minted
  <1>2. gens' \in 0 .. MaxGen /\ epoch' \in 0 .. gens' /\ highWater' \in 0 .. gens' /\ sends' \in 0 .. Rounds
    BY <1>1, LifetimeConstants DEF RootTyped
  <1> QED
    BY <1>1, <1>2 DEF RootTyped

LEMMA TerminationTyped ==
  ASSUME RootTyped, AirTyped, TerminationSweep
  PROVE  RootTyped' /\ AirTyped'
  <1>0. holds' = holds /\ gens' = gens
    BY DEF TerminationSweep
  <1>1. CASE ~Targets \/ (state = "dismantling" /\ sends >= Rounds)
    <2>1. /\ state' = "none" /\ highWater' = epoch /\ epoch' = 0
          /\ seat' = "none" /\ replica' = FALSE /\ sends' = 0 /\ old' = FALSE
          /\ UNCHANGED inAir
      BY <1>1 DEF TerminationSweep, TerminateStep
    <2>2. gens' \in 0 .. MaxGen /\ epoch' \in 0 .. gens' /\ highWater' \in 0 .. gens' /\ sends' \in 0 .. Rounds
      BY <1>0, <2>1, LifetimeConstants DEF RootTyped
    <2>3. RootTyped'
      BY <1>0, <2>1, <2>2 DEF RootTyped
    <2> QED
      BY <2>1, <2>3, AirKept
  <1>2. CASE ~(~Targets \/ (state = "dismantling" /\ sends >= Rounds))
    <2>1. /\ state' = "dismantling" /\ sends' = sends + 1
          /\ inAir' = inAir \cup {[k |-> "notice", kind |-> "-", n |-> 0, e |-> epoch]}
          /\ UNCHANGED <<epoch, highWater, seat, replica, old>>
      BY <1>2 DEF TerminationSweep, TerminateStep
    <2>2. sends < Rounds
      BY <1>2, LifetimeConstants DEF TerminationSweep, RootTyped
    <2>3. RootTyped'
      BY <1>0, <2>1, <2>2, LifetimeConstants DEF RootTyped
    <2>4. [k |-> "notice", kind |-> "-", n |-> 0, e |-> epoch] \in Air
      BY LifetimeConstants DEF Air, RootTyped
    <2> QED
      BY <2>1, <2>3, <2>4, AirSent
  <1> QED
    BY <1>1, <1>2

\* The declaration of a SUB spends one of the asks.
LEMMA EmitTyped ==
  ASSUME MemberTyped, AirTyped, NEW reads \in BOOLEAN, EmitSubscribe(reads)
  PROVE  asks' \in 0 .. MaxAsk /\ subAttempts' \subseteq 1 .. MaxAsk /\ AirTyped'
  <1> DEFINE f == [k |-> "sub", kind |-> IF reads THEN "reader" ELSE "standby", n |-> asks + 1, e |-> 0]
  <1>1. asks + 1 \in 1 .. MaxAsk /\ asks + 1 \in 0 .. MaxAsk
    BY LifetimeConstants DEF EmitSubscribe, MemberTyped
  <1>2. 0 \in 0 .. MaxGen
    BY LifetimeConstants
  <1>3. f \in Air /\ f.kind \in {"reader", "standby"}
    BY <1>1, <1>2 DEF Air
  <1>4. inAir' \subseteq inAir \cup {f}
    BY DEF EmitSubscribe
  <1>5. AirTyped'
    <2> HIDE DEF f
    <2> QED
      BY <1>3, <1>4, AirSent
  <1> QED
    BY <1>1, <1>5 DEF EmitSubscribe, MemberTyped

LEMMA NoticeTyped ==
  ASSUME LtTyped, LifetimeInv, NEW f \in inAir, OnTopicTerminated(f)
  PROVE  LtTyped'
  <1>1. f \in Air /\ f.k = "notice" /\ f.e \in 1 .. MaxGen
    <2>1. f \in Air /\ f.k = "notice"
      BY DEF OnTopicTerminated, LtTyped, AirTyped
    <2>2. f.e \in 0 .. MaxGen /\ f.e \in Nat \ {0}
      BY <2>1 DEF Air, LifetimeInv
    <2> QED
      BY <2>1, <2>2, LifetimeConstants
  <1>2. RootTyped' /\ AirTyped'
    BY RootKept, AirKept DEF OnTopicTerminated, LtTyped
  <1>3. copies' = copies /\ left' = left /\ asks' = asks
    BY DEF OnTopicTerminated
  <1>4. CASE NoticeIgnored(f)
    BY <1>2, <1>3, <1>4 DEF OnTopicTerminated, LtTyped, MemberTyped
  <1>5. CASE ~NoticeIgnored(f)
    <2>1. /\ appointed' = IF EndsAppointment(f) THEN 0 ELSE appointed
          /\ IF EndsAttachment(f) THEN EndSubscription(f.e) ELSE UNCHANGED <<sub, handle, told>>
          /\ hasRole' = (hasRole /\ (appointed' # 0 \/ sub'))
          /\ IF EndsAttachment(f) \/ (hasRole /\ ~hasRole')
               THEN attached' = 0 /\ subAttempts' = {} /\ pinned' = FALSE
               ELSE UNCHANGED <<attached, subAttempts, pinned>>
      BY <1>5 DEF OnTopicTerminated
    <2>2. appointed' \in 0 .. MaxGen
      BY <2>1, LifetimeConstants DEF LtTyped, MemberTyped
    <2>3. sub' \in BOOLEAN /\ handle' \in BOOLEAN /\ told' \subseteq 1 .. MaxGen
      <3>1. CASE EndsAttachment(f)
        <4>1. EndSubscription(f.e)
          BY <2>1, <3>1
        <4>2. told' \subseteq told \cup {f.e} /\ sub' = FALSE
          BY <4>1 DEF EndSubscription
        <4>3. handle' \in BOOLEAN
          BY <4>1, Zenon DEF EndSubscription
        <4> QED
          BY <1>1, <4>2, <4>3 DEF LtTyped, MemberTyped
      <3>2. CASE ~EndsAttachment(f)
        BY <2>1, <3>2 DEF LtTyped, MemberTyped
      <3> QED
        BY <3>1, <3>2
    <2>4. hasRole' \in BOOLEAN
      BY <2>1, Zenon
    <2>5. attached' \in 0 .. MaxGen /\ subAttempts' \subseteq 1 .. MaxAsk /\ pinned' \in BOOLEAN
      <3>1. CASE attached' = 0 /\ subAttempts' = {} /\ pinned' = FALSE
        BY <3>1, LifetimeConstants
      <3>2. CASE UNCHANGED <<attached, subAttempts, pinned>>
        BY <3>2 DEF LtTyped, MemberTyped
      <3> QED
        BY <2>1, <3>1, <3>2
    <2> QED
      BY <1>2, <1>3, <2>2, <2>3, <2>4, <2>5 DEF LtTyped, MemberTyped
  <1> QED
    BY <1>4, <1>5

LEMMA LtTypedStep == LtTyped /\ LifetimeInv /\ [LtNext]_ltVars => LtTyped'
  <1> SUFFICES ASSUME LtTyped, LifetimeInv, [LtNext]_ltVars PROVE LtTyped'
    OBVIOUS
  <1>0. RootTyped /\ MemberTyped /\ AirTyped
    BY DEF LtTyped
  <1> USE LifetimeConstants
  <1>1. ASSUME NEW f \in inAir, OnSubAtRoot(f) PROVE LtTyped'
    <2>1. f \in Air /\ f.kind \in {"reader", "standby"}
      BY <1>0, <1>1 DEF AirTyped, OnSubAtRoot
    <2>2. RootTyped'
      <3>1. CASE Formed(f.kind) /\ holds' = FALSE /\ old' = FALSE
        BY <1>0, <2>1, <3>1, FormedTyped
      <3>2. CASE /\ state = "live"
                 /\ seat' = f.kind /\ old' = (old /\ f.kind # "reader")
                 /\ UNCHANGED <<state, epoch, highWater, holds, replica, sends, gens>>
        <4>1. old' \in BOOLEAN
          BY <3>2, Zenon
        <4> QED
          BY <1>0, <2>1, <3>2, <4>1 DEF RootTyped
      <3> QED
        BY <1>1, <3>1, <3>2 DEF OnSubAtRoot
    <2>3. epoch' \in 0 .. MaxGen
      BY <2>2 DEF RootTyped
    <2>4. [k |-> "deliver", kind |-> "-", n |-> f.n, e |-> epoch'] \in Air
      BY <2>1, <2>3 DEF Air
    <2>5. inAir' \subseteq inAir \cup {[k |-> "deliver", kind |-> "-", n |-> f.n, e |-> epoch']}
      BY <1>1 DEF OnSubAtRoot
    <2>6. AirTyped'
      BY <1>0, <2>4, <2>5, AirSent
    <2>7. MemberTyped'
      BY <1>0, <1>1, MemberKept DEF OnSubAtRoot
    <2> QED
      BY <2>2, <2>6, <2>7 DEF LtTyped
  <1>2. ASSUME NEW f \in inAir, SeatRefused(f) \/ LoseAir(f) PROVE LtTyped'
    BY <1>0, <1>2, RootKept, MemberKept, AirKept DEF SeatRefused, LoseAir, LtTyped
  <1>3. ASSUME NEW f \in inAir, OnUnsubAtRoot(f) PROVE LtTyped'
    <2>1. RootTyped'
      BY <1>0, <1>3 DEF OnUnsubAtRoot, RootTyped
    <2> QED
      BY <1>0, <1>3, <2>1, MemberKept, AirKept DEF OnUnsubAtRoot, LtTyped, memberVars
  <1>4. ASSUME NEW f \in inAir, OnDeliverAtMember(f) PROVE LtTyped'
    <2>1. f.e \in 0 .. MaxGen
      BY <1>0 DEF AirTyped, Air
    <2>2. MemberTyped'
      BY <1>0, <1>4, <2>1 DEF OnDeliverAtMember, MemberTyped
    <2> QED
      BY <1>0, <1>4, <2>2, RootKept, AirKept DEF OnDeliverAtMember, LtTyped
  <1>5. ASSUME NEW f \in inAir, OnReplicate(f) PROVE LtTyped'
    <2>1. f.e \in 0 .. MaxGen
      BY <1>0 DEF AirTyped, Air
    <2>2. copies' \in BOOLEAN
      <3>1. copies' = copies \/ copies' = (copies \/ f.kind = "body")
        BY <1>5 DEF OnReplicate
      <3> QED
        BY <1>0, <3>1, Zenon DEF MemberTyped
    <2>3. MemberTyped'
      BY <1>0, <1>5, <2>1, <2>2 DEF OnReplicate, MemberTyped
    <2> QED
      BY <1>0, <1>5, <2>3, RootKept, AirKept DEF OnReplicate, LtTyped
  <1>6. ASSUME NEW f \in inAir, OnTopicTerminated(f) PROVE LtTyped'
    BY <1>6, NoticeTyped
  <1>7. CASE WriteAtRoot
    <2>1. RootTyped'
      <3>1. CASE Formed("none")
        BY <1>0, <1>7, <3>1, FormedTyped DEF WriteAtRoot
      <3>2. CASE UNCHANGED <<state, epoch, highWater, seat, replica, sends, gens>>
        BY <1>0, <1>7, <3>2 DEF WriteAtRoot, RootTyped
      <3> QED
        BY <1>7, <3>1, <3>2 DEF WriteAtRoot
    <2>2. [k |-> "deliver", kind |-> "-", n |-> 0, e |-> epoch'] \in Air
      BY <2>1 DEF Air, RootTyped
    <2>3. inAir' \subseteq inAir \cup {[k |-> "deliver", kind |-> "-", n |-> 0, e |-> epoch']}
      BY <1>7 DEF WriteAtRoot
    <2>4. AirTyped'
      BY <1>0, <2>2, <2>3, AirSent
    <2> QED
      BY <1>0, <1>7, <2>1, <2>4, MemberKept DEF WriteAtRoot, LtTyped
  <1>8. CASE BodyGone \/ SeatLapses \/ DemandAges \/ HighWaterLapses
    <2>1. UNCHANGED memberVars /\ inAir' = inAir
      BY <1>8 DEF BodyGone, SeatLapses, DemandAges, HighWaterLapses
    <2>2. RootTyped'
      <3>1. gens' = gens /\ 0 \in 0 .. gens
        BY <1>0, <1>8 DEF BodyGone, SeatLapses, DemandAges, HighWaterLapses, RootTyped
      <3>2. CASE BodyGone
        BY <1>0, <3>2 DEF BodyGone, RootTyped
      <3>3. CASE SeatLapses
        BY <1>0, <3>3 DEF SeatLapses, RootTyped
      <3>4. CASE DemandAges
        BY <1>0, <3>4 DEF DemandAges, RootTyped
      <3>5. CASE HighWaterLapses
        BY <1>0, <3>1, <3>5 DEF HighWaterLapses, RootTyped
      <3> QED
        BY <1>8, <3>2, <3>3, <3>4, <3>5
    <2> QED
      BY <1>0, <2>1, <2>2, MemberKept, AirKept DEF LtTyped
  <1>9. CASE ReplicateTo
    <2>1. RootTyped'
      BY <1>0, <1>9 DEF ReplicateTo, RootTyped
    <2>2. [k |-> "grant", kind |-> IF holds THEN "body" ELSE "-", n |-> 0, e |-> epoch] \in Air
      BY <1>0 DEF Air, RootTyped
    <2>3. inAir' \subseteq inAir \cup {[k |-> "grant", kind |-> IF holds THEN "body" ELSE "-", n |-> 0, e |-> epoch]}
      BY <1>9 DEF ReplicateTo
    <2>4. AirTyped'
      BY <1>0, <2>2, <2>3, AirSent
    <2> QED
      BY <1>0, <1>9, <2>1, <2>4, MemberKept DEF ReplicateTo, LtTyped
  <1>10. CASE TerminationSweep
    BY <1>0, <1>10, TerminationTyped, MemberKept DEF TerminationSweep, LtTyped
  <1>11. ASSUME NEW since \in {"all", "now"}, AppSub(since) PROVE LtTyped'
    <2>1. EmitSubscribe(TRUE) /\ TRUE \in BOOLEAN
      BY <1>11 DEF AppSub
    <2>2. asks' \in 0 .. MaxAsk /\ subAttempts' \subseteq 1 .. MaxAsk /\ AirTyped'
      BY <1>0, <2>1, EmitTyped
    <2>3. handle' = TRUE /\ sub' = TRUE /\ told' \subseteq told /\ UNCHANGED <<hasRole, appointed, copies, left, attached>>
      BY <1>11 DEF AppSub
    <2>4. pinned' \in BOOLEAN
      BY <1>11, Zenon DEF AppSub
    <2>5. MemberTyped'
      BY <1>0, <2>2, <2>3, <2>4 DEF MemberTyped
    <2> QED
      BY <1>0, <1>11, <2>2, <2>5, RootKept DEF AppSub, LtTyped
  <1>12. CASE RenewSub
    <2>1. EmitSubscribe(sub) /\ sub \in BOOLEAN
      BY <1>0, <1>12 DEF RenewSub, MemberTyped
    <2>2. asks' \in 0 .. MaxAsk /\ subAttempts' \subseteq 1 .. MaxAsk /\ AirTyped'
      BY <1>0, <2>1, EmitTyped
    <2>3. MemberTyped'
      BY <1>0, <1>12, <2>2 DEF MemberTyped, RenewSub
    <2> QED
      BY <1>0, <1>12, <2>2, <2>3, RootKept DEF RenewSub, LtTyped
  <1>13. CASE AppStop
    <2>1. [k |-> "unsub", kind |-> "-", n |-> 0, e |-> 0] \in Air
      BY DEF Air
    <2>2. inAir' \subseteq inAir \cup {[k |-> "unsub", kind |-> "-", n |-> 0, e |-> 0]}
      BY <1>13 DEF AppStop
    <2>3. AirTyped'
      BY <1>0, <2>1, <2>2, AirSent
    <2>4. MemberTyped'
      <3>1. /\ handle' = FALSE /\ sub' = FALSE /\ told' = {} /\ pinned' = FALSE
            /\ UNCHANGED <<hasRole, appointed, copies, left, asks>>
        BY <1>13 DEF AppStop
      <3>2. attached' \in {0, attached} /\ subAttempts' \subseteq subAttempts
        BY <1>13 DEF AppStop
      <3> QED
        BY <1>0, <3>1, <3>2 DEF MemberTyped
    <2> QED
      BY <1>0, <1>13, <2>3, <2>4, RootKept DEF AppStop, LtTyped
  <1>14. CASE LeaseLapses \/ LeftLapses \/ CopyExpires \/ ReapRole
    <2>1. UNCHANGED holderVars /\ inAir' = inAir
      BY <1>14 DEF LeaseLapses, LeftLapses, CopyExpires, ReapRole
    <2>2. MemberTyped'
      <3>1. CASE LeaseLapses
        BY <1>0, <3>1 DEF LeaseLapses, MemberTyped
      <3>2. CASE LeftLapses
        BY <1>0, <3>2 DEF LeftLapses, MemberTyped
      <3>3. CASE CopyExpires
        BY <1>0, <3>3 DEF CopyExpires, MemberTyped
      <3>4. CASE ReapRole
        BY <1>0, <3>4 DEF ReapRole, MemberTyped
      <3> QED
        BY <1>14, <3>1, <3>2, <3>3, <3>4
    <2> QED
      BY <1>0, <2>1, <2>2, RootKept, AirKept DEF LtTyped
  <1>15. CASE UNCHANGED ltVars
    BY <1>0, <1>15, RootKept, MemberKept, AirKept DEF ltVars, LtTyped
  <1> QED
    BY <1>1, <1>2, <1>3, <1>4, <1>5, <1>6, <1>7, <1>8, <1>9, <1>10, <1>11, <1>12, <1>13, <1>14, <1>15
    DEF LtNext

\* Whatever is lost, late or repeated, an epoch is a generation that was formed,
\* and no more rounds of notices are sent than are due (_knownEpoch, _terminateStep).
THEOREM LifetimeTypesAlways == LtSpec => []LtTypeOK
  <1>1. LtTyped => LtTypeOK
    <2> SUFFICES ASSUME LtTyped PROVE LtTypeOK
      OBVIOUS
    <2>1. epoch \in 0 .. MaxGen /\ highWater \in 0 .. MaxGen
      BY LifetimeConstants DEF LtTyped, RootTyped
    <2> QED
      BY <2>1 DEF LtTyped, RootTyped, MemberTyped, AirTyped, Air, LtTypeOK
  <1> QED
    BY LtTypedInit, LtTypedStep, LifetimeInit, LifetimeStep, <1>1, PTL DEF LtSpec

(***************************************************************************)
(* The types of the lookup and of the relay.                                 *)
(***************************************************************************)
\* What WalkInv does not speak of.
LkRest ==
    /\ \A p \in link : p \subseteq Hop /\ Cardinality(p) = 2
    /\ dead \in [Hop -> SUBSET Hop]
    /\ answer \in Verdict \cup {"none", "waiting", "walk-deadline", "stopped"}
    /\ reached \in BOOLEAN /\ lost \in 0..MaxLost

LEMMA LkRestInit == LkInit => LkRest
  <1> SUFFICES ASSUME LkInit PROVE LkRest
    OBVIOUS
  <1>1. ASSUME NEW p \in link PROVE p \subseteq Hop /\ Cardinality(p) = 2
    <2>1. p \in {{q[1], q[2]} : q \in {q \in Hop \X Hop : q[1] # q[2]}}
      BY DEF LkInit
    <2>2. PICK q \in Hop \X Hop : q[1] # q[2] /\ p = {q[1], q[2]}
      BY <2>1
    <2>3. IsFiniteSet({q[1]}) /\ Cardinality({q[1]}) = 1 /\ q[2] \notin {q[1]} /\ p = {q[1]} \cup {q[2]}
      BY <2>2, FS_Singleton
    <2>4. Cardinality({q[1]} \cup {q[2]}) = Cardinality({q[1]}) + 1
      BY <2>3, FS_AddElement
    <2> QED
      BY <2>2, <2>3, <2>4
  <1>2. lost \in 0..MaxLost /\ dead \in [Hop -> SUBSET Hop]
    BY LookupAssumption DEF LkInit
  <1>3. answer = "none" /\ reached = FALSE
    BY DEF LkInit
  <1> QED
    BY <1>1, <1>2, <1>3 DEF LkRest

LEMMA LkRestKept ==
  ASSUME LkRest, link' \subseteq link, dead' = dead, reached' \in BOOLEAN, lost' \in 0..MaxLost,
         answer' \in Verdict \cup {answer, "waiting", "walk-deadline", "stopped"}
  PROVE  LkRest'
  BY DEF LkRest

\* A verdict settles the lookup, or it stays as it is.
LEMMA FinishTyped ==
  ASSUME NEW h, NEW path, NEW v \in Verdict, NEW rs, WalkFinish(h, path, v, rs)
  PROVE  answer' \in Verdict \cup {answer} /\ lost' = lost
  BY DEF WalkFinish

LEMMA FailedTyped ==
  ASSUME NEW w, NEW edge, NEW kept, SendFailed(w, edge, kept)
  PROVE  answer' \in Verdict \cup {answer}
  BY DEF SendFailed, Verdict

LEMMA LkRestStep == WalkInv /\ LkRest /\ [LkNext]_lkVars => LkRest'
  <1> SUFFICES ASSUME WalkInv, LkRest, [LkNext]_lkVars PROVE LkRest'
    OBVIOUS
  <1>0. reached \in BOOLEAN /\ lost \in 0..MaxLost /\ dead \in [Hop -> SUBSET Hop]
    BY DEF LkRest
  <1>1. CASE LookupStart
    BY <1>0, <1>1, LkRestKept DEF LookupStart
  <1>2. CASE WalkDeadline \/ SettleWalksPending
    BY <1>0, <1>2, LkRestKept DEF WalkDeadline, SettleWalksPending
  <1>3. ASSUME NEW w \in walks, StepFound(w) PROVE LkRest'
    <2>1. "found" \in Verdict /\ WalkFinish(w.at, w.path, "found", results)
      BY <1>3 DEF StepFound, Ends, Verdict
    <2>2. answer' \in Verdict \cup {answer}
      BY <2>1, FinishTyped
    <2> QED
      BY <1>0, <1>3, <2>2, LkRestKept DEF StepFound
  <1>4. ASSUME NEW w \in walks, StepMaxHops(w) PROVE LkRest'
    <2>1. "max-hops" \in Verdict /\ WalkFinish(w.at, w.path, "max-hops", results)
      BY <1>4 DEF StepMaxHops, Ends, Verdict
    <2>2. answer' \in Verdict \cup {answer} /\ lost' = lost
      BY <2>1, FinishTyped
    <2> QED
      BY <1>0, <1>4, <2>2, LkRestKept DEF StepMaxHops
  <1>5. ASSUME NEW w \in walks, StepChoose(w) PROVE LkRest'
    <2>1. UNCHANGED <<link, dead, reached>>
      BY <1>5 DEF StepChoose
    <2>2. UNCHANGED <<answer, lost>> \/ Ends(w, "stalled")
      BY <1>5 DEF StepChoose
    <2>3. answer' \in Verdict \cup {answer} /\ lost' = lost
      <3>1. "stalled" \in Verdict
        BY DEF Verdict
      <3> QED
        BY <2>2, <3>1, FinishTyped DEF Ends
    <2> QED
      BY <1>0, <2>1, <2>3, LkRestKept
  <1>6. ASSUME NEW w \in walks, WalkForwarded(w) PROVE LkRest'
    BY <1>0, <1>6, LkRestKept DEF WalkForwarded
  <1>7. ASSUME NEW w \in walks, DeadAfterAwait(w) PROVE LkRest'
    <2>1. answer' \in Verdict \cup {answer}
      BY <1>7, FailedTyped DEF DeadAfterAwait
    <2> QED
      BY <1>0, <1>7, <2>1, LkRestKept DEF DeadAfterAwait
  <1>8. ASSUME NEW w \in walks, NEW got \in BOOLEAN, NEW edge \in BOOLEAN, SendLost(w, got, edge) PROVE LkRest'
    <2>1. answer' \in Verdict \cup {answer}
      BY <1>8, FailedTyped DEF SendLost
    <2>2. UNCHANGED <<link, dead, reached>> /\ lost < MaxLost /\ lost' = lost + 1
      BY <1>8 DEF SendLost
    <2>3. lost' \in 0..MaxLost
      BY <1>0, <2>2, LookupAssumption
    <2> QED
      BY <1>0, <2>1, <2>2, <2>3, LkRestKept
  <1>9. ASSUME NEW r \in results, LookupDone(r) PROVE LkRest'
    <2>1. r.verdict \in Verdict /\ WalkFinish(r.to, r.path, r.verdict, results \ {r})
      BY <1>9 DEF LookupDone, WalkInv, WalkSound, GoodResult, Result
    <2>2. answer' \in Verdict \cup {answer} /\ lost' = lost
      BY <2>1, FinishTyped
    <2> QED
      BY <1>0, <1>9, <2>2, LkRestKept DEF LookupDone
  <1>10. ASSUME NEW r \in results, ResultLost(r) PROVE LkRest'
    <2>1. UNCHANGED <<link, dead, answer, reached>> /\ lost < MaxLost /\ lost' = lost + 1
      BY <1>10 DEF ResultLost
    <2>2. lost' \in 0..MaxLost
      BY <1>0, <2>1, LookupAssumption
    <2> QED
      BY <1>0, <2>1, <2>2, LkRestKept
  <1>11. ASSUME NEW a \in Hop, NEW b \in Hop, LinkLost(a, b) PROVE LkRest'
    <2>1. /\ link' \subseteq link /\ UNCHANGED <<answer, reached>> /\ lost < MaxLost /\ lost' = lost + 1
          /\ dead' = [dead EXCEPT ![a] = @ \cup {b}, ![b] = @ \cup {a}]
      BY <1>11 DEF LinkLost
    <2>2. lost' \in 0..MaxLost
      BY <1>0, <2>1, LookupAssumption
    <2>3. dead' \in [Hop -> SUBSET Hop]
      BY <1>0, <2>1
    <2> QED
      BY <2>1, <2>2, <2>3 DEF LkRest
  <1>12. CASE UNCHANGED lkVars
    BY <1>0, <1>12, LkRestKept DEF lkVars
  <1> QED
    BY <1>1, <1>2, <1>3, <1>4, <1>5, <1>6, <1>7, <1>8, <1>9, <1>10, <1>11, <1>12 DEF LkNext

\* A walk is at a hop, on a path of hops, and chooses among the hops it may route
\* to; whatever is lost, the caller has one of the verdicts the walk can end
\* with (AxonaPeer._lookupStep, its deadline and its stop).
THEOREM LookupTypesAlways == LkSpec => []LkTypeOK
  <1>1. WalkInv /\ LkRest => LkTypeOK
    <2> SUFFICES ASSUME WalkInv, LkRest PROVE LkTypeOK
      OBVIOUS
    <2>1. \A w \in walks : w \in Walk
      BY DEF WalkInv, WalkSound, GoodWalk
    <2>2. \A r \in results : r \in Result
      BY DEF WalkInv, WalkSound, GoodResult
    <2>3. routable \in [Hop -> SUBSET Hop]
      BY DEF WalkInv, WalkSound
    <2> QED
      BY <2>1, <2>2, <2>3 DEF LkRest, LkTypeOK, Walk, Result
  <1> QED
    BY <1>1, LkInitHolds, LkStepHolds, LkRestInit, LkRestStep, PTL DEF LkSpec

\* What RelayInv does not speak of: all calls of a chain but the last wait.
Waits(c) == \A k \in 1..(Len(c) - 1) : c[k].st = "wait"

Stage == {"idle", "return", "reach", "first", "second", "delivered", "failed"}

SrRest ==
    /\ serves \subseteq RNode /\ faults \in 0..RouteLost
    /\ \A c \in chains : Waits(c)
    /\ stage \in Stage /\ verdict \in Ending \cup {"none"}
    /\ noPath \in BOOLEAN /\ arrived \in BOOLEAN

LEMMA SrRestInit == SrInit => SrRest
  <1> SUFFICES ASSUME SrInit PROVE SrRest
    OBVIOUS
  <1>1. faults \in 0..RouteLost /\ serves \subseteq RNode
    BY SignalRelayAssumption DEF SrInit
  <1>2. chains = {} /\ stage = "idle" /\ verdict = "none" /\ noPath = FALSE /\ arrived = FALSE
    BY DEF SrInit
  <1> QED
    BY <1>1, <1>2 DEF SrRest, Stage

LEMMA ReplacedWaits ==
  ASSUME NEW c, GoodChain(c), Waits(c), NEW d PROVE Waits(Replaced(c, d))
  <1> DEFINE e == Replaced(c, d)
  <1>1. c \in Seq(CallType) /\ Len(c) \in Nat /\ Len(c) > 0
    BY DEF GoodChain
  <1>2. Len(e) = Len(c) /\ \A k \in 1..Len(c) : k # Len(c) => e[k] = c[k]
    BY <1>1 DEF Replaced
  <1> HIDE DEF e
  <1>3. \A k \in 1..(Len(c) - 1) : e[k] = c[k]
    BY <1>1, <1>2
  <1>4. Waits(e)
    BY <1>1, <1>2, <1>3 DEF Waits
  <1> QED
    BY <1>4 DEF e

\* A request that is sent leaves its call waiting, and the chain one longer.
LEMMA SentWaits ==
  ASSUME NEW c, GoodChain(c), Waits(c), NEW d \in CallType, d.st = "wait", NEW new \in CallType
  PROVE  Waits(Append(Replaced(c, d), new))
  <1>1. c \in Seq(CallType) /\ Len(c) \in Nat /\ Len(c) > 0
    BY DEF GoodChain
  <1>2. PICK e : e = Replaced(c, d)
    OBVIOUS
  <1>3. /\ e \in Seq(CallType) /\ Len(e) = Len(c) /\ e[Len(c)] = d
        /\ \A k \in 1..Len(c) : k # Len(c) => e[k] = c[k]
    BY <1>1, <1>2 DEF Replaced
  <1>4. \A k \in 1..Len(c) : e[k].st = "wait"
    <2> SUFFICES ASSUME NEW k \in 1..Len(c) PROVE e[k].st = "wait"
      OBVIOUS
    <2>1. CASE k = Len(c)
      BY <1>3, <2>1
    <2>2. CASE k # Len(c)
      <3>1. k \in 1..(Len(c) - 1)
        BY <1>1, <2>2
      <3> QED
        BY <1>3, <2>2, <3>1 DEF Waits
    <2> QED
      BY <2>1, <2>2
  <1>5. PICK f : f = Append(e, new)
    OBVIOUS
  <1>6. Len(f) = Len(c) + 1 /\ \A k \in 1..Len(c) : f[k] = e[k]
    BY <1>1, <1>3, <1>5
  <1>7. Waits(f)
    BY <1>1, <1>4, <1>6 DEF Waits
  <1> QED
    BY <1>2, <1>5, <1>7

\* What a failed request leaves of the chain above it and below it.
LEMMA ThrewWaits ==
  ASSUME NEW c, GoodChain(c), Waits(c), NEW k \in 1..(Len(c) - 1), NEW d
  PROVE  Waits(Append(SubSeq(c, 1, k - 1), d)) /\ Waits(SubSeq(c, k + 1, Len(c)))
  <1>1. c \in Seq(CallType) /\ Len(c) \in Nat /\ Len(c) > 0
    BY DEF GoodChain
  <1>2. PICK e : e = SubSeq(c, 1, k - 1)
    OBVIOUS
  <1>3. e \in Seq(CallType) /\ Len(e) = k - 1 /\ \A j \in 1..(k - 1) : e[j] = c[j]
    BY <1>1, <1>2
  <1>4. PICK f : f = Append(e, d)
    OBVIOUS
  <1>5. Len(f) = k /\ \A j \in 1..(k - 1) : f[j] = e[j]
    <2>1. e \in Seq(CallType \cup {d}) /\ d \in CallType \cup {d}
      BY <1>3
    <2> QED
      BY <1>3, <1>4, <2>1
  <1>6. Waits(f)
    BY <1>1, <1>3, <1>5 DEF Waits
  <1>7. PICK g : g = SubSeq(c, k + 1, Len(c))
    OBVIOUS
  <1>8. Len(g) = Len(c) - k /\ \A j \in 1..(Len(c) - k) : g[j] = c[k + j]
    BY <1>1, <1>7
  <1>9. Waits(g)
    <2> SUFFICES ASSUME NEW j \in 1..(Len(g) - 1) PROVE g[j].st = "wait"
      BY DEF Waits
    <2>1. j \in 1..(Len(c) - k) /\ k + j \in 1..(Len(c) - 1)
      BY <1>1, <1>8
    <2> QED
      BY <1>8, <2>1 DEF Waits
  <1> QED
    BY <1>2, <1>4, <1>6, <1>7, <1>9

LEMMA RoutedWaits == ASSUME NEW rp PROVE Waits(Routed(rp))
  <1>1. PICK h : h = Routed(rp)
    OBVIOUS
  <1>2. Len(h) = 1
    BY <1>1 DEF Routed
  <1>3. \A k \in 1..(Len(h) - 1) : h[k].st = "wait"
    BY <1>2
  <1> QED
    BY <1>1, <1>3 DEF Waits

\* Steps of one chain, and of the faults.
LEMMA SrRestKept ==
  ASSUME SrRest, UNCHANGED <<serves, stage, verdict, noPath>>, arrived' \in BOOLEAN, faults' \in 0..RouteLost,
         \A c \in chains' : Waits(c)
  PROVE  SrRest'
  BY DEF SrRest

LEMMA ChainRestKept ==
  ASSUME RelayInv, SrRest, NEW c \in chains, NEW d, Becomes(c, {Replaced(c, d)}),
         UNCHANGED <<serves, stage, verdict, noPath>>, arrived' \in BOOLEAN, faults' \in 0..RouteLost
  PROVE  SrRest'
  <1>1. GoodChain(c) /\ Waits(c)
    BY DEF RelayInv, SrRest
  <1>2. PICK e : e = Replaced(c, d)
    OBVIOUS
  <1>3. Waits(e)
    BY <1>1, <1>2, ReplacedWaits
  <1>4. \A x \in chains' : Waits(x)
    BY <1>2, <1>3 DEF Becomes, SrRest
  <1> QED
    BY <1>4, SrRestKept

LEMMA SelectRest ==
  ASSUME RelayInv, SrRest, NEW c \in chains, SelectHop(c) PROVE SrRest'
  <1>1. UNCHANGED <<serves, stage, verdict, noPath, arrived>> /\ arrived' \in BOOLEAN
    BY DEF SelectHop, SrRest
  <1>2. faults' \in 0..RouteLost
    <2>1. faults' = faults \/ (faults < RouteLost /\ faults' = faults + 1)
      BY DEF SelectHop
    <2> QED
      BY <2>1, SignalRelayAssumption DEF SrRest
  <1>3. \E next, via, rp : Choose(c, Last1(c), next, via, rp)
    BY DEF SelectHop
  <1>4. \E d : Becomes(c, {Replaced(c, d)})
    BY <1>3 DEF Choose
  <1> QED
    BY <1>1, <1>2, <1>4, ChainRestKept

LEMMA DeliverRest ==
  ASSUME RelayInv, SrRest, NEW c \in chains, DeliverRouted(c) PROVE SrRest'
  <1>1. UNCHANGED <<serves, stage, verdict, noPath, faults>> /\ arrived' = (arrived \/ Last1(c).at = Callee)
    BY DEF DeliverRouted
  <1>2. arrived' \in BOOLEAN
    BY <1>1, Zenon
  <1>3. faults' \in 0..RouteLost
    BY <1>1 DEF SrRest
  <1>4. \E d : Becomes(c, {Replaced(c, d)})
    BY DEF DeliverRouted, Ended
  <1> QED
    BY <1>1, <1>2, <1>3, <1>4, ChainRestKept

LEMMA SentRest ==
  ASSUME RelayInv, SrRest, NEW c \in chains, RouteMsgSent(c) PROVE SrRest'
  <1>1. GoodChain(c) /\ Waits(c) /\ Last1(c) \in CallType /\ GoodCall(Last1(c)) /\ Last1(c).next # NoNode
    BY LastGood DEF RelayInv, SrRest, RouteMsgSent, GoodCall
  <1>2. PICK call \in CallType : call = Last1(c)
    BY <1>1
  <1>3. PICK d \in CallType : d = [call EXCEPT !.st = "wait"]
    BY <1>2 DEF CallType
  <1>4. d.st = "wait"
    BY <1>3 DEF CallType
  <1>5. call.next \in RNode /\ Append(call.path, call.at) \in Seq(RNode)
    BY <1>1, <1>2 DEF CallType, MaybeNode
  <1>6. PICK new \in CallType : new = RouteCall(call.next, Append(call.path, call.at), call.nextVia, call.rpath)
    <2>1. PICK p \in Seq(RNode) : p = Append(call.path, call.at)
      BY <1>5
    <2>2. RouteCall(call.next, p, call.nextVia, call.rpath) \in CallType
      BY <1>2, <1>5, <2>1 DEF RouteCall, CallType, MaybeNode
    <2> QED
      BY <2>1, <2>2
  <1>7. PICK e : e = Append(Replaced(c, d), new)
    OBVIOUS
  <1>8. Waits(e)
    BY <1>1, <1>4, <1>7, SentWaits
  <1>9. chains' = (chains \ {c}) \cup {e}
    BY <1>2, <1>3, <1>6, <1>7 DEF RouteMsgSent, Becomes
  <1>10. \A x \in chains' : Waits(x)
    BY <1>8, <1>9 DEF SrRest
  <1>11. UNCHANGED <<serves, stage, verdict, noPath>> /\ arrived' \in BOOLEAN /\ faults' \in 0..RouteLost
    BY DEF RouteMsgSent, SrRest
  <1> QED
    BY <1>10, <1>11, SrRestKept

LEMMA ThrewRest ==
  ASSUME RelayInv, SrRest, NEW c \in chains, NEW k \in 1..(Len(c) - 1), NEW frameLost \in BOOLEAN,
         SendThrew(c, k, frameLost)
  PROVE  SrRest'
  <1>1. GoodChain(c) /\ Waits(c)
    BY DEF RelayInv, SrRest
  <1>2. PICK e : e = SubSeq(c, k + 1, Len(c))
    OBVIOUS
  <1>3. Abandoned(c, k, frameLost) \subseteq {e}
    BY <1>2 DEF Abandoned
  <1>4. PICK d : Becomes(c, {Append(SubSeq(c, 1, k - 1), d)} \cup Abandoned(c, k, frameLost))
    BY DEF SendThrew
  <1>5. PICK f : f = Append(SubSeq(c, 1, k - 1), d)
    OBVIOUS
  <1>6. Waits(f) /\ Waits(e)
    BY <1>1, <1>2, <1>5, ThrewWaits
  <1>7. chains' \subseteq chains \cup {e, f}
    BY <1>3, <1>4, <1>5 DEF Becomes
  <1>8. \A x \in chains' : Waits(x)
    BY <1>6, <1>7 DEF SrRest
  <1>9. UNCHANGED <<serves, stage, verdict, noPath>> /\ arrived' \in BOOLEAN
    BY DEF SendThrew, SrRest
  <1>10. faults' \in 0..RouteLost
    <2>1. faults' = faults \/ (faults < RouteLost /\ faults' = faults + 1)
      BY DEF SendThrew
    <2> QED
      BY <2>1, SignalRelayAssumption DEF SrRest
  <1> QED
    BY <1>8, <1>9, <1>10, SrRestKept

LEMMA VerdictRest ==
  ASSUME RelayInv, SrRest, NEW c \in chains, VerdictBack(c) PROVE SrRest'
  <1>1. UNCHANGED <<serves, arrived, faults>>
    BY DEF VerdictBack
  <1>2. CASE c[1].path # <<>>
    <2>1. UNCHANGED <<verdict, stage, noPath>> /\ chains' \subseteq chains
      BY <1>2 DEF VerdictBack, Becomes
    <2> QED
      BY <1>1, <2>1 DEF SrRest
  <1>3. CASE c[1].path = <<>>
    <2>1. PICK end : end = Last1(c).end
      OBVIOUS
    <2>2. GoodChain(c) /\ Last1(c) \in CallType
      BY LastGood DEF RelayInv
    <2>3. end \in Ending \cup {"none"}
      BY <2>1, <2>2 DEF CallType
    <2>4. RelayAnswered(end, chains \ {c})
      BY <1>3, <2>1 DEF VerdictBack
    <2>5. verdict' = end /\ stage' \in Stage
      BY <2>4 DEF RelayAnswered, Stage
    <2>6. noPath' \in BOOLEAN
      <3>1. noPath' = noPath \/ noPath' = Confirmed(end)
        BY <2>4 DEF RelayAnswered
      <3>2. Confirmed(end) \in BOOLEAN
        BY DEF Confirmed
      <3> QED
        BY <3>1, <3>2 DEF SrRest
    <2>7. chains' \subseteq chains \cup {Routed(<<>>)}
      BY <2>4 DEF RelayAnswered
    <2>8. \A x \in chains' : Waits(x)
      BY <2>7, RoutedWaits DEF SrRest
    <2> QED
      BY <1>1, <2>3, <2>5, <2>6, <2>8 DEF SrRest
  <1> QED
    BY <1>2, <1>3

LEMMA SrRestStep == RelayInv /\ SrRest /\ [SrNext]_srVars => SrRest'
  <1> SUFFICES ASSUME RelayInv, SrRest, [SrNext]_srVars PROVE SrRest'
    OBVIOUS
  <1>1. CASE RelayStart
    <2>1. UNCHANGED <<serves, verdict, noPath, arrived, faults>> /\ stage' \in Stage
      BY <1>1 DEF RelayStart, Stage
    <2>2. chains' \subseteq chains \cup {Routed(crumb)}
      BY <1>1 DEF RelayStart
    <2>3. \A x \in chains' : Waits(x)
      BY <2>2, RoutedWaits DEF SrRest
    <2> QED
      BY <2>1, <2>3 DEF SrRest
  <1>2. ASSUME NEW ok \in BOOLEAN, RelayReachable(ok) PROVE SrRest'
    <2>1. UNCHANGED <<serves, verdict, arrived, faults>> /\ stage' \in Stage
      BY <1>2 DEF RelayReachable, Stage
    <2>2. chains' \subseteq chains \cup {Routed(<<>>)}
      BY <1>2 DEF RelayReachable
    <2>3. \A x \in chains' : Waits(x)
      BY <2>2, RoutedWaits DEF SrRest
    <2>4. noPath' \in BOOLEAN
      BY <1>2 DEF RelayReachable
    <2> QED
      BY <2>1, <2>3, <2>4 DEF SrRest
  <1>3. ASSUME NEW c \in chains, ChainStep(c) PROVE SrRest'
    <2>1. CASE DeadAfterSelect(c)
      <3>1. \E d : Becomes(c, {Replaced(c, d)})
        BY <2>1 DEF DeadAfterSelect
      <3>2. UNCHANGED <<serves, stage, verdict, noPath>> /\ arrived' \in BOOLEAN /\ faults' \in 0..RouteLost
        BY <2>1 DEF DeadAfterSelect, SrRest
      <3> QED
        BY <3>1, <3>2, ChainRestKept
    <2> QED
      BY <1>3, <2>1, SelectRest, DeliverRest, SentRest, VerdictRest DEF ChainStep
  <1>4. ASSUME NEW c \in chains, NEW k \in 1..(Len(c) - 1), NEW frameLost \in BOOLEAN, SendThrew(c, k, frameLost)
        PROVE  SrRest'
    BY <1>4, ThrewRest
  <1>5. ASSUME NEW a, NEW b, ChannelGone(a, b) PROVE SrRest'
    <2>1. UNCHANGED <<serves, chains, stage, verdict, noPath, arrived>> /\ faults < RouteLost /\ faults' = faults + 1
      BY <1>5 DEF ChannelGone
    <2>2. faults' \in 0..RouteLost
      BY <2>1, SignalRelayAssumption DEF SrRest
    <2> QED
      BY <2>1, <2>2 DEF SrRest
  <1>6. CASE UNCHANGED srVars
    BY <1>6 DEF srVars, SrRest
  <1> QED
    BY <1>1, <1>2, <1>3, <1>4, <1>5, <1>6 DEF SrNext

\* Every call of a chain but the last waits for the next one, whichever requests
\* fail on the way, and the relay has one verdict (routeMessage, _relayMeshSignal).
THEOREM RelayTypesAlways == SrSpec => []SrTypeOK
  <1>1. RelayInv /\ SrRest => SrTypeOK
    <2> SUFFICES ASSUME RelayInv, SrRest PROVE SrTypeOK
      OBVIOUS
    <2>1. ASSUME NEW c \in chains, NEW k \in 1..Len(c)
          PROVE  /\ c[k].at \in RNode /\ c[k].path \in Seq(RNode) /\ {c[k].next, c[k].via, c[k].nextVia} \subseteq RNode \cup {NoNode}
                 /\ c[k].st = IF k < Len(c) THEN "wait" ELSE c[k].st
                 /\ c[k].end \in Ending \cup {"none"}
      <3>1. c[k] \in CallType /\ Len(c) \in Nat
        BY DEF RelayInv, GoodChain, GoodCall
      <3>2. k < Len(c) => k \in 1..(Len(c) - 1)
        BY <3>1
      <3>3. k < Len(c) => c[k].st = "wait"
        BY <3>2 DEF SrRest, Waits
      <3> QED
        BY <3>1, <3>3 DEF CallType, MaybeNode
    <2> QED
      BY <2>1 DEF RelayInv, SrRest, SrTypeOK, Stage
  <1> QED
    BY <1>1, SrInitHolds, SrStepHolds, SrRestInit, SrRestStep, PTL DEF SrSpec

(***************************************************************************)
(* The types of the fill.                                                    *)
(***************************************************************************)
\* A cache holds a nomination of each peer at most, and no more than it may.
GoodCache(c) ==
    /\ c \in Seq(Nomination) /\ Len(c) <= KCache
    /\ \A i, j \in 1..Len(c) : c[i].id = c[j].id => i = j

\* The dial that the tick awaits.
Awaited(a) == a.by # "gossip" /\ a.st = "opening"

\* The tick awaits one dial at a time, and one it made for a candidate was
\* within its budget.
TickTyped ==
    /\ tick \in {"idle", "near", "band", "pex", "dial", "opening", "improve"}
    /\ ordered \subseteq Nomination /\ made \in 0..MaxPerTick /\ bandFirst \in BOOLEAN
    /\ \A a \in attempts : Awaited(a) => tick = "opening" /\ (a.by = "fill" => made < MaxPerTick)
    /\ \A a, b \in attempts : Awaited(a) /\ Awaited(b) => a = b

GoodAttempt(a) ==
    /\ a.id \in Other /\ a.by \in {"fill", "gossip", "improve"} /\ a.st \in {"opening", "issued"}
    /\ a.src \in Src \cup {"none"}

MarksTyped ==
    /\ backoff \subseteq Other /\ marked \subseteq Other
    /\ inbound \in 0..MaxInbound /\ surprises \in 0..inbound /\ gone \in 0..MaxSeatLost

FlTyped == GoodCache(cache) /\ TickTyped /\ (\A a \in attempts : GoodAttempt(a)) /\ MarksTyped

LEMMA FillConstants ==
  /\ Known \in Nat /\ Seats \in Nat /\ MaxPerTick \in Nat /\ MaxInbound \in Nat /\ MaxSeatLost \in Nat
  /\ KCache \in Nat /\ KCache > 0
  /\ 0 \in 0..MaxPerTick /\ 0 \in 0..MaxInbound /\ 0 \in 0..MaxSeatLost /\ 0 \in 0..0
  BY FillAssumption

LEMMA FlTypedInit == FlInit => FlTyped
  <1> SUFFICES ASSUME FlInit PROVE FlTyped
    OBVIOUS
  <1>1. GoodCache(<<>>)
    BY FillConstants DEF GoodCache
  <1>2. cache = <<>> /\ attempts = {}
    BY DEF FlInit
  <1>3. TickTyped
    BY FillConstants DEF FlInit, TickTyped
  <1>4. MarksTyped
    BY FillConstants DEF FlInit, MarksTyped
  <1> QED
    BY <1>1, <1>2, <1>3, <1>4 DEF FlTyped

\* What is left of a sequence without its k-th element.
LEMMA RemovedAt ==
  ASSUME NEW S, NEW c \in Seq(S), NEW k \in 1..Len(c)
  PROVE  /\ RemoveAt(c, k) \in Seq(S) /\ Len(RemoveAt(c, k)) = Len(c) - 1
         /\ \A i \in 1..(Len(c) - 1) : RemoveAt(c, k)[i] = IF i < k THEN c[i] ELSE c[i + 1]
  <1>1. Len(c) \in Nat
    OBVIOUS
  <1>2. PICK e : e = SubSeq(c, 1, k - 1)
    OBVIOUS
  <1>3. PICK f : f = SubSeq(c, k + 1, Len(c))
    OBVIOUS
  <1>4. e \in Seq(S) /\ Len(e) = k - 1 /\ \A i \in 1..(k - 1) : e[i] = c[i]
    BY <1>1, <1>2
  <1>5. f \in Seq(S) /\ Len(f) = Len(c) - k /\ \A i \in 1..(Len(c) - k) : f[i] = c[k + i]
    BY <1>1, <1>3
  <1>6. PICK g : g = e \o f
    OBVIOUS
  <1>7. /\ g \in Seq(S) /\ Len(g) = Len(e) + Len(f)
        /\ \A i \in 1..(Len(e) + Len(f)) : g[i] = IF i <= Len(e) THEN e[i] ELSE f[i - Len(e)]
    BY <1>4, <1>5, <1>6, ConcatProperties
  <1>8. ASSUME NEW i \in 1..(Len(c) - 1) PROVE g[i] = IF i < k THEN c[i] ELSE c[i + 1]
    <2>1. CASE i < k
      <3>1. i \in 1..(k - 1) /\ i <= Len(e) /\ i \in 1..(Len(e) + Len(f))
        BY <1>1, <1>4, <1>5, <2>1
      <3> QED
        BY <1>4, <1>7, <2>1, <3>1
    <2>2. CASE ~(i < k)
      <3>1. ~(i <= Len(e)) /\ i \in 1..(Len(e) + Len(f)) /\ i - Len(e) = i - k + 1
        BY <1>1, <1>4, <1>5, <2>2
      <3>2. i - k + 1 \in 1..(Len(c) - k) /\ k + (i - k + 1) = i + 1
        BY <1>1, <2>2
      <3> QED
        BY <1>5, <1>7, <2>2, <3>1, <3>2
    <2> QED
      BY <2>1, <2>2
  <1>9. g = RemoveAt(c, k)
    BY <1>2, <1>3, <1>6 DEF RemoveAt
  <1>10. Len(g) = Len(c) - 1
    BY <1>1, <1>4, <1>5, <1>7
  <1> QED
    BY <1>7, <1>8, <1>9, <1>10

\* A nomination is taken out of a cache.
LEMMA RemovedGood ==
  ASSUME NEW c, GoodCache(c), NEW k \in 1..Len(c)
  PROVE  /\ GoodCache(RemoveAt(c, k)) /\ Len(RemoveAt(c, k)) < KCache
         /\ \A i \in 1..Len(RemoveAt(c, k)) : \E j \in 1..Len(c) : RemoveAt(c, k)[i] = c[j]
  <1>1. c \in Seq(Nomination) /\ Len(c) \in Nat /\ Len(c) <= KCache /\ KCache \in Nat
    BY FillConstants DEF GoodCache
  <1>2. PICK g : g = RemoveAt(c, k)
    OBVIOUS
  <1>3. /\ g \in Seq(Nomination) /\ Len(g) = Len(c) - 1
        /\ \A i \in 1..(Len(c) - 1) : g[i] = IF i < k THEN c[i] ELSE c[i + 1]
    BY <1>1, <1>2, RemovedAt
  <1> DEFINE Old(i) == IF i < k THEN i ELSE i + 1
  <1>4. \A i \in 1..Len(g) : Old(i) \in 1..Len(c) /\ g[i] = c[Old(i)]
    BY <1>1, <1>3
  <1>5. \A i, j \in 1..Len(g) : Old(i) = Old(j) => i = j
    BY <1>1, <1>3
  <1> HIDE DEF Old
  <1>6. \A i, j \in 1..Len(g) : g[i].id = g[j].id => i = j
    BY <1>4, <1>5 DEF GoodCache
  <1>7. Len(g) < KCache /\ Len(g) <= KCache
    BY <1>1, <1>3
  <1> QED
    BY <1>2, <1>3, <1>4, <1>6, <1>7 DEF GoodCache

\* A peer that a cache does not hold is nominated.
LEMMA AppendedGood ==
  ASSUME NEW c, GoodCache(c), Len(c) < KCache, NEW r \in Nomination, \A i \in 1..Len(c) : c[i].id # r.id
  PROVE  GoodCache(Append(c, r))
  <1>1. c \in Seq(Nomination) /\ Len(c) \in Nat /\ KCache \in Nat
    BY FillConstants DEF GoodCache
  <1>2. PICK g : g = Append(c, r)
    OBVIOUS
  <1>3. /\ g \in Seq(Nomination) /\ Len(g) = Len(c) + 1 /\ g[Len(c) + 1] = r
        /\ \A i \in 1..Len(c) : g[i] = c[i]
    BY <1>1, <1>2
  <1>4. ASSUME NEW i \in 1..Len(g), NEW j \in 1..Len(g), g[i].id = g[j].id PROVE i = j
    <2>1. CASE i \in 1..Len(c) /\ j \in 1..Len(c)
      BY <1>3, <1>4, <2>1 DEF GoodCache
    <2>2. CASE i = Len(c) + 1 /\ j \in 1..Len(c)
      BY <1>3, <1>4, <2>2
    <2>3. CASE j = Len(c) + 1 /\ i \in 1..Len(c)
      BY <1>3, <1>4, <2>3
    <2>4. CASE i = Len(c) + 1 /\ j = Len(c) + 1
      BY <2>4
    <2>5. (i \in 1..Len(c) \/ i = Len(c) + 1) /\ (j \in 1..Len(c) \/ j = Len(c) + 1)
      BY <1>1, <1>3
    <2> QED
      BY <2>1, <2>2, <2>3, <2>4, <2>5
  <1>5. Len(g) <= KCache
    BY <1>1, <1>3
  <1>6. GoodCache(g)
    BY <1>3, <1>4, <1>5 DEF GoodCache
  <1> QED
    BY <1>2, <1>6

LEMMA LeastPlace ==
  ASSUME NEW T \in SUBSET (1..Len(cache)), GoodCache(cache), T # {}
  PROVE  Min(T) \in 1..Len(cache)
  <1>1. T \in SUBSET Nat
    OBVIOUS
  <1>2. (CHOOSE x \in T : \A y \in T : x <= y) \in T
    BY <1>1, LeastOf
  <1> QED
    BY <1>2 DEF Min

LEMMA UncachedGood ==
  ASSUME GoodCache(cache), NEW id PROVE GoodCache(Uncached(id))
  <1>1. CASE id \in Cached
    <2>1. Places(id) \in SUBSET (1..Len(cache)) /\ Places(id) # {}
      BY <1>1 DEF Cached, Places
    <2>2. Min(Places(id)) \in 1..Len(cache)
      BY <2>1, LeastPlace
    <2>3. PICK k \in 1..Len(cache) : k = Min(Places(id))
      BY <2>2
    <2>4. GoodCache(RemoveAt(cache, k))
      BY <2>3, RemovedGood
    <2> QED
      BY <1>1, <2>3, <2>4 DEF Uncached
  <1>2. CASE id \notin Cached
    BY <1>2 DEF Uncached
  <1> QED
    BY <1>1, <1>2

LEMMA NominatedGood ==
  ASSUME GoodCache(cache), NEW id \in Other, NEW src \in Src PROVE GoodCache(Nominated(id, src))
  <1>1. CASE id \in seats \cup Cached \cup marked
    BY <1>1 DEF Nominated
  <1>2. CASE id \notin seats \cup Cached \cup marked
    <2>1. PICK r \in Nomination : r = [id |-> id, src |-> src]
      BY DEF Nomination
    <2>2. r.id = id
      BY <2>1 DEF Nomination
    <2>3. PICK kept : kept = IF src = "pex" /\ Cardinality(PexPlaces) >= PexCap THEN RemoveAt(cache, Min(PexPlaces)) ELSE cache
      OBVIOUS
    <2>4. Nominated(id, src) = IF Len(kept) >= KCache THEN kept ELSE Append(kept, r)
      BY <1>2, <2>1, <2>3 DEF Nominated
    <2>5. \A i \in 1..Len(cache) : cache[i].id # id
      BY <1>2 DEF Cached
    <2>6. GoodCache(kept) /\ \A i \in 1..Len(kept) : kept[i].id # id
      <3>1. CASE src = "pex" /\ Cardinality(PexPlaces) >= PexCap
        <4>1. PexCap \in Nat /\ PexCap > 0
          BY FillConstants DEF PexCap
        <4>2. PexPlaces # {}
          BY <3>1, <4>1, FS_EmptySet
        <4>3. PexPlaces \in SUBSET (1..Len(cache))
          BY DEF PexPlaces
        <4>4. PICK k \in 1..Len(cache) : k = Min(PexPlaces)
          BY <4>2, <4>3, LeastPlace
        <4>5. kept = RemoveAt(cache, k)
          BY <2>3, <3>1, <4>4
        <4> QED
          BY <2>5, <4>5, RemovedGood
      <3>2. CASE ~(src = "pex" /\ Cardinality(PexPlaces) >= PexCap)
        BY <2>3, <2>5, <3>2
      <3> QED
        BY <3>1, <3>2
    <2>7. CASE Len(kept) >= KCache
      BY <2>4, <2>6, <2>7
    <2>8. CASE ~(Len(kept) >= KCache)
      <3>1. Len(kept) < KCache
        BY <2>6, <2>8, FillConstants DEF GoodCache
      <3>2. GoodCache(Append(kept, r))
        BY <2>2, <2>6, <3>1, AppendedGood
      <3> QED
        BY <2>4, <2>8, <3>2
    <2> QED
      BY <2>7, <2>8
  <1> QED
    BY <1>1, <1>2

LEMMA FoundGood ==
  ASSUME GoodCache(cache), NEW src \in Src, Found(src) PROVE GoodCache(cache')
  BY NominatedGood DEF Found

\* The tick goes on from where it waits for no dial, for one at most.
LEMMA TickGoesOn ==
  ASSUME TickTyped, tick # "opening",
         tick' \in {"idle", "near", "band", "pex", "dial", "improve"}, ordered' \subseteq Nomination, made' \in 0..MaxPerTick, bandFirst' \in BOOLEAN,
         \A a \in attempts' : a \in attempts \/ ~Awaited(a)
  PROVE  TickTyped'
  BY DEF TickTyped, Awaited

LEMMA TickAwaits ==
  ASSUME TickTyped, tick # "opening", NEW a, attempts' = attempts \cup {a}, a.by = "fill" => made < MaxPerTick,
         tick' = "opening", UNCHANGED <<ordered, made, bandFirst>>
  PROVE  TickTyped'
  BY DEF TickTyped, Awaited

LEMMA TickKept ==
  ASSUME TickTyped, UNCHANGED tickVars, \A a \in attempts' : a \in attempts \/ ~Awaited(a)
  PROVE  TickTyped'
  BY DEF TickTyped, Awaited, tickVars

\* The tick takes up the outcome of the dial that it awaits.
LEMMA TakesTyped ==
  ASSUME FlTyped, NEW a \in attempts, a.st = "opening", NEW counted \in {0, 1}, NEW ends \in BOOLEAN,
         TickTakes(a, counted, ends), \A b \in attempts' : b \in attempts \ {a} \/ ~Awaited(b)
  PROVE  TickTyped' /\ GoodCache(cache')
  <1>1. TickTyped /\ GoodCache(cache) /\ GoodAttempt(a)
    BY DEF FlTyped
  <1>2. CASE a.by = "gossip"
    <2>1. UNCHANGED <<tickVars, cache>>
      BY <1>2 DEF TickTakes
    <2>2. TickTyped'
      BY <1>1, <2>1, TickKept
    <2> QED
      BY <1>1, <2>1, <2>2
  <1>3. CASE a.by # "gossip"
    <2>1. Awaited(a)
      BY <1>3 DEF Awaited
    <2>2. \A b \in attempts' : ~Awaited(b)
      BY <1>1, <2>1 DEF TickTyped
    <2>3. CASE a.by = "improve" \/ ends
      <3>1. tick' = "idle" /\ ordered' = {} /\ made' = 0 /\ bandFirst' = bandFirst /\ cache' = cache
        BY <1>3, <2>3 DEF TickTakes, TickEnds
      <3> QED
        BY <1>1, <2>2, <3>1, FillConstants DEF TickTyped
    <2>4. CASE ~(a.by = "improve" \/ ends)
      <3>1. /\ tick' = "dial" /\ ordered' = Rest /\ made' = made + counted
            /\ cache' = Uncached(a.id) /\ bandFirst' = bandFirst
        BY <1>3, <2>4 DEF TickTakes
      <3>2. a.by = "fill" /\ made < MaxPerTick
        BY <1>1, <1>3, <2>1, <2>4 DEF GoodAttempt, TickTyped
      <3>3. made' \in 0..MaxPerTick
        BY <1>1, <3>1, <3>2, FillConstants DEF TickTyped
      <3>4. ordered' \subseteq Nomination
        BY <1>1, <3>1 DEF Rest, TickTyped
      <3>5. GoodCache(cache')
        BY <1>1, <3>1, UncachedGood
      <3> QED
        BY <1>1, <2>2, <3>1, <3>3, <3>4, <3>5 DEF TickTyped
    <2> QED
      BY <2>3, <2>4
  <1> QED
    BY <1>2, <1>3

\* The source of a dial is that of a nomination, if it has one.
LEMMA OutGood ==
  ASSUME GoodCache(cache), NEW a, GoodAttempt(a) PROVE GoodAttempt(Out(a)) /\ ~Awaited(Out(a))
  <1>1. SrcOf(a) \in Src \cup {"none"}
    <2>1. CASE ~NoPathDefer \/ a.by # "fill"
      BY <2>1 DEF SrcOf
    <2>2. CASE ~(~NoPathDefer \/ a.by # "fill") /\ a.id \in Cached
      <3>1. PICK k \in 1..Len(cache) : cache[k].id = a.id
        BY <2>2 DEF Cached
      <3>2. cache[k] \in ToSet(cache)
        BY <3>1 DEF GoodCache, ToSet
      <3>3. PICK r : r = CHOOSE q \in ToSet(cache) : q.id = a.id
        OBVIOUS
      <3>4. r \in ToSet(cache)
        BY <3>1, <3>2, <3>3
      <3>5. r \in Nomination
        BY <3>4 DEF GoodCache, ToSet
      <3>6. SrcOf(a) = r.src
        BY <2>2, <3>3 DEF SrcOf
      <3> QED
        BY <3>5, <3>6 DEF Nomination
    <2>3. CASE ~(~NoPathDefer \/ a.by # "fill") /\ a.id \notin Cached
      BY <2>3 DEF SrcOf, Src
    <2> QED
      BY <2>1, <2>2, <2>3
  <1>2. Out(a).id = a.id /\ Out(a).by = a.by /\ Out(a).st = "issued" /\ Out(a).src = SrcOf(a)
    BY DEF Out
  <1> QED
    BY <1>1, <1>2 DEF GoodAttempt, Awaited

LEMMA AskedGood ==
  ASSUME NEW id \in Other, NEW by \in {"fill", "gossip", "improve"}
  PROVE  GoodAttempt(Asked(id, by)) /\ Asked(id, by).by = by
  BY DEF GoodAttempt, Asked

LEMMA OpenTyped ==
  ASSUME FlTyped, NEW a \in attempts, OpenReturned(a) PROVE FlTyped'
  <1>1. GoodCache(cache) /\ TickTyped /\ GoodAttempt(a) /\ MarksTyped /\ \A b \in attempts : GoodAttempt(b)
    BY DEF FlTyped
  <1>2. a.st = "opening" /\ UNCHANGED <<seats, marked, inbound, surprises, gone>>
    BY DEF OpenReturned
  <1>3. PICK o : o = Out(a)
    OBVIOUS
  <1>4. GoodAttempt(o) /\ ~Awaited(o)
    BY <1>1, <1>3, OutGood
  <1>5. attempts' = attempts \ {a} \/ attempts' = (attempts \ {a}) \cup {o}
    BY <1>3 DEF OpenReturned
  <1>6. \E counted \in {0, 1}, ends \in BOOLEAN : TickTakes(a, counted, ends)
    BY DEF OpenReturned
  <1>7. backoff' \subseteq backoff \cup {a.id}
    BY DEF OpenReturned
  <1>8. \A b \in attempts' : b \in attempts \ {a} \/ ~Awaited(b)
    BY <1>4, <1>5
  <1>9. TickTyped' /\ GoodCache(cache')
    BY <1>2, <1>6, <1>8, TakesTyped
  <1>10. MarksTyped'
    BY <1>1, <1>2, <1>7 DEF MarksTyped, GoodAttempt
  <1>11. \A b \in attempts' : GoodAttempt(b)
    BY <1>1, <1>4, <1>5
  <1> QED
    BY <1>9, <1>10, <1>11 DEF FlTyped, GoodAttempt

LEMMA DialTyped ==
  ASSUME FlTyped, NEW id \in Other, DialNext(id) PROVE FlTyped'
  <1>1. GoodCache(cache) /\ TickTyped /\ MarksTyped /\ \A b \in attempts : GoodAttempt(b)
    BY DEF FlTyped
  <1>2. tick = "dial" /\ made < MaxPerTick /\ UNCHANGED <<seats, backoff, marked, inbound, surprises, gone>>
    BY <1>1, FillConstants DEF DialNext, DialPhaseOver, TickTyped
  <1>3. MarksTyped'
    BY <1>1, <1>2 DEF MarksTyped
  <1>4. GoodCache(cache')
    <2>1. cache' = Uncached(id) \/ cache' = cache
      BY DEF DialNext
    <2> QED
      BY <1>1, <2>1, UncachedGood
  <1>5. TickTyped' /\ \A b \in attempts' : GoodAttempt(b)
    <2>1. CASE NextOne /\ UNCHANGED attempts
      <3>1. tick' = "dial" /\ ordered' \subseteq Nomination /\ made' \in 0..MaxPerTick /\ bandFirst' \in BOOLEAN
        BY <1>1, <1>2, <2>1 DEF NextOne, Rest, TickTyped
      <3> QED
        BY <1>1, <1>2, <2>1, <3>1, TickGoesOn
    <2>2. CASE TickEnds /\ UNCHANGED attempts
      <3>1. tick' = "idle" /\ ordered' \subseteq Nomination /\ made' \in 0..MaxPerTick /\ bandFirst' \in BOOLEAN
        BY <1>1, <2>2, FillConstants DEF TickEnds, TickTyped
      <3> QED
        BY <1>1, <1>2, <2>2, <3>1, TickGoesOn
    <2>3. CASE attempts' = attempts \cup {Asked(id, "fill")} /\ Goes("opening")
      <3>1. PICK a : a = Asked(id, "fill")
        OBVIOUS
      <3>2. GoodAttempt(a)
        BY <3>1, AskedGood
      <3>3. tick' = "opening" /\ UNCHANGED <<ordered, made, bandFirst>>
        BY <2>3 DEF Goes
      <3>4. TickTyped'
        BY <1>1, <1>2, <2>3, <3>1, <3>3, TickAwaits
      <3> QED
        BY <1>1, <2>3, <3>1, <3>2, <3>4
    <2> QED
      BY <2>1, <2>2, <2>3 DEF DialNext
  <1> QED
    BY <1>3, <1>4, <1>5 DEF FlTyped, GoodAttempt

LEMMA SearchTyped ==
  ASSUME FlTyped, TickStart \/ NearSearched \/ BandDiscovered \/ PeerExchanged \/ DialPhaseEnds
  PROVE  FlTyped'
  <1>1. GoodCache(cache) /\ TickTyped /\ MarksTyped /\ \A b \in attempts : GoodAttempt(b)
    BY DEF FlTyped
  <1>2. UNCHANGED <<attempts, backoff, marked, inbound, surprises, gone>> /\ tick # "opening"
    BY DEF TickStart, NearSearched, BandDiscovered, PeerExchanged, DialPhaseEnds
  <1>3. MarksTyped'
    BY <1>1, <1>2 DEF MarksTyped
  <1>4. GoodCache(cache')
    <2>1. cache' = cache \/ \E src \in Src : Found(src)
      BY DEF TickStart, NearSearched, BandDiscovered, PeerExchanged, DialPhaseEnds, Src
    <2> QED
      BY <1>1, <2>1, FoundGood
  <1>5. tick' \in {"idle", "near", "band", "pex", "dial", "improve"} /\ made' \in 0..MaxPerTick
    BY <1>1, FillConstants DEF TickStart, NearSearched, BandDiscovered, PeerExchanged, DialPhaseEnds, TickEnds, Goes, TickTyped
  <1>6. bandFirst' \in BOOLEAN
    <2>1. bandFirst' = ~bandFirst \/ bandFirst' = bandFirst
      BY DEF TickStart, NearSearched, BandDiscovered, PeerExchanged, DialPhaseEnds, TickEnds, Goes
    <2> QED
      BY <1>1, <2>1 DEF TickTyped
  <1>7. ordered' \subseteq Nomination
    <2>1. ordered' \in {ordered, {}} \/ ordered' = ToSet(cache')
      BY DEF TickStart, NearSearched, BandDiscovered, PeerExchanged, DialPhaseEnds, TickEnds, Goes
    <2>2. ToSet(cache') \subseteq Nomination
      BY <1>4 DEF GoodCache, ToSet
    <2> QED
      BY <1>1, <2>1, <2>2 DEF TickTyped
  <1>8. TickTyped'
    BY <1>1, <1>2, <1>5, <1>6, <1>7, TickGoesOn
  <1> QED
    BY <1>1, <1>2, <1>3, <1>4, <1>8 DEF FlTyped, GoodAttempt

LEMMA ImproveTyped ==
  ASSUME FlTyped, NearImproveStep PROVE FlTyped'
  <1>1. GoodCache(cache) /\ TickTyped /\ MarksTyped /\ \A b \in attempts : GoodAttempt(b)
    BY DEF FlTyped
  <1>2. UNCHANGED <<cache, backoff, marked, inbound, surprises, gone>> /\ tick = "improve"
    BY DEF NearImproveStep
  <1>3. MarksTyped' /\ GoodCache(cache')
    BY <1>1, <1>2 DEF MarksTyped
  <1>4. TickTyped' /\ \A b \in attempts' : GoodAttempt(b)
    <2>1. CASE TickEnds /\ UNCHANGED attempts
      <3>1. tick' = "idle" /\ ordered' \subseteq Nomination /\ made' \in 0..MaxPerTick /\ bandFirst' \in BOOLEAN
        BY <1>1, <2>1, FillConstants DEF TickEnds, TickTyped
      <3> QED
        BY <1>1, <1>2, <2>1, <3>1, TickGoesOn
    <2>2. ASSUME NEW id \in Other, attempts' = attempts \cup {Asked(id, "improve")}, Goes("opening")
          PROVE  TickTyped' /\ \A b \in attempts' : GoodAttempt(b)
      <3>1. PICK a : a = Asked(id, "improve")
        OBVIOUS
      <3>2. GoodAttempt(a) /\ a.by # "fill"
        BY <3>1, AskedGood
      <3>3. tick' = "opening" /\ UNCHANGED <<ordered, made, bandFirst>>
        BY <2>2 DEF Goes
      <3>4. TickTyped'
        BY <1>1, <1>2, <2>2, <3>1, <3>2, <3>3, TickAwaits
      <3> QED
        BY <1>1, <2>2, <3>1, <3>2, <3>4
    <2> QED
      BY <2>1, <2>2 DEF NearImproveStep
  <1> QED
    BY <1>3, <1>4 DEF FlTyped, GoodAttempt

LEMMA GossipTyped ==
  ASSUME FlTyped, NEW id \in Other, Gossip(id) PROVE FlTyped'
  <1>1. GoodCache(cache) /\ TickTyped /\ MarksTyped /\ \A b \in attempts : GoodAttempt(b)
    BY DEF FlTyped
  <1>2. PICK a : a = Asked(id, "gossip")
    OBVIOUS
  <1>3. attempts' = attempts \cup {a} /\ UNCHANGED <<cache, tickVars, backoff, marked, inbound, surprises, gone>>
    BY <1>2 DEF Gossip
  <1>4. GoodAttempt(a) /\ ~Awaited(a)
    BY <1>2, AskedGood DEF Awaited
  <1>5. TickTyped'
    BY <1>1, <1>3, <1>4, TickKept
  <1>6. MarksTyped' /\ GoodCache(cache')
    BY <1>1, <1>3 DEF MarksTyped
  <1>7. \A b \in attempts' : GoodAttempt(b)
    BY <1>1, <1>3, <1>4
  <1> QED
    BY <1>5, <1>6, <1>7 DEF FlTyped, GoodAttempt

\* A dial that ends leaves the tick alone.
LEMMA EndTyped ==
  ASSUME FlTyped, NEW a \in attempts, attempts' = attempts \ {a}, UNCHANGED <<tickVars, inbound, surprises, gone>>,
         GoodCache(cache'), backoff' \subseteq backoff \cup {a.id}, marked' \subseteq marked \cup {a.id}
  PROVE  FlTyped'
  <1>1. TickTyped /\ MarksTyped /\ \A b \in attempts : GoodAttempt(b)
    BY DEF FlTyped
  <1>2. TickTyped'
    BY <1>1, TickKept
  <1>3. MarksTyped'
    BY <1>1 DEF MarksTyped, GoodAttempt
  <1>4. \A b \in attempts' : GoodAttempt(b)
    BY <1>1
  <1> QED
    BY <1>2, <1>3, <1>4 DEF FlTyped, GoodAttempt

LEMMA NoPathTyped ==
  ASSUME FlTyped, NEW a \in attempts, NoPath(a) PROVE FlTyped'
  <1>1. GoodCache(cache) /\ GoodAttempt(a)
    BY DEF FlTyped
  <1>2. PICK r : r = [id |-> a.id, src |-> IF a.src = "none" THEN "near" ELSE a.src]
    OBVIOUS
  <1>3. r.id = a.id /\ r \in Nomination
    <2>1. (IF a.src = "none" THEN "near" ELSE a.src) \in Src
      BY <1>1 DEF GoodAttempt, Src
    <2> QED
      BY <1>1, <1>2, <2>1 DEF GoodAttempt, Nomination
  <1>4. cache' = IF a.id \in Cached \/ Len(cache) >= KCache THEN cache ELSE Append(cache, r)
    BY <1>2 DEF NoPath
  <1>5. CASE a.id \in Cached \/ Len(cache) >= KCache
    BY <1>1, <1>4, <1>5, EndTyped DEF NoPath
  <1>6. CASE ~(a.id \in Cached \/ Len(cache) >= KCache)
    <2>1. Len(cache) < KCache /\ \A i \in 1..Len(cache) : cache[i].id # r.id
      BY <1>1, <1>3, <1>6, FillConstants DEF Cached, GoodCache
    <2>2. GoodCache(Append(cache, r))
      BY <1>1, <1>3, <2>1, AppendedGood
    <2>3. GoodCache(cache')
      BY <1>4, <1>6, <2>2
    <2> QED
      BY <2>3, EndTyped DEF NoPath
  <1> QED
    BY <1>5, <1>6

\* Steps of the peers around.
LEMMA WorldTyped ==
  ASSUME FlTyped, UNCHANGED <<cache, tickVars, attempts>>, MarksTyped' PROVE FlTyped'
  <1>1. GoodCache(cache) /\ TickTyped /\ \A b \in attempts : GoodAttempt(b)
    BY DEF FlTyped
  <1>2. TickTyped'
    BY <1>1, TickKept
  <1> QED
    BY <1>1, <1>2 DEF FlTyped, GoodAttempt

LEMMA FlTypedStep == FlTyped /\ [FlNext]_flVars => FlTyped'
  <1> SUFFICES ASSUME FlTyped, [FlNext]_flVars PROVE FlTyped'
    OBVIOUS
  <1>0. MarksTyped /\ GoodCache(cache)
    BY DEF FlTyped
  <1>1. CASE TickStart \/ NearSearched \/ BandDiscovered \/ PeerExchanged \/ DialPhaseEnds
    BY <1>1, SearchTyped
  <1>2. CASE NearImproveStep
    BY <1>2, ImproveTyped
  <1>3. ASSUME NEW id \in Other, DialNext(id) PROVE FlTyped'
    BY <1>3, DialTyped
  <1>4. ASSUME NEW id \in Other, Gossip(id) PROVE FlTyped'
    BY <1>4, GossipTyped
  <1>5. ASSUME NEW id \in Other, BackoffEnds(id) \/ MarkDue(id) PROVE FlTyped'
    <2>1. UNCHANGED <<cache, tickVars, attempts, inbound, surprises, gone>> /\ backoff' \subseteq backoff /\ marked' \subseteq marked
      BY <1>5 DEF BackoffEnds, MarkDue
    <2>2. MarksTyped'
      BY <1>0, <2>1 DEF MarksTyped
    <2> QED
      BY <2>1, <2>2, WorldTyped
  <1>6. ASSUME NEW id \in Other, InboundBound(id) PROVE FlTyped'
    <2>1. /\ inbound < MaxInbound /\ inbound' = inbound + 1
          /\ surprises' = surprises + (IF Cardinality(seats') > Cardinality(seats) /\ Dials # {} THEN 1 ELSE 0)
          /\ UNCHANGED <<cache, tickVars, attempts, backoff, marked, gone>>
      BY <1>6 DEF InboundBound
    <2>2. inbound' \in 0..MaxInbound /\ surprises' \in 0..inbound'
      BY <1>0, <2>1, FillConstants DEF MarksTyped
    <2>3. MarksTyped'
      BY <1>0, <2>1, <2>2 DEF MarksTyped
    <2> QED
      BY <2>1, <2>3, WorldTyped
  <1>7. ASSUME NEW id \in Other, SeatLost(id) PROVE FlTyped'
    <2>1. /\ gone < MaxSeatLost /\ gone' = gone + 1 /\ marked' = marked \cup {id}
          /\ UNCHANGED <<cache, tickVars, attempts, backoff, inbound, surprises>>
      BY <1>7 DEF SeatLost
    <2>2. gone' \in 0..MaxSeatLost
      BY <1>0, <2>1, FillConstants DEF MarksTyped
    <2>3. MarksTyped'
      BY <1>0, <2>1, <2>2 DEF MarksTyped
    <2> QED
      BY <2>1, <2>3, WorldTyped
  <1>8. ASSUME NEW a \in attempts, OpenReturned(a) PROVE FlTyped'
    BY <1>8, OpenTyped
  <1>9. ASSUME NEW a \in attempts, DialBound(a) \/ DialFailed(a) PROVE FlTyped'
    BY <1>0, <1>9, EndTyped DEF DialBound, DialFailed
  <1>10. ASSUME NEW a \in attempts, NoPath(a) PROVE FlTyped'
    BY <1>10, NoPathTyped
  <1>11. CASE UNCHANGED flVars
    <2>1. UNCHANGED <<cache, tickVars, attempts>> /\ MarksTyped'
      BY <1>0, <1>11 DEF flVars, tickVars, MarksTyped
    <2> QED
      BY <2>1, WorldTyped
  <1> QED
    BY <1>1, <1>2, <1>3, <1>4, <1>5, <1>6, <1>7, <1>8, <1>9, <1>10, <1>11 DEF FlNext, TickStep

\* A cache of distinct peers has as many peers as nominations.
LEMMA CachedCount ==
  ASSUME GoodCache(cache) PROVE Cardinality(Cached) = Len(cache)
  <1> DEFINE f == [k \in 1..Len(cache) |-> cache[k].id]
  <1>1. Len(cache) \in Nat
    BY DEF GoodCache
  <1>2. f \in Surjection(1..Len(cache), Cached)
    BY DEF Surjection, Cached
  <1>3. f \in Injection(1..Len(cache), Cached)
    BY DEF Injection, IsInjective, Cached, GoodCache
  <1>4. IsFiniteSet(1..Len(cache)) /\ Cardinality(1..Len(cache)) = Len(cache)
    <2>1. IsFiniteSet(1..Len(cache)) /\ Cardinality(1..Len(cache)) = IF 1 > Len(cache) THEN 0 ELSE Len(cache) - 1 + 1
      BY <1>1, FS_Interval
    <2> QED
      BY <1>1, <2>1
  <1> HIDE DEF f
  <1>5. Cardinality(Cached) = Cardinality(1..Len(cache))
    BY <1>2, <1>3, <1>4, FS_Surjection
  <1> QED
    BY <1>4, <1>5

\* The cache of nominations holds a peer once and never more peers than it may,
\* the tick makes no more dials than its budget, and awaits one at a time
\* (_nominateCandidate, _fillTick, _onNoPath).
THEOREM FillTypesAlways == FlSpec => []FlTypeOK
  <1>1. FillInv /\ FlTyped => FlTypeOK
    <2> SUFFICES ASSUME FillInv, FlTyped PROVE FlTypeOK
      OBVIOUS
    <2>1. seats \subseteq Other /\ Cardinality(seats) <= Seats
      BY DEF FillInv, FillCounts
    <2>2. Cardinality(Cached) = Len(cache)
      BY CachedCount DEF FlTyped
    <2> QED
      BY <2>1, <2>2 DEF FlTyped, FlTypeOK, GoodCache, TickTyped, GoodAttempt, MarksTyped
  <1> QED
    BY <1>1, FillInit, FillStep, FlTypedInit, FlTypedStep, PTL DEF FlSpec

(***************************************************************************)
(* The types of the admission.                                               *)
(***************************************************************************)
\* What SeatInv does not speak of: a refused peer has one grace timer.
AdRest ==
    /\ IsInjective(grace) /\ waitsFor \in [Peer -> Peer \cup {Nil}]
    /\ stale \subseteq Peer /\ duty \subseteq Peer /\ laneSeen \subseteq Peer /\ adding \subseteq Peer
    /\ changes \in 0..MaxChanges

LEMMA AdRestInit == AdInit => AdRest
  <1> SUFFICES ASSUME AdInit PROVE AdRest
    OBVIOUS
  <1>1. grace = <<>> /\ IsInjective(<<>>)
    BY DEF AdInit, IsInjective
  <1>2. changes \in 0..MaxChanges
    BY AdmissionAssumption DEF AdInit
  <1>3. waitsFor \in [Peer -> Peer \cup {Nil}]
    BY DEF AdInit
  <1> QED
    BY <1>1, <1>2, <1>3 DEF AdInit, AdRest

\* Steps that arm no timer and begin no transfer.
LEMMA AdRestKept ==
  ASSUME AdRest, UNCHANGED <<grace, waitsFor>>, stale' \subseteq Peer, duty' \subseteq Peer,
         laneSeen' \subseteq Peer, adding' \subseteq Peer, changes' \in 0..MaxChanges
  PROVE  AdRest'
  BY DEF AdRest

\* A timer that fires leaves the map, or is armed again as the youngest.
LEMMA FiredOnce ==
  ASSUME NEW g \in Seq(Peer), IsInjective(g), g # <<>>
  PROVE  IsInjective(Tail(g)) /\ IsInjective(Append(Tail(g), Head(g)))
  <1>1. Len(g) \in Nat /\ Len(g) > 0 /\ DOMAIN g = 1..Len(g)
    OBVIOUS
  <1>2. \A i \in 1..Len(g) : \A j \in 1..Len(g) : g[i] = g[j] => i = j
    BY <1>1, InjectiveMeans
  <1>3. PICK t : t = Tail(g)
    OBVIOUS
  <1>4. t \in Seq(Peer) /\ Len(t) = Len(g) - 1 /\ \A i \in 1..(Len(g) - 1) : t[i] = g[i + 1]
    BY <1>1, <1>3
  <1>5. DOMAIN t = 1..(Len(g) - 1)
    BY <1>1, <1>4
  <1>6. \A i \in 1..(Len(g) - 1) : i + 1 \in 1..Len(g)
    BY <1>1
  <1>7. \A i \in DOMAIN t : \A j \in DOMAIN t : t[i] = t[j] => i = j
    <2> SUFFICES ASSUME NEW i \in DOMAIN t, NEW j \in DOMAIN t, t[i] = t[j] PROVE i = j
      OBVIOUS
    <2>1. g[i + 1] = g[j + 1] /\ i + 1 \in 1..Len(g) /\ j + 1 \in 1..Len(g)
      BY <1>4, <1>5, <1>6
    <2>2. i + 1 = j + 1
      BY <1>2, <2>1
    <2> QED
      BY <1>1, <1>5, <2>2
  <1>8. IsInjective(t)
    BY <1>7, InjectiveMeans
  <1>9. PICK h \in Peer : h = Head(g)
    BY <1>1
  <1>10. h = g[1]
    BY <1>1, <1>9
  <1>11. h \notin ToSet(t)
    <2> SUFFICES ASSUME h \in ToSet(t) PROVE FALSE
      OBVIOUS
    <2>1. PICK i \in 1..(Len(g) - 1) : h = t[i]
      BY <1>5 DEF ToSet
    <2>2. g[1] = g[i + 1] /\ 1 \in 1..Len(g) /\ i + 1 \in 1..Len(g)
      BY <1>1, <1>4, <1>6, <1>10, <2>1
    <2>3. 1 = i + 1
      BY <1>2, <2>2
    <2> QED
      BY <2>3
  <1>12. IsInjective(Append(t, h))
    BY <1>4, <1>8, <1>11, PathGrows
  <1> QED
    BY <1>3, <1>8, <1>9, <1>12

LEMMA CommitTyped ==
  ASSUME AdRest, NEW p \in Peer, NEW d, GateCommit(p, d) PROVE laneSeen' \subseteq Peer
  BY DEF GateCommit, AdRest

LEMMA RefusedTyped ==
  ASSUME GraceSuffices, SeatInv, AdRest, NEW p \in Peer, Cardinality(table) + KJoin >= Cap, Refused(p),
         UNCHANGED <<stale, duty, changes, adding>>
  PROVE  AdRest'
  <1>1. UNCHANGED <<laneSeen, waitsFor>>
    BY DEF Refused
  <1>2. CASE grace' = grace
    BY <1>1, <1>2, AdRestKept DEF AdRest
  <1>3. CASE grace' # grace
    <2>1. /\ GraceMax > 0 /\ p \notin ToSet(grace) /\ Cardinality(table) + Len(grace) + 1 <= MaxConnections
          /\ grace' = Append(Kept, p)
      BY <1>3 DEF Refused
    <2>2. Len(grace) \in Nat /\ grace \in Seq(Peer)
      BY DEF SeatInv
    <2>3. Len(grace) < GraceMax
      BY <2>1, <2>2, TableCounted, AdmissionNumbers DEF GraceSuffices
    <2>4. Kept = grace
      BY <2>3 DEF Overflow, Kept
    <2>5. IsInjective(Append(grace, p))
      BY <2>1, <2>2, PathGrows DEF AdRest
    <2> QED
      BY <1>1, <2>1, <2>4, <2>5 DEF AdRest
  <1> QED
    BY <1>2, <1>3

LEMMA SeedTyped ==
  ASSUME GraceSuffices, SeatInv, AdRest, NEW p \in Peer, Seed(p) PROVE AdRest'
  <1>0. UNCHANGED <<stale, duty, changes, adding>>
    BY DEF Seed, worldVars
  <1>1. CASE p \in table
    BY <1>0, <1>1, AdRestKept DEF Seed, AdRest
  <1>2. CASE p \notin table /\ ~gated
    BY <1>0, <1>2, AdRestKept DEF Seed, LegacyInsert, AdRest
  <1>3. CASE p \notin table /\ gated /\ armed /\ class[p] = "I"
    <2>1. Promote(p)
      BY <1>3 DEF Seed
    <2>2. PICK d \in GateDecision(p) :
             IF d.how = "refuse" \/ (d.how # "swap" /\ ~RoomInM)
             THEN UNCHANGED <<waitsFor, laneSeen>>
             ELSE /\ GateCommit(p, d)
                  /\ waitsFor' = IF ~RoomInM /\ class[d.victim] = "M" THEN [waitsFor EXCEPT ![p] = d.victim] ELSE waitsFor
      BY <2>1 DEF Promote
    <2>3. grace' = grace
      BY <2>1 DEF Promote
    <2>4. CASE d.how = "refuse" \/ (d.how # "swap" /\ ~RoomInM)
      BY <1>0, <2>2, <2>3, <2>4, AdRestKept DEF AdRest
    <2>5. CASE ~(d.how = "refuse" \/ (d.how # "swap" /\ ~RoomInM))
      <3>1. laneSeen' \subseteq Peer
        BY <2>2, <2>5, CommitTyped
      <3>2. ~RoomInM => d.victim \in Peer
        BY <2>5, VictimSeated DEF SeatInv
      <3>3. waitsFor' \in [Peer -> Peer \cup {Nil}]
        BY <2>2, <2>5, <3>2 DEF AdRest
      <3> QED
        BY <1>0, <2>3, <3>1, <3>3 DEF AdRest
    <2> QED
      BY <2>4, <2>5
  <1>4. CASE p \notin table /\ gated /\ ~(armed /\ class[p] = "I")
    <2>1. AdmitOrImprove(p)
      BY <1>4 DEF Seed
    <2>2. PICK d \in GateDecision(p) :
             IF d.how = "refuse" THEN Refused(p) ELSE GateCommit(p, d) /\ UNCHANGED <<class, waitsFor, grace>>
      BY <2>1 DEF AdmitOrImprove
    <2>3. CASE d.how = "refuse"
      BY <1>0, <2>2, <2>3, RefusedNearCap, RefusedTyped
    <2>4. CASE d.how # "refuse"
      <3>1. laneSeen' \subseteq Peer
        BY <2>2, <2>4, CommitTyped
      <3> QED
        BY <1>0, <2>2, <2>4, <3>1, AdRestKept DEF AdRest
    <2> QED
      BY <2>3, <2>4
  <1> QED
    BY <1>1, <1>2, <1>3, <1>4

LEMMA AdRestStep ==
  ASSUME GraceSuffices, SeatInv, AdRest, [AdNext]_adVars PROVE AdRest'
  <1>0. /\ stale \subseteq Peer /\ duty \subseteq Peer /\ laneSeen \subseteq Peer /\ adding \subseteq Peer
        /\ changes \in 0..MaxChanges
    BY DEF AdRest
  <1>1. ASSUME NEW p \in Peer, NEW c \in {"M", "I", "u"}, PeerBound(p, c) PROVE AdRest'
    BY <1>0, <1>1, AdRestKept DEF PeerBound, worldVars, laneVars
  <1>2. CASE ReconcileBound
    BY <1>0, <1>2, AdRestKept DEF ReconcileBound, worldVars, laneVars
  <1>3. CASE GraceFire
    <2>1. grace' = Append(Tail(grace), Head(grace)) \/ grace' = Tail(grace)
      BY <1>3 DEF GraceFire
    <2>2. grace # <<>> /\ UNCHANGED <<waitsFor, stale, duty, changes, laneSeen, adding>>
      BY <1>3 DEF GraceFire, worldVars, laneVars
    <2>3. IsInjective(grace')
      BY <2>1, <2>2, FiredOnce DEF SeatInv, AdRest
    <2> QED
      BY <1>0, <2>2, <2>3 DEF AdRest
  <1>4. ASSUME NEW p \in Peer, Seed(p) PROVE AdRest'
    BY <1>4, SeedTyped
  <1>5. ASSUME NEW p \in Peer, CloseConfirmed(p) \/ PeerDied(p) PROVE AdRest'
    <2>1. Ended1(p) /\ UNCHANGED <<grace, duty, laneSeen, adding>> /\ stale' = stale \ {p}
      BY <1>5 DEF CloseConfirmed, PeerDied, laneVars
    <2>2. waitsFor' = [q \in Peer |-> IF q = p \/ waitsFor[q] = p THEN Nil ELSE waitsFor[q]]
      BY <2>1 DEF Ended1
    <2>3. waitsFor' \in [Peer -> Peer \cup {Nil}]
      BY <2>2 DEF AdRest
    <2>4. changes' \in 0..MaxChanges
      BY <1>0, <1>5, AdmissionAssumption DEF CloseConfirmed, PeerDied
    <2> QED
      BY <1>0, <2>1, <2>3, <2>4 DEF AdRest
  <1>6. ASSUME NEW p \in Peer, Silent(p) \/ DutyChange(p) PROVE AdRest'
    <2>1. /\ UNCHANGED <<grace, waitsFor, laneSeen, adding>> /\ changes < MaxChanges /\ changes' = changes + 1
          /\ stale' \subseteq Peer /\ duty' \subseteq Peer
      BY <1>0, <1>6 DEF Silent, DutyChange, laneVars
    <2>2. changes' \in 0..MaxChanges
      BY <1>0, <2>1, AdmissionAssumption
    <2> QED
      BY <1>0, <2>1, <2>2, AdRestKept
  <1>7. ASSUME NEW p \in Peer, LaneTime(p) \/ AddByVitality(p) PROVE AdRest'
    BY <1>0, <1>7, AdRestKept DEF LaneTime, AddByVitality, worldVars, laneVars
  <1>8. ASSUME NEW p \in Peer, Opened1(p) PROVE AdRest'
    BY <1>0, <1>8, AdRestKept DEF Opened1, LegacyInsert, worldVars
  <1>9. CASE UNCHANGED adVars
    BY <1>0, <1>9, AdRestKept DEF adVars
  <1> QED
    BY <1>1, <1>2, <1>3, <1>4, <1>5, <1>6, <1>7, <1>8, <1>9 DEF AdNext

\* A refused peer has one grace timer, however often it is refused, and the
\* channel a transfer waits for is a peer's (_gateDecision, _promote, the grace
\* closes).
THEOREM AdmissionTypesAlways == ASSUME GraceSuffices PROVE AdSpec => []AdTypeOK
  <1>1. SeatInv /\ AdRest => AdTypeOK
    BY DEF SeatInv, AdRest, AdTypeOK, BoundPeers
  <1>2. SeatInv /\ AdRest /\ [AdNext]_adVars => SeatInv' /\ AdRest'
    BY SeatStep, AdRestStep
  <1> QED
    BY <1>1, <1>2, SeatInit, AdRestInit, PTL DEF AdSpec

-----------------------------------------------------------------------------
(***************************************************************************)
(* The composition: a step of it is a step of a component or of none.       *)
(***************************************************************************)
\* Every variable of the nine components stays in its type, whichever of them
\* moves (CompositeTransport, SocketServer, AxonaPeer, AdmissionGate, the fill,
\* topicStore.js, AxonaManager's retries, topicLifetime.js).
THEOREM NetTypes == ASSUME GraceSuffices PROVE NetSpec => []NetTypeOK
  <1>1. NetInit => RqInit /\ SsInit /\ LkInit /\ SrInit /\ AdInit /\ FlInit /\ KiInit /\ ClInit /\ LtInit
    BY DEF NetInit
  <1>2. [NetNext]_netVars =>
          /\ [RqNext]_rqVars /\ [SsNext]_ssVars /\ [LkNext]_lkVars /\ [SrNext]_srVars /\ [AdNext]_adVars
          /\ [FlNext]_flVars /\ [KiNext]_kiVars /\ [ClNext]_clVars /\ [LtNext]_ltVars
    BY DEF NetNext, netVars
  <1>3. AdSpec => []AdTypeOK
    BY AdmissionTypesAlways
  <1>4. RoutesInv /\ ServerInv /\ ClientInv => RqTypeOK /\ SsTypeOK /\ ClTypeOK
    BY DEF RoutesInv, ServerInv, ClientInv
  <1>5. RqTypeOK /\ SsTypeOK /\ LkTypeOK /\ SrTypeOK /\ AdTypeOK /\ FlTypeOK /\ KiTypeOK /\ ClTypeOK /\ LtTypeOK
          => NetTypeOK
    BY DEF NetTypeOK
  <1> QED
    BY <1>1, <1>2, <1>3, <1>4, <1>5, RoutesInit, RoutesStep, ServerInit, ServerStep, ClientInit, ClientStep,
       LookupTypesAlways, RelayTypesAlways, FillTypesAlways, KillTypesAlways, LifetimeTypesAlways, PTL
       DEF NetSpec, RqSpec, SsSpec, LkSpec, SrSpec, AdSpec, FlSpec, KiSpec, ClSpec, LtSpec
=============================================================================
