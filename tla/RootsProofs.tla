----------------------------- MODULE RootsProofs ----------------------------
(***************************************************************************)
(* The roots of a topic: who holds its messages through claims and           *)
(* step-downs, for any number of nodes, faults and epochs; and the           *)
(* durability ledger, which keeps the promise of Obligation for every number *)
(* of roles, messages and rounds under way, and every value of the caps.     *)
(***************************************************************************)
EXTENDS MCRoots, FiniteSetTheorems, WellFoundedInduction, TLAPS

(***************************************************************************)
(* The claim.                                                                *)
(***************************************************************************)
SeatType == [kind : {"none", "child", "root"}, epoch : 0..MaxEpoch, body : BOOLEAN, pin : 0..RootN]
RecType == [root : 0..RootN, epoch : 0..MaxEpoch, fresh : BOOLEAN, verified : BOOLEAN]
HoldType == [to : 0..RootN, won : BOOLEAN, late : BOOLEAN]
CandType == [id : 0..RootN, epoch : 0..MaxEpoch]
BeaconType == [root : Rank, epoch : 1..MaxEpoch, to : Rank, layer : 1..BeaconLayers]
ForwardType == [root : 0..RootN, same : BOOLEAN]

\* A root has an epoch, and names no merge with itself.
ClaimsApart ==
    /\ \A n \in Rank : IsRoot(n) => seat[n].epoch > 0
    /\ \A n \in Rank : rival[n].id # n

ClaimInv == ReTypeOK /\ ClaimsApart /\ BodyKept

LEMMA ElectionTypes ==
    ReTypeOK <=>
    /\ alive \subseteq Rank /\ nbr \in [Rank -> SUBSET Rank]
    /\ seat \in [Rank -> SeatType] /\ rec \in [Rank -> RecType] /\ hold \in [Rank -> HoldType]
    /\ rival \in [Rank -> CandType] /\ beacons \subseteq BeaconType /\ forward \in [Rank -> ForwardType]
    /\ visited \in [Rank -> 0..RootN] /\ kept \in BOOLEAN /\ mishaps \in 0..MaxMishap /\ silent \in BOOLEAN
  BY DEF ReTypeOK, SeatType, RecType, HoldType, CandType, BeaconType, ForwardType

LEMMA Ranks == Rank \subseteq 0..RootN /\ NoOne \in 0..RootN /\ NoOne \notin Rank /\ 0 \in 0..MaxEpoch /\ 0..RootN = Rank \cup {NoOne}
  BY ElectionAssumption DEF Rank, NoOne

LEMMA Blanks == NoSeat \in SeatType /\ NoRec \in RecType /\ NoHold \in HoldType /\ NoCand \in CandType /\ NoForward \in ForwardType
  BY Ranks DEF NoSeat, NoRec, NoHold, NoCand, NoForward, SeatType, RecType, HoldType, CandType, ForwardType

LEMMA ClaimInit == ReInit => ClaimInv
  <1> SUFFICES ASSUME ReInit PROVE ClaimInv
    OBVIOUS
  <1>1. /\ alive \subseteq Rank /\ nbr \in [Rank -> SUBSET Rank]
        /\ seat \in [Rank -> SeatType] /\ rec \in [Rank -> RecType] /\ hold \in [Rank -> HoldType]
        /\ rival \in [Rank -> CandType] /\ forward \in [Rank -> ForwardType]
    BY Blanks DEF ReInit
  <1>2. beacons \subseteq BeaconType /\ visited \in [Rank -> 0..RootN] /\ kept \in BOOLEAN /\ silent \in BOOLEAN
    BY Ranks DEF ReInit
  <1>3. mishaps \in 0..MaxMishap
    BY ElectionAssumption DEF ReInit
  <1>4. ReTypeOK
    BY <1>1, <1>2, <1>3, ElectionTypes
  <1>5. ClaimsApart
    BY Ranks DEF ReInit, ClaimsApart, IsRoot, NoSeat, NoCand
  <1>6. BodyKept
    BY DEF ReInit, BodyKept
  <1> QED
    BY <1>4, <1>5, <1>6 DEF ClaimInv

\* What a node takes for an epoch, and for a root, is one.
LEMMA Known ==
  ASSUME ReTypeOK, NEW n \in Rank
  PROVE  KnownEpoch(n) \in 0..MaxEpoch /\ LiveCloserRoot(n, TRUE) \in 0..RootN /\ LiveCloserRoot(n, FALSE) \in 0..RootN
         /\ HoldTarget(n) \in 0..RootN
  <1>1. seat[n] \in SeatType /\ rec[n] \in RecType /\ hold[n] \in HoldType
    BY ElectionTypes
  <1>2. KnownEpoch(n) \in 0..MaxEpoch
    BY <1>1 DEF KnownEpoch, SeatType, RecType
  <1>3. LiveCloserRoot(n, TRUE) \in 0..RootN /\ LiveCloserRoot(n, FALSE) \in 0..RootN
    BY <1>1, Ranks DEF LiveCloserRoot, RecType
  <1>4. HoldTarget(n) \in 0..RootN
    BY <1>1, Ranks DEF HoldTarget, HoldType
  <1> QED
    BY <1>2, <1>3, <1>4

\* A claim is taken with the next epoch and what the node holds.
LEMMA Taken ==
  ASSUME ReTypeOK, NEW n \in Rank, NEW body \in BOOLEAN, TakeRoot(n, body)
  PROVE  /\ seat' \in [Rank -> SeatType] /\ hold' \in [Rank -> HoldType]
         /\ KnownEpoch(n) + 1 \in 1..MaxEpoch
         /\ seat'[n].kind = "root" /\ seat'[n].body = body /\ seat'[n].epoch > 0
         /\ \A m \in Rank \ {n} : seat'[m] = seat[m]
  <1>1. KnownEpoch(n) \in 0..MaxEpoch /\ KnownEpoch(n) < MaxEpoch
    BY Known DEF TakeRoot
  <1>2. KnownEpoch(n) + 1 \in 1..MaxEpoch
    BY <1>1, ElectionAssumption
  <1>3. AsRoot(n, body) \in SeatType
    BY <1>2, Ranks DEF AsRoot, SeatType
  <1>4. seat \in [Rank -> SeatType] /\ hold \in [Rank -> HoldType]
    BY ElectionTypes
  <1>5. seat' = [seat EXCEPT ![n] = AsRoot(n, body)] /\ hold' = [hold EXCEPT ![n] = NoHold]
    BY DEF TakeRoot
  <1>6. seat'[n] = AsRoot(n, body) /\ \A m \in Rank \ {n} : seat'[m] = seat[m]
    BY <1>4, <1>5
  <1> QED
    BY <1>2, <1>3, <1>4, <1>5, <1>6, Blanks DEF AsRoot

LEMMA Announcing ==
  ASSUME ReTypeOK, NEW n \in Rank, NEW e \in 1..MaxEpoch
  PROVE  Announced(n, e) \subseteq BeaconType
  <1>1. nbr[n] \subseteq Rank /\ BeaconLayers \in 1..BeaconLayers
    BY ElectionTypes, ElectionAssumption
  <1> QED
    BY <1>1 DEF Announced, BeaconType

LEMMA Flooding ==
  ASSUME NEW B \in SUBSET BeaconType, NEW bs \in SUBSET BeaconType, beacons' \in Flooded(B, bs)
  PROVE  beacons' \subseteq BeaconType
  BY DEF Flooded

LEMMA Recording ==
  ASSUME ReTypeOK, NEW n \in Rank, NEW r \in RecType, SetRecord(n, r)
  PROVE  rec' \in [Rank -> RecType] /\ forward' \in [Rank -> ForwardType]
  <1>1. rec \in [Rank -> RecType] /\ forward \in [Rank -> ForwardType]
    BY ElectionTypes
  <1>2. rec' \in [Rank -> RecType]
    BY <1>1 DEF SetRecord
  <1>3. [forward[n] EXCEPT !.same = FALSE] \in ForwardType
    BY <1>1 DEF ForwardType
  <1>4. forward' \in [Rank -> ForwardType]
    BY <1>1, <1>3 DEF SetRecord
  <1> QED
    BY <1>2, <1>4

\* A seat whose claim is shed keeps its body.
LEMMA Demoting ==
  ASSUME ReTypeOK, NEW n \in Rank, NEW w \in Rank, NEW won \in BOOLEAN
  PROVE  /\ Demoted(n, w) \in SeatType /\ Demoted(n, w).kind = "child" /\ Demoted(n, w).body = seat[n].body
         /\ HeldFor(n, w, won) \in HoldType
  <1>1. seat[n] \in SeatType /\ hold[n] \in HoldType
    BY ElectionTypes
  <1>2. /\ Demoted(n, w) \in SeatType /\ Demoted(n, w).kind = "child" /\ Demoted(n, w).body = seat[n].body
    BY <1>1, Ranks DEF Demoted, SeatType
  <1>3. [to |-> w, won |-> won, late |-> FALSE] \in HoldType
    BY Ranks DEF HoldType
  <1>4. HeldFor(n, w, won) \in HoldType
    BY <1>1, <1>3 DEF HeldFor
  <1> QED
    BY <1>2, <1>4

\* _mergeCandidate, on the seats s of the moment, which may have one body more:
\* nobody loses custody but a root that holds nothing.
LEMMA Candidate ==
  ASSUME ReTypeOK, ClaimsApart, NEW s \in [Rank -> SeatType], NEW n \in Rank, NEW w \in Rank, NEW e \in 0..MaxEpoch,
         \A m \in Rank : s[m].kind = seat[m].kind /\ s[m].epoch = seat[m].epoch /\ (seat[m].body => s[m].body),
         n # w => s[n] = seat[n],
         MergeCandidate(s, n, w, e)
  PROVE  /\ seat' \in [Rank -> SeatType] /\ hold' \in [Rank -> HoldType] /\ rival' \in [Rank -> CandType]
         /\ \A m \in Rank : rival'[m].id # m
         /\ \A m \in Rank : seat'[m].kind = "root" => seat'[m].epoch > 0
         /\ \A m \in Rank : s[m].kind = "root" /\ s[m].body => seat'[m].kind = "root" /\ seat'[m].body
  <1>1. seat \in [Rank -> SeatType] /\ hold \in [Rank -> HoldType] /\ rival \in [Rank -> CandType]
    BY ElectionTypes
  <1>2. \A m \in Rank : rival[m].id # m
    BY DEF ClaimsApart
  <1>3. \A m \in Rank : s[m].kind = "root" => s[m].epoch > 0
    BY DEF ClaimsApart, IsRoot
  <1>4. CASE ~IsRoot(n) \/ w = n
    <2>1. seat' = s /\ hold' = hold /\ rival' = rival
      BY <1>4 DEF MergeCandidate
    <2> QED
      BY <2>1, <1>1, <1>2, <1>3
  <1>5. CASE IsRoot(n) /\ w # n /\ ~HoldsBody(n)
    <2>1. /\ seat' = [s EXCEPT ![n] = Demoted(n, w)]
          /\ hold' = [hold EXCEPT ![n] = HeldFor(n, w, FALSE)]
          /\ rival' = [rival EXCEPT ![n] = NoCand]
      BY <1>5 DEF MergeCandidate
    <2>2. /\ Demoted(n, w) \in SeatType /\ Demoted(n, w).kind = "child"
          /\ HeldFor(n, w, FALSE) \in HoldType
      BY Demoting
    <2>3. seat'[n] = Demoted(n, w) /\ \A m \in Rank \ {n} : seat'[m] = s[m]
      BY <2>1
    <2>4. ~s[n].body
      BY <1>5 DEF HoldsBody
    <2>5. rival' \in [Rank -> CandType] /\ \A m \in Rank : rival'[m].id # m
      BY <2>1, <1>1, <1>2, Blanks, Ranks DEF NoCand
    <2>6. seat' \in [Rank -> SeatType] /\ hold' \in [Rank -> HoldType]
      BY <2>1, <2>2, <1>1
    <2> QED
      BY <2>2, <2>3, <2>4, <2>5, <2>6, <1>3
  <1>6. CASE IsRoot(n) /\ w # n /\ HoldsBody(n)
    <2>1. seat' = s /\ hold' = hold /\ rival' \in {rival, [rival EXCEPT ![n] = [id |-> w, epoch |-> e]]}
      BY <1>6 DEF MergeCandidate
    <2>2. [id |-> w, epoch |-> e] \in CandType
      BY Ranks DEF CandType
    <2>3. rival' \in [Rank -> CandType] /\ \A m \in Rank : rival'[m].id # m
      BY <2>1, <2>2, <1>1, <1>2, <1>6
    <2> QED
      BY <2>1, <2>3, <1>1, <1>3
  <1> QED
    BY <1>4, <1>5, <1>6

\* Custody that stays where it is keeps the message.
LEMMA KeptOn ==
  ASSUME BodyKept, kept' => kept, silent' => silent, silent => silent', alive \subseteq Rank,
         \A m \in alive : Custody(m) => m \in alive' /\ Custody(m)'
  PROVE  BodyKept'
  BY DEF BodyKept

LEMMA Typed ==
  ASSUME alive' \subseteq Rank, nbr' \in [Rank -> SUBSET Rank],
         seat' \in [Rank -> SeatType], rec' \in [Rank -> RecType], hold' \in [Rank -> HoldType],
         rival' \in [Rank -> CandType], beacons' \subseteq BeaconType, forward' \in [Rank -> ForwardType],
         visited' \in [Rank -> 0..RootN], kept' \in BOOLEAN, mishaps' \in 0..MaxMishap, silent' \in BOOLEAN
  PROVE  ReTypeOK'
  BY DEF ReTypeOK, SeatType, RecType, HoldType, CandType, BeaconType, ForwardType

LEMMA OneMishap == ReTypeOK /\ Mishap => mishaps' \in 0..MaxMishap
  BY ElectionAssumption DEF ReTypeOK, Mishap

\* A claim is taken over what the node holds, announced, and no rival changes.
LEMMA TakenKeeps ==
  ASSUME ClaimInv, NEW n \in Rank, NEW body \in BOOLEAN, TakeRoot(n, body), IsRoot(n) => body,
         beacons' \subseteq BeaconType, alive' = alive, kept' = kept \/ (n \in alive /\ body /\ kept' = TRUE),
         UNCHANGED <<nbr, rec, rival, forward, visited, mishaps, silent>>
  PROVE  ClaimInv'
  <1>1. ReTypeOK /\ ClaimsApart /\ BodyKept
    BY DEF ClaimInv
  <1>2. /\ seat' \in [Rank -> SeatType] /\ hold' \in [Rank -> HoldType]
        /\ seat'[n].kind = "root" /\ seat'[n].body = body /\ seat'[n].epoch > 0
        /\ \A m \in Rank \ {n} : seat'[m] = seat[m]
    BY <1>1, Taken
  <1>3. kept' \in BOOLEAN
    BY <1>1, ElectionTypes
  <1>4. ReTypeOK'
    BY <1>1, <1>2, <1>3, ElectionTypes, Typed
  <1>5. ClaimsApart'
    BY <1>1, <1>2 DEF ClaimsApart, IsRoot
  <1>6. BodyKept'
    <2>1. CASE kept' = kept
      <3>1. \A m \in alive : Custody(m) => m \in alive' /\ Custody(m)'
        BY <1>1, <1>2, ElectionTypes DEF Custody, IsRoot
      <3> QED
        BY <2>1, <3>1, <1>1, ElectionTypes, KeptOn
    <2>2. CASE n \in alive /\ body
      <3>1. n \in alive' /\ Custody(n)'
        BY <2>2, <1>2 DEF Custody, IsRoot
      <3> QED
        BY <3>1 DEF BodyKept
    <2> QED
      BY <2>1, <2>2
  <1> QED
    BY <1>4, <1>5, <1>6 DEF ClaimInv

LEMMA SubscribeKeeps ==
  ASSUME ClaimInv, NEW n \in Rank, OnSubscribe(n) \/ ClaimReachable(n)
  PROVE  ClaimInv'
  <1>1. ReTypeOK
    BY DEF ClaimInv
  <1>2. /\ TakeRoot(n, seat[n].body) /\ ~IsRoot(n)
        /\ beacons' \in Flooded(beacons, Announced(n, KnownEpoch(n) + 1)) \cup Flooded(beacons, {})
        /\ alive' = alive /\ kept' = kept
        /\ UNCHANGED <<nbr, rec, rival, forward, visited, mishaps, silent>>
    BY DEF OnSubscribe, ClaimReachable
  <1>3. seat[n].body \in BOOLEAN /\ beacons \in SUBSET BeaconType
    BY <1>1, ElectionTypes DEF SeatType
  <1>4. KnownEpoch(n) + 1 \in 1..MaxEpoch
    BY <1>1, <1>2, <1>3, Taken
  <1>5. Announced(n, KnownEpoch(n) + 1) \in SUBSET BeaconType
    BY <1>1, <1>4, Announcing
  <1>6. beacons' \subseteq BeaconType
    BY <1>2, <1>3, <1>5, Flooding
  <1>7. PICK body \in BOOLEAN : body = seat[n].body
    BY <1>3
  <1>8. TakeRoot(n, body) /\ ~IsRoot(n) /\ alive' = alive /\ kept' = kept
    BY <1>2, <1>7 DEF TakeRoot
  <1>9. UNCHANGED <<nbr, rec, rival, forward, visited, mishaps, silent>>
    BY <1>2
  <1>10. \A b \in BOOLEAN : TakeRoot(n, b) => ClaimInv'
    BY <1>6, <1>8, <1>9, TakenKeeps, Zenon
  <1> QED
    BY <1>8, <1>10, Zenon

LEMMA PubKeeps ==
  ASSUME ClaimInv, NEW n \in Rank, OnPub(n)
  PROVE  ClaimInv'
  <1>1. ReTypeOK /\ ClaimsApart
    BY DEF ClaimInv
  <1>2. /\ kept' = TRUE /\ alive' = alive /\ n \in alive
        /\ UNCHANGED <<nbr, rec, rival, forward, visited, mishaps, silent>>
    BY DEF OnPub, IsTerminal
  <1>3. beacons \in SUBSET BeaconType /\ seat \in [Rank -> SeatType]
    BY <1>1, ElectionTypes
  <1>4. CASE IsRoot(n) /\ seat' = [seat EXCEPT ![n].body = TRUE] /\ UNCHANGED <<hold, beacons>>
    <2>1. [seat[n] EXCEPT !.body = TRUE] \in SeatType
      BY <1>3 DEF SeatType
    <2>2. seat' \in [Rank -> SeatType]
      BY <1>3, <1>4, <2>1
    <2>3. seat[n] \in SeatType /\ seat'[n] = [seat[n] EXCEPT !.body = TRUE] /\ \A m \in Rank \ {n} : seat'[m] = seat[m]
      BY <1>3, <1>4
    <2>4. seat'[n].body /\ seat'[n].kind = "root" /\ seat'[n].epoch = seat[n].epoch
      BY <2>3, <1>4 DEF SeatType, IsRoot
    <2>5. ReTypeOK'
      BY <1>1, <1>2, <1>4, <2>2, ElectionTypes, Typed
    <2>6. ClaimsApart'
      BY <1>1, <1>2, <1>4, <2>3, <2>4 DEF ClaimsApart, IsRoot
    <2>7. BodyKept'
      BY <1>2, <2>4 DEF BodyKept, Custody, IsRoot
    <2> QED
      BY <2>5, <2>6, <2>7 DEF ClaimInv
  <1>5. CASE TakeRoot(n, TRUE) /\ beacons' \in Flooded(beacons, Announced(n, KnownEpoch(n) + 1))
    <2>1. KnownEpoch(n) + 1 \in 1..MaxEpoch
      BY <1>1, <1>5, Taken
    <2>2. Announced(n, KnownEpoch(n) + 1) \in SUBSET BeaconType
      BY <1>1, <2>1, Announcing
    <2>3. beacons' \subseteq BeaconType
      BY <1>3, <1>5, <2>2, Flooding
    <2> QED
      BY <1>2, <1>5, <2>3, TakenKeeps
  <1> QED
    BY <1>4, <1>5 DEF OnPub

\* What leaves the seats, the rivals and the nodes as they are.
LEMMA ClaimsUntouched ==
  ASSUME ClaimInv, ReTypeOK', UNCHANGED <<alive, seat, rival, kept, silent>>
  PROVE  ClaimInv'
  <1>1. ClaimsApart'
    BY DEF ClaimInv, ClaimsApart, IsRoot
  <1>2. BodyKept'
    BY DEF ClaimInv, BodyKept, Custody, IsRoot
  <1> QED
    BY <1>1, <1>2 DEF ClaimInv

LEMMA ForwardKeeps ==
  ASSUME ClaimInv, NEW n \in Rank, ForwardPub(n) \/ ForwardFailed(n)
  PROVE  ClaimInv'
  <1>1. ReTypeOK
    BY DEF ClaimInv
  <1>2. forward \in [Rank -> ForwardType] /\ rec \in [Rank -> RecType]
    BY <1>1, ElectionTypes
  <1>3. UNCHANGED <<alive, nbr, seat, hold, rival, beacons, visited, kept, mishaps, silent>>
    BY DEF ForwardPub, ForwardFailed
  <1>4. forward' \in [Rank -> ForwardType] /\ rec' \in [Rank -> RecType]
    <2>1. CASE ForwardPub(n)
      <3>1. PICK to \in {HoldTarget(n), LiveCloserRoot(n, FALSE)} :
              forward' = [forward EXCEPT ![n] = [root |-> to, same |-> rec[n].root = to]] /\ rec' = rec
        BY <2>1 DEF ForwardPub
      <3>2. [root |-> to, same |-> rec[n].root = to] \in ForwardType
        BY <1>1, Known DEF ForwardType
      <3> QED
        BY <1>2, <3>1, <3>2
    <2>2. CASE ForwardFailed(n)
      BY <2>2, <1>2, Blanks DEF ForwardFailed
    <2> QED
      BY <2>1, <2>2
  <1>5. ReTypeOK'
    BY <1>1, <1>3, <1>4, ElectionTypes, Typed
  <1> QED
    BY <1>3, <1>5, ClaimsUntouched

\* The named root stamps the write, and the forwarder learns of it.
LEMMA ConsumedKeeps ==
  ASSUME ClaimInv, NEW n \in Rank, ForwardConsumed(n)
  PROVE  ClaimInv'
  <1>1. ReTypeOK /\ ClaimsApart /\ BodyKept
    BY DEF ClaimInv
  <1>w. PICK w \in Rank : w = forward[n].root /\ w \in alive
    BY <1>1, ElectionTypes DEF ForwardConsumed
  <1> DEFINE stamps == IsRoot(w) /\ LiveCloserRoot(w, FALSE) = NoOne
             s == IF stamps THEN [seat EXCEPT ![w].body = TRUE] ELSE seat
  <1>2. /\ w \in alive /\ forward' = [forward EXCEPT ![n] = NoForward] /\ MergeCandidate(s, n, w, 0)
        /\ kept' = (kept \/ stamps)
        /\ UNCHANGED <<alive, nbr, rec, beacons, visited, mishaps, silent>>
    BY <1>w DEF ForwardConsumed
  <1>3. w \in Rank /\ seat \in [Rank -> SeatType] /\ forward \in [Rank -> ForwardType] /\ alive \subseteq Rank
    BY <1>1, ElectionTypes
  <1>4. stamps \in BOOLEAN
    OBVIOUS
  <1>5. seat[w] \in SeatType /\ [seat[w] EXCEPT !.body = TRUE] \in SeatType
    BY <1>3 DEF SeatType
  <1>6. s \in [Rank -> SeatType]
    BY <1>3, <1>5
  <1>7. /\ \A m \in Rank : s[m].kind = seat[m].kind /\ s[m].epoch = seat[m].epoch /\ (seat[m].body => s[m].body)
        /\ n # w => s[n] = seat[n]
        /\ stamps => s[w].kind = "root" /\ s[w].body
    <2>1. CASE ~stamps
      BY <2>1
    <2>2. CASE stamps
      <3>1. s[w] = [seat[w] EXCEPT !.body = TRUE] /\ \A m \in Rank \ {w} : s[m] = seat[m]
        BY <2>2, <1>3
      <3>2. s[w].kind = seat[w].kind /\ s[w].epoch = seat[w].epoch /\ s[w].body
        BY <1>5, <3>1 DEF SeatType
      <3> QED
        BY <2>2, <3>1, <3>2 DEF IsRoot
    <2> QED
      BY <2>1, <2>2
  <1> HIDE DEF stamps, s
  <1>8. /\ seat' \in [Rank -> SeatType] /\ hold' \in [Rank -> HoldType] /\ rival' \in [Rank -> CandType]
        /\ \A m \in Rank : rival'[m].id # m
        /\ \A m \in Rank : seat'[m].kind = "root" => seat'[m].epoch > 0
        /\ \A m \in Rank : s[m].kind = "root" /\ s[m].body => seat'[m].kind = "root" /\ seat'[m].body
    BY <1>1, <1>2, <1>3, <1>6, <1>7, Ranks, Candidate
  <1>9. ReTypeOK'
    <2>1. forward' \in [Rank -> ForwardType] /\ kept' \in BOOLEAN
      BY <1>1, <1>2, <1>3, <1>4, Blanks, ElectionTypes
    <2> QED
      BY <2>1, <1>1, <1>2, <1>8, ElectionTypes, Typed
  <1>10. ClaimsApart'
    BY <1>8 DEF ClaimsApart, IsRoot
  <1>11. BodyKept'
    <2>1. CASE stamps
      BY <2>1, <1>2, <1>3, <1>7, <1>8 DEF BodyKept, Custody, IsRoot
    <2>2. CASE ~stamps
      <3>1. \A m \in alive : Custody(m) => m \in alive' /\ Custody(m)'
        BY <1>2, <1>3, <1>7, <1>8 DEF Custody, IsRoot
      <3>2. kept' = kept
        BY <2>2, <1>1, <1>2, ElectionTypes
      <3> QED
        BY <3>1, <3>2, <1>1, <1>2, <1>3, KeptOn
    <2> QED
      BY <2>1, <2>2
  <1> QED
    BY <1>9, <1>10, <1>11 DEF ClaimInv

\* A winner is named, and the claims are otherwise as they were.
LEMMA NamedKeeps ==
  ASSUME ClaimInv, NEW n \in Rank, NEW w \in Rank, NEW e \in 0..MaxEpoch, MergeCandidate(seat, n, w, e),
         rec' \in [Rank -> RecType], forward' \in [Rank -> ForwardType], beacons' \subseteq BeaconType,
         visited' \in [Rank -> 0..RootN], UNCHANGED <<alive, nbr, kept, mishaps, silent>>
  PROVE  ClaimInv'
  <1>1. ReTypeOK /\ ClaimsApart /\ BodyKept
    BY DEF ClaimInv
  <1>2. seat \in [Rank -> SeatType] /\ alive \subseteq Rank
    BY <1>1, ElectionTypes
  <1>3. /\ seat' \in [Rank -> SeatType] /\ hold' \in [Rank -> HoldType] /\ rival' \in [Rank -> CandType]
        /\ \A m \in Rank : rival'[m].id # m
        /\ \A m \in Rank : seat'[m].kind = "root" => seat'[m].epoch > 0
        /\ \A m \in Rank : seat[m].kind = "root" /\ seat[m].body => seat'[m].kind = "root" /\ seat'[m].body
    BY <1>1, <1>2, Candidate
  <1>4. ReTypeOK'
    BY <1>1, <1>3, ElectionTypes, Typed
  <1>5. ClaimsApart'
    BY <1>3 DEF ClaimsApart, IsRoot
  <1>6. \A m \in alive : Custody(m) => m \in alive' /\ Custody(m)'
    BY <1>2, <1>3 DEF Custody, IsRoot
  <1>7. BodyKept'
    BY <1>1, <1>2, <1>6, KeptOn
  <1> QED
    BY <1>4, <1>5, <1>7 DEF ClaimInv

LEMMA EmitKeeps ==
  ASSUME ClaimInv, NEW n \in Rank, EmitRootBeacons(n)
  PROVE  ClaimInv'
  <1>1. ReTypeOK /\ ClaimsApart
    BY DEF ClaimInv
  <1>2. beacons \in SUBSET BeaconType /\ seat[n] \in SeatType
    BY <1>1, ElectionTypes
  <1>3. seat[n].epoch \in 1..MaxEpoch
    BY <1>1, <1>2 DEF EmitRootBeacons, ClaimsApart, SeatType
  <1>4. Announced(n, seat[n].epoch) \in SUBSET BeaconType
    BY <1>1, <1>3, Announcing
  <1>5. beacons' \subseteq BeaconType
    BY <1>2, <1>4, Flooding DEF EmitRootBeacons
  <1>6. UNCHANGED <<alive, nbr, seat, rec, hold, rival, forward, visited, kept, mishaps, silent>>
    BY DEF EmitRootBeacons
  <1>7. ReTypeOK'
    BY <1>1, <1>5, <1>6, ElectionTypes, Typed
  <1> QED
    BY <1>6, <1>7, ClaimsUntouched

LEMMA BeaconKeeps ==
  ASSUME ClaimInv, NEW b \in beacons, OnRootBeacon(b)
  PROVE  ClaimInv'
  <1>1. ReTypeOK
    BY DEF ClaimInv
  <1>2. b \in BeaconType /\ beacons \in SUBSET BeaconType
    BY <1>1, ElectionTypes
  <1>3. PICK n \in Rank : n = b.to
    BY <1>2 DEF BeaconType
  <1>4. PICK w \in Rank : w = b.root
    BY <1>2 DEF BeaconType
  <1>5. PICK e \in 0..MaxEpoch : e = b.epoch
    BY <1>2 DEF BeaconType
  <1> DEFINE believed == Supersedes(n, e) \/ w <= BestKnown(n)
             high == IF rec[n].epoch > e THEN rec[n].epoch ELSE e
             fresh == [hold EXCEPT ![n].late = @ /\ ~(hold[n].won /\ hold[n].to = w)]
             heard == [root |-> w, epoch |-> high, fresh |-> TRUE, verified |-> FALSE]
  <1>6. /\ beacons' \in Flooded(beacons \ {b}, Relayed(b))
        /\ SetRecord(n, heard) \/ UNCHANGED <<rec, forward>>
        /\ MergeCandidate(seat, n, w, e) \/ (hold' = fresh /\ UNCHANGED <<seat, rival>>)
        /\ UNCHANGED <<alive, nbr, visited, kept, mishaps, silent>>
    BY <1>3, <1>4, <1>5 DEF OnRootBeacon
  <1>7. hold \in [Rank -> HoldType] /\ rec \in [Rank -> RecType] /\ nbr[n] \subseteq Rank /\ seat \in [Rank -> SeatType]
        /\ forward \in [Rank -> ForwardType]
    BY <1>1, ElectionTypes
  <1>8. Relayed(b) \in SUBSET BeaconType
    <2>1. ASSUME b.layer # 1, NEW m \in Rank
          PROVE  [b EXCEPT !.to = m, !.layer = b.layer - 1] \in BeaconType
      <3>1. b.layer - 1 \in 1..BeaconLayers
        BY <2>1, <1>2, ElectionAssumption DEF BeaconType
      <3> QED
        BY <3>1, <1>2 DEF BeaconType
    <2> QED
      BY <2>1, <1>3, <1>7 DEF Relayed
  <1>9. beacons' \subseteq BeaconType
    BY <1>2, <1>6, <1>8, Flooding
  <1>10. rec' \in [Rank -> RecType] /\ forward' \in [Rank -> ForwardType]
    <2>1. high \in 0..MaxEpoch
      BY <1>7 DEF RecType
    <2>2. heard \in RecType
      BY <2>1, Ranks DEF RecType
    <2>3. CASE SetRecord(n, heard)
      <3>1. PICK r \in RecType : r = heard
        BY <2>2
      <3>2. SetRecord(n, r)
        BY <2>3, <3>1 DEF SetRecord
      <3> QED
        BY <3>2, <1>1, Recording
    <2> QED
      BY <1>6, <1>7, <2>3
  <1>11. CASE MergeCandidate(seat, n, w, e)
    <2>1. visited' \in [Rank -> 0..RootN]
      BY <1>1, <1>6, ElectionTypes
    <2>2. UNCHANGED <<alive, nbr, kept, mishaps, silent>>
      BY <1>6
    <2> QED
      BY <1>9, <1>10, <1>11, <2>1, <2>2, NamedKeeps
  <1>12. CASE hold' = fresh /\ UNCHANGED <<seat, rival>>
    <2>1. [hold[n] EXCEPT !.late = @ /\ ~(hold[n].won /\ hold[n].to = w)] \in HoldType
      BY <1>7 DEF HoldType
    <2>2. hold' \in [Rank -> HoldType]
      BY <1>7, <1>12, <2>1
    <2>3. ReTypeOK'
      BY <1>1, <1>6, <1>9, <1>10, <1>12, <2>2, ElectionTypes, Typed
    <2> QED
      BY <1>6, <1>12, <2>3, ClaimsUntouched
  <1> QED
    BY <1>6, <1>11, <1>12

LEMMA VerifyKeeps ==
  ASSUME ClaimInv, NEW n \in Rank, VerifyBegin(n) \/ VerifyEnd(n)
  PROVE  ClaimInv'
  <1>1. ReTypeOK
    BY DEF ClaimInv
  <1>2. visited \in [Rank -> 0..RootN] /\ seat \in [Rank -> SeatType] /\ alive \subseteq Rank /\ beacons \subseteq BeaconType
    BY <1>1, ElectionTypes
  <1>3. CASE VerifyBegin(n)
    <2>1. visited' \in [Rank -> 0..RootN] /\ UNCHANGED <<alive, nbr, seat, rec, hold, rival, beacons, forward, kept, mishaps, silent>>
      BY <1>2, <1>3, Ranks DEF VerifyBegin
    <2>2. ReTypeOK'
      BY <1>1, <2>1, ElectionTypes, Typed
    <2> QED
      BY <2>1, <2>2, ClaimsUntouched
  <1>4. CASE VerifyEnd(n)
    <2>1. visited' = [visited EXCEPT ![n] = NoOne] /\ UNCHANGED <<alive, nbr, beacons, kept, mishaps, silent>>
      BY <1>4 DEF VerifyEnd
    <2>2. visited' \in [Rank -> 0..RootN]
      BY <1>2, <2>1, Ranks
    <2>3. PICK w \in Rank : w = visited[n]
      BY <1>2, <1>4, Ranks DEF VerifyEnd
    <2>4. CASE ~IsRoot(n)
      <3>1. UNCHANGED <<seat, rec, hold, rival, forward>>
        BY <1>4, <2>4 DEF VerifyEnd
      <3>2. ReTypeOK'
        BY <1>1, <2>1, <2>2, <3>1, ElectionTypes, Typed
      <3> QED
        BY <2>1, <3>1, <3>2, ClaimsUntouched
    <2>5. CASE IsRoot(n)
      <3>1. PICK r \in RecType : r = [root |-> w, epoch |-> 0, fresh |-> TRUE, verified |-> TRUE]
        BY Ranks DEF RecType
      <3>2. SetRecord(n, r) /\ MergeCandidate(seat, n, w, 0)
        BY <1>4, <2>3, <2>5, <3>1 DEF VerifyEnd
      <3>3. rec' \in [Rank -> RecType] /\ forward' \in [Rank -> ForwardType]
        BY <1>1, <3>2, Recording
      <3>4. beacons' \subseteq BeaconType /\ UNCHANGED <<alive, nbr, kept, mishaps, silent>>
        BY <1>2, <2>1
      <3> QED
        BY <2>2, <3>2, <3>3, <3>4, Ranks, NamedKeeps
    <2> QED
      BY <2>4, <2>5
  <1> QED
    BY <1>3, <1>4

\* The bodies that roots hold may move, and some root still holds one.
LEMMA MovedKeeps ==
  ASSUME ClaimInv, ReTypeOK', alive' = alive, kept' => kept, silent' = silent,
         \A m \in Rank : rival'[m].id # m,
         \A m \in Rank : seat'[m].kind = "root" => seat'[m].epoch > 0,
         \A m \in alive : Custody(m) => \E k \in alive : seat'[k].kind = "root" /\ seat'[k].body
  PROVE  ClaimInv'
  <1>1. ClaimsApart'
    BY DEF ClaimsApart, IsRoot
  <1>2. BodyKept'
    BY DEF ClaimInv, BodyKept, Custody, IsRoot
  <1> QED
    BY <1>1, <1>2 DEF ClaimInv

\* The loser's body is at the winner, which is a root, when it sheds its claim.
LEMMA MergeDoneKeeps ==
  ASSUME ClaimInv, NEW n \in Rank, MergeDone(n)
  PROVE  ClaimInv'
  <1>1. ReTypeOK /\ ClaimsApart
    BY DEF ClaimInv
  <1>2. seat \in [Rank -> SeatType] /\ hold \in [Rank -> HoldType] /\ rival \in [Rank -> CandType] /\ alive \subseteq Rank
    BY <1>1, ElectionTypes
  <1>3. PICK w \in Rank : w = rival[n].id /\ w # n /\ w \in alive /\ IsRoot(w)
    BY <1>1, <1>2 DEF MergeDone, ClaimsApart
  <1>4. /\ seat' = [seat EXCEPT ![n] = Demoted(n, w), ![w].body = @ \/ seat[n].body]
        /\ hold' = [hold EXCEPT ![n] = HeldFor(n, w, TRUE)]
        /\ rival' = [rival EXCEPT ![n] = NoCand]
        /\ UNCHANGED <<alive, nbr, rec, beacons, forward, visited, kept, mishaps, silent>>
    BY <1>3 DEF MergeDone
  <1>5. /\ Demoted(n, w) \in SeatType /\ Demoted(n, w).kind = "child"
        /\ HeldFor(n, w, TRUE) \in HoldType
    BY <1>1, Demoting
  <1> DEFINE taken == [seat[w] EXCEPT !.body = @ \/ seat[n].body]
  <1>6. taken \in SeatType /\ taken.kind = seat[w].kind /\ taken.epoch = seat[w].epoch
        /\ (seat[w].body \/ seat[n].body => taken.body)
    BY <1>2 DEF SeatType
  <1>7. seat'[n] = Demoted(n, w) /\ seat'[w] = taken /\ \A m \in Rank \ {n, w} : seat'[m] = seat[m]
    BY <1>2, <1>3, <1>4
  <1>8. seat' \in [Rank -> SeatType]
    BY <1>2, <1>4, <1>5, <1>6, <1>7
  <1> HIDE DEF taken
  <1>9. hold' \in [Rank -> HoldType] /\ rival' \in [Rank -> CandType] /\ \A m \in Rank : rival'[m].id # m
    BY <1>1, <1>2, <1>4, <1>5, Blanks, Ranks DEF ClaimsApart, NoCand
  <1>10. ReTypeOK'
    BY <1>1, <1>4, <1>8, <1>9, ElectionTypes, Typed
  <1>11. \A m \in Rank : seat'[m].kind = "root" => seat'[m].epoch > 0
    BY <1>1, <1>5, <1>6, <1>7 DEF ClaimsApart, IsRoot
  <1>12. \A m \in alive : Custody(m) => \E k \in alive : seat'[k].kind = "root" /\ seat'[k].body
    <2>1. ASSUME NEW m \in alive, Custody(m), m \notin {n, w}
          PROVE  seat'[m].kind = "root" /\ seat'[m].body
      BY <2>1, <1>2, <1>7 DEF Custody, IsRoot
    <2>2. ASSUME NEW m \in alive, Custody(m), m \in {n, w}
          PROVE  seat'[w].kind = "root" /\ seat'[w].body
      BY <2>2, <1>3, <1>6, <1>7 DEF Custody, IsRoot
    <2> QED
      BY <2>1, <2>2, <1>3
  <1>13. alive' = alive /\ kept' = kept /\ silent' = silent
    BY <1>4
  <1> QED
    BY <1>9, <1>10, <1>11, <1>12, <1>13, MovedKeeps

\* A refusal ends the candidate; an outranked winner becomes the loser, and sheds
\* its claim at once only if it holds nothing.
LEMMA MergeRefusedKeeps ==
  ASSUME ClaimInv, NEW n \in Rank, MergeRefused(n)
  PROVE  ClaimInv'
  <1>1. ReTypeOK /\ ClaimsApart
    BY DEF ClaimInv
  <1>2. seat \in [Rank -> SeatType] /\ hold \in [Rank -> HoldType] /\ rival \in [Rank -> CandType] /\ alive \subseteq Rank
    BY <1>1, ElectionTypes
  <1>3. PICK w \in Rank : w = rival[n].id /\ w # n
    BY <1>1, <1>2, Ranks DEF MergeRefused, ClaimsApart, CandType
  <1> DEFINE c == [rival EXCEPT ![n] = NoCand]
             cand == [id |-> n, epoch |-> seat[n].epoch]
             outranked == w \in alive /\ IsRoot(w) /\ ClaimWins(n, seat[n].epoch, w, seat[w].epoch)
  <1>4. c \in [Rank -> CandType] /\ \A m \in Rank : c[m].id # m
    BY <1>1, <1>2, Blanks, Ranks DEF ClaimsApart, NoCand
  <1>5. cand \in CandType
    BY <1>2, Ranks DEF SeatType, CandType
  <1>6. /\ \/ rival' \in {c, [c EXCEPT ![w] = cand]} /\ UNCHANGED <<seat, hold>>
           \/ /\ ~HoldsBody(w) /\ rival' = c
              /\ seat' = [seat EXCEPT ![w] = Demoted(w, n)] /\ hold' = [hold EXCEPT ![w] = HeldFor(w, n, FALSE)]
        /\ UNCHANGED <<alive, nbr, rec, beacons, forward, visited, kept, mishaps, silent>>
    <2>1. /\ IF outranked /\ HoldsBody(w)
             THEN /\ rival' = IF rival[w].id = NoOne \/ ClaimWins(n, seat[n].epoch, rival[w].id, rival[w].epoch)
                              THEN [c EXCEPT ![w] = cand] ELSE c
                  /\ UNCHANGED <<seat, hold>>
             ELSE /\ rival' = c
                  /\ seat' = IF outranked THEN [seat EXCEPT ![w] = Demoted(w, n)] ELSE seat
                  /\ hold' = IF outranked THEN [hold EXCEPT ![w] = HeldFor(w, n, FALSE)] ELSE hold
          /\ UNCHANGED <<alive, nbr, rec, beacons, forward, visited, kept, mishaps, silent>>
      BY <1>3 DEF MergeRefused
    <2> HIDE DEF c, cand, outranked
    <2> QED
      BY <2>1
  <1> HIDE DEF c, cand, outranked
  <1>7. cand.id = n
    BY DEF cand
  <1>8. rival' \in [Rank -> CandType] /\ \A m \in Rank : rival'[m].id # m
    BY <1>3, <1>4, <1>5, <1>6, <1>7
  <1>9. /\ Demoted(w, n) \in SeatType /\ Demoted(w, n).kind = "child"
        /\ HeldFor(w, n, FALSE) \in HoldType
    BY <1>1, Demoting
  <1>10. seat' \in [Rank -> SeatType] /\ hold' \in [Rank -> HoldType]
    BY <1>2, <1>6, <1>9
  <1>11. ReTypeOK'
    BY <1>1, <1>6, <1>8, <1>10, ElectionTypes, Typed
  <1>12. seat' = seat \/ (~seat[w].body /\ seat'[w].kind = "child" /\ \A m \in Rank \ {w} : seat'[m] = seat[m])
    BY <1>2, <1>6, <1>9 DEF HoldsBody
  <1>13. \A m \in Rank : seat'[m].kind = "root" => seat'[m].epoch > 0
    BY <1>1, <1>12 DEF ClaimsApart, IsRoot
  <1>14. \A m \in alive : Custody(m) => seat'[m].kind = "root" /\ seat'[m].body
    BY <1>2, <1>12 DEF Custody, IsRoot
  <1>15. alive' = alive /\ kept' = kept /\ silent' = silent
    BY <1>6
  <1> QED
    BY <1>8, <1>11, <1>13, <1>14, <1>15, MovedKeeps

LEMMA MergeSilentKeeps ==
  ASSUME ClaimInv, NEW n \in Rank, MergeSilent(n)
  PROVE  ClaimInv'
  <1>1. ReTypeOK /\ ClaimsApart
    BY DEF ClaimInv
  <1>2. seat \in [Rank -> SeatType] /\ hold \in [Rank -> HoldType] /\ rival \in [Rank -> CandType] /\ alive \subseteq Rank
    BY <1>1, ElectionTypes
  <1>3. PICK w \in Rank : w = rival[n].id
    BY <1>2 DEF MergeSilent
  <1>4. /\ seat' = [seat EXCEPT ![n] = Demoted(n, w)]
        /\ hold' = [hold EXCEPT ![n] = HeldFor(n, w, FALSE)]
        /\ rival' = [rival EXCEPT ![n] = NoCand] /\ silent' = TRUE /\ Mishap
        /\ UNCHANGED <<alive, nbr, rec, beacons, forward, visited, kept>>
    BY <1>3 DEF MergeSilent
  <1>5. /\ Demoted(n, w) \in SeatType /\ Demoted(n, w).kind = "child"
        /\ HeldFor(n, w, FALSE) \in HoldType
    BY <1>1, Demoting
  <1>6. seat' \in [Rank -> SeatType] /\ hold' \in [Rank -> HoldType] /\ rival' \in [Rank -> CandType]
    BY <1>2, <1>4, <1>5, Blanks
  <1>7. mishaps' \in 0..MaxMishap /\ silent' \in BOOLEAN
    BY <1>1, <1>4, OneMishap
  <1>8. ReTypeOK'
    BY <1>1, <1>4, <1>6, <1>7, ElectionTypes, Typed
  <1>9. ClaimsApart'
    BY <1>1, <1>2, <1>4, <1>5, Ranks DEF ClaimsApart, IsRoot, NoCand
  <1>10. BodyKept'
    BY <1>4 DEF BodyKept
  <1> QED
    BY <1>8, <1>9, <1>10 DEF ClaimInv

\* One seat changes, and if it is a root's then it holds nothing or as much.
LEMMA SeatKeeps ==
  ASSUME ClaimInv, NEW n \in Rank, NEW st \in SeatType, seat' = [seat EXCEPT ![n] = st],
         st.kind = "root" => st.epoch > 0,
         Custody(n) => st.kind = "root" /\ st.body,
         hold' \in [Rank -> HoldType], rival' = rival \/ rival' = [rival EXCEPT ![n] = NoCand],
         nbr' \in [Rank -> SUBSET Rank], rec' \in [Rank -> RecType], forward' \in [Rank -> ForwardType],
         mishaps' \in 0..MaxMishap, kept' \in BOOLEAN, kept' => kept, UNCHANGED <<alive, beacons, visited, silent>>
  PROVE  ClaimInv'
  <1>1. ReTypeOK /\ ClaimsApart
    BY DEF ClaimInv
  <1>2. seat \in [Rank -> SeatType] /\ rival \in [Rank -> CandType] /\ alive \subseteq Rank
    BY <1>1, ElectionTypes
  <1>3. seat'[n] = st /\ (\A m \in Rank \ {n} : seat'[m] = seat[m]) /\ seat' \in [Rank -> SeatType]
    BY <1>2
  <1>4. rival' \in [Rank -> CandType] /\ \A m \in Rank : rival'[m].id # m
    BY <1>1, <1>2, Blanks, Ranks DEF ClaimsApart, NoCand
  <1>5. ReTypeOK'
    BY <1>1, <1>3, <1>4, ElectionTypes, Typed
  <1>6. \A m \in Rank : seat'[m].kind = "root" => seat'[m].epoch > 0
    BY <1>1, <1>3 DEF ClaimsApart, IsRoot
  <1>7. \A m \in alive : Custody(m) => seat'[m].kind = "root" /\ seat'[m].body
    BY <1>2, <1>3 DEF Custody, IsRoot
  <1> QED
    BY <1>4, <1>5, <1>6, <1>7, MovedKeeps

\* A child's copy goes up to the root it subscribes to.
LEMMA PullKeeps ==
  ASSUME ClaimInv, NEW n \in Rank, PullUp(n)
  PROVE  ClaimInv'
  <1>1. ReTypeOK /\ ClaimsApart
    BY DEF ClaimInv
  <1>2. alive \subseteq Rank /\ seat \in [Rank -> SeatType]
    BY <1>1, ElectionTypes
  <1>3. PICK w \in Rank : w = seat[n].pin /\ IsRoot(w)
    BY <1>2 DEF PullUp
  <1>4. seat' = [seat EXCEPT ![w].body = TRUE]
        /\ UNCHANGED <<alive, nbr, rec, hold, rival, beacons, forward, visited, kept, mishaps, silent>>
    BY <1>3 DEF PullUp
  <1>5. PICK st \in SeatType : st = [seat[w] EXCEPT !.body = TRUE]
    BY <1>2 DEF SeatType
  <1>6. st.kind = seat[w].kind /\ st.epoch = seat[w].epoch /\ st.body
    BY <1>2, <1>5 DEF SeatType
  <1>7. seat' = [seat EXCEPT ![w] = st]
    BY <1>2, <1>4, <1>5
  <1>8. (st.kind = "root" => st.epoch > 0) /\ (Custody(w) => st.kind = "root" /\ st.body)
    BY <1>1, <1>3, <1>6 DEF ClaimsApart, IsRoot
  <1>9. /\ hold' \in [Rank -> HoldType] /\ nbr' \in [Rank -> SUBSET Rank] /\ rec' \in [Rank -> RecType]
        /\ forward' \in [Rank -> ForwardType] /\ mishaps' \in 0..MaxMishap /\ kept' \in BOOLEAN
    BY <1>1, <1>4, ElectionTypes
  <1> QED
    BY <1>4, <1>7, <1>8, <1>9, SeatKeeps

\* The clocks and the channels leave the claims alone.
LEMMA AgesKeep ==
  ASSUME ClaimInv, NEW n \in Rank, HoldAges(n) \/ RecordAges(n)
  PROVE  ClaimInv'
  <1>1. ReTypeOK
    BY DEF ClaimInv
  <1>2. hold \in [Rank -> HoldType] /\ rec \in [Rank -> RecType] /\ hold[n] \in HoldType /\ rec[n] \in RecType
    BY <1>1, ElectionTypes
  <1>3. CASE HoldAges(n)
    <2>1. [hold[n] EXCEPT !.late = TRUE] \in HoldType
      BY <1>2 DEF HoldType
    <2>2. hold' \in [Rank -> HoldType]
      BY <1>2, <1>3, <2>1, Blanks DEF HoldAges
    <2>3. UNCHANGED <<alive, nbr, seat, rec, rival, beacons, forward, visited, kept, mishaps, silent>>
      BY <1>3 DEF HoldAges
    <2>4. ReTypeOK'
      BY <1>1, <2>2, <2>3, ElectionTypes, Typed
    <2> QED
      BY <2>3, <2>4, ClaimsUntouched
  <1>4. CASE RecordAges(n)
    <2>1. [rec[n] EXCEPT !.fresh = FALSE] \in RecType
      BY <1>2 DEF RecType
    <2>2. PICK r \in RecType : r = IF rec[n].fresh THEN [rec[n] EXCEPT !.fresh = FALSE] ELSE NoRec
      BY <2>1, Blanks
    <2>3. SetRecord(n, r) /\ UNCHANGED <<alive, nbr, seat, hold, rival, beacons, visited, kept, mishaps, silent>>
      BY <1>4, <2>2 DEF RecordAges
    <2>4. rec' \in [Rank -> RecType] /\ forward' \in [Rank -> ForwardType]
      BY <1>1, <2>3, Recording
    <2>5. ReTypeOK'
      BY <1>1, <2>3, <2>4, ElectionTypes, Typed
    <2> QED
      BY <2>3, <2>5, ClaimsUntouched
  <1> QED
    BY <1>3, <1>4

LEMMA LostKeeps ==
  ASSUME ClaimInv, NEW b \in beacons, BeaconLost(b)
  PROVE  ClaimInv'
  <1>1. ReTypeOK
    BY DEF ClaimInv
  <1>2. /\ beacons' = beacons \ {b}
        /\ UNCHANGED <<alive, nbr, seat, rec, hold, rival, forward, visited, kept, mishaps, silent>>
    BY DEF BeaconLost
  <1>3. ReTypeOK'
    BY <1>1, <1>2, ElectionTypes, Typed
  <1> QED
    BY <1>2, <1>3, ClaimsUntouched

LEMMA LinkKeeps ==
  ASSUME ClaimInv, NEW n \in Rank, NEW m \in Rank, Link(n, m)
  PROVE  ClaimInv'
  <1>1. ReTypeOK
    BY DEF ClaimInv
  <1>2. nbr \in [Rank -> SUBSET Rank]
    BY <1>1, ElectionTypes
  <1>3. /\ nbr' = [nbr EXCEPT ![n] = @ \cup {m}, ![m] = @ \cup {n}]
        /\ UNCHANGED <<alive, seat, rec, hold, rival, beacons, forward, visited, kept, mishaps, silent>>
    BY DEF Link
  <1>4. nbr' \in [Rank -> SUBSET Rank]
    BY <1>2, <1>3
  <1>5. ReTypeOK'
    BY <1>1, <1>3, <1>4, ElectionTypes, Typed
  <1> QED
    BY <1>3, <1>5, ClaimsUntouched

LEMMA ExpireKeeps ==
  ASSUME ClaimInv, Expire
  PROVE  ClaimInv'
  <1>1. ReTypeOK /\ ClaimsApart
    BY DEF ClaimInv
  <1>2. /\ kept' = FALSE /\ seat' = [n \in Rank |-> [seat[n] EXCEPT !.body = FALSE]]
        /\ UNCHANGED <<alive, nbr, rec, hold, rival, beacons, forward, visited, mishaps, silent>>
    BY DEF Expire
  <1>3. seat \in [Rank -> SeatType]
    BY <1>1, ElectionTypes
  <1>4. ASSUME NEW n \in Rank
        PROVE  seat'[n] \in SeatType /\ seat'[n].kind = seat[n].kind /\ seat'[n].epoch = seat[n].epoch
    <2>1. seat'[n] = [seat[n] EXCEPT !.body = FALSE] /\ seat[n] \in SeatType
      BY <1>2, <1>3
    <2> QED
      BY <2>1 DEF SeatType
  <1>5. seat' \in [Rank -> SeatType]
    BY <1>2, <1>4
  <1>6. ReTypeOK'
    BY <1>1, <1>2, <1>5, ElectionTypes, Typed
  <1>7. ClaimsApart'
    BY <1>1, <1>2, <1>4 DEF ClaimsApart, IsRoot
  <1>8. BodyKept'
    BY <1>2 DEF BodyKept
  <1> QED
    BY <1>6, <1>7, <1>8 DEF ClaimInv

\* A root is torn down only when it holds nothing.
LEMMA RetireKeeps ==
  ASSUME ClaimInv, NEW n \in Rank, RetireRole(n)
  PROVE  ClaimInv'
  <1>1. ReTypeOK
    BY DEF ClaimInv
  <1>2. /\ seat' = [seat EXCEPT ![n] = NoSeat] /\ hold' = [hold EXCEPT ![n].won = FALSE]
        /\ rival' = [rival EXCEPT ![n] = NoCand] /\ (IsRoot(n) => ~seat[n].body)
        /\ Mishap /\ UNCHANGED <<alive, nbr, rec, beacons, forward, visited, kept, silent>>
    BY DEF RetireRole
  <1>3. hold \in [Rank -> HoldType] /\ hold[n] \in HoldType
    BY <1>1, ElectionTypes
  <1>4. [hold[n] EXCEPT !.won = FALSE] \in HoldType
    BY <1>3 DEF HoldType
  <1>5. hold' \in [Rank -> HoldType]
    BY <1>2, <1>3, <1>4
  <1>6. mishaps' \in 0..MaxMishap
    BY <1>1, <1>2, OneMishap
  <1>7. /\ nbr' \in [Rank -> SUBSET Rank] /\ rec' \in [Rank -> RecType]
        /\ forward' \in [Rank -> ForwardType] /\ kept' \in BOOLEAN
    BY <1>1, <1>2, ElectionTypes
  <1>8. NoSeat.kind # "root" /\ ~Custody(n)
    BY <1>2 DEF NoSeat, Custody
  <1> QED
    BY <1>2, <1>5, <1>6, <1>7, <1>8, Blanks, SeatKeeps

\* A node that dies takes the message along only if no other root has it.
LEMMA DeathKeeps ==
  ASSUME ClaimInv, NEW n \in Rank, NodeDies(n)
  PROVE  ClaimInv'
  <1>1. ReTypeOK /\ ClaimsApart
    BY DEF ClaimInv
  <1>2. /\ Mishap /\ alive' = alive \ {n} /\ kept' = (kept /\ \E m \in alive \ {n} : Custody(m))
        /\ UNCHANGED <<nbr, seat, rec, hold, rival, beacons, forward, visited, silent>>
    BY DEF NodeDies
  <1>3. mishaps' \in 0..MaxMishap
    BY <1>1, <1>2, OneMishap
  <1>4. kept' \in BOOLEAN
    BY <1>2
  <1>5. ReTypeOK'
    BY <1>1, <1>2, <1>3, <1>4, ElectionTypes, Typed
  <1>6. ClaimsApart'
    BY <1>1, <1>2 DEF ClaimsApart, IsRoot
  <1>7. BodyKept'
    BY <1>2 DEF BodyKept, Custody, IsRoot
  <1> QED
    BY <1>5, <1>6, <1>7 DEF ClaimInv

\* A role unpinned is otherwise the role it was.
LEMMA Unpinned ==
  ASSUME ClaimInv, NEW n \in Rank
  PROVE  LET st == [seat[n] EXCEPT !.pin = NoOne]
         IN  /\ st \in SeatType /\ (st.kind = "root" => st.epoch > 0)
             /\ (Custody(n) => st.kind = "root" /\ st.body)
  <1>1. ReTypeOK /\ ClaimsApart
    BY DEF ClaimInv
  <1>2. seat[n] \in SeatType
    BY <1>1, ElectionTypes
  <1> DEFINE st == [seat[n] EXCEPT !.pin = NoOne]
  <1>3. st \in SeatType /\ st.kind = seat[n].kind /\ st.epoch = seat[n].epoch /\ st.body = seat[n].body
    BY <1>2, Ranks DEF SeatType
  <1> QED
    BY <1>1, <1>3 DEF ClaimsApart, Custody, IsRoot

LEMMA UnpinKeeps ==
  ASSUME ClaimInv, NEW n \in Rank, UnpinDead(n)
  PROVE  ClaimInv'
  <1>1. ReTypeOK
    BY DEF ClaimInv
  <1>2. PICK st \in SeatType : /\ st = [seat[n] EXCEPT !.pin = NoOne] /\ (st.kind = "root" => st.epoch > 0)
                               /\ (Custody(n) => st.kind = "root" /\ st.body)
    BY Unpinned
  <1>3. UNCHANGED <<alive, nbr, rec, hold, rival, beacons, forward, visited, kept, mishaps, silent>>
    BY DEF UnpinDead
  <1>4. seat' = [seat EXCEPT ![n] = st]
    BY <1>1, <1>2, ElectionTypes DEF UnpinDead
  <1>5. /\ hold' \in [Rank -> HoldType] /\ nbr' \in [Rank -> SUBSET Rank] /\ rec' \in [Rank -> RecType]
        /\ forward' \in [Rank -> ForwardType] /\ mishaps' \in 0..MaxMishap /\ kept' \in BOOLEAN
    BY <1>1, <1>3, ElectionTypes
  <1> QED
    BY <1>2, <1>3, <1>4, <1>5, SeatKeeps

LEMMA ChannelKeeps ==
  ASSUME ClaimInv, NEW n \in Rank, NEW m \in Rank, PeerDied(n, m)
  PROVE  ClaimInv'
  <1>1. ReTypeOK
    BY DEF ClaimInv
  <1>2. /\ Mishap \/ UNCHANGED mishaps
        /\ nbr' = [nbr EXCEPT ![n] = @ \ {m}]
        /\ rec' \in {rec, [rec EXCEPT ![n] = NoRec]}
        /\ seat' \in {seat, [seat EXCEPT ![n].pin = NoOne]}
        /\ forward' \in {forward, [forward EXCEPT ![n].same = FALSE]}
        /\ UNCHANGED <<alive, hold, rival, beacons, visited, kept, silent>>
    BY DEF PeerDied
  <1>3. /\ nbr \in [Rank -> SUBSET Rank] /\ rec \in [Rank -> RecType] /\ seat \in [Rank -> SeatType]
        /\ forward \in [Rank -> ForwardType] /\ forward[n] \in ForwardType
    BY <1>1, ElectionTypes
  <1>4. [forward[n] EXCEPT !.same = FALSE] \in ForwardType
    BY <1>3 DEF ForwardType
  <1>5. nbr' \in [Rank -> SUBSET Rank]
    BY <1>2, <1>3
  <1>6. rec' \in [Rank -> RecType]
    BY <1>2, <1>3, Blanks
  <1>7. forward' \in [Rank -> ForwardType]
    BY <1>2, <1>3, <1>4
  <1>8. mishaps' \in 0..MaxMishap
    BY <1>1, <1>2, OneMishap, ElectionTypes
  <1>9. hold' \in [Rank -> HoldType] /\ kept' \in BOOLEAN /\ kept' = kept
    BY <1>1, <1>2, ElectionTypes
  <1>10. CASE seat' = seat
    <2>1. ReTypeOK'
      BY <1>1, <1>2, <1>5, <1>6, <1>7, <1>8, <1>10, ElectionTypes, Typed
    <2> QED
      BY <1>2, <1>10, <2>1, ClaimsUntouched
  <1>11. CASE seat' = [seat EXCEPT ![n].pin = NoOne]
    <2>1. PICK st \in SeatType : /\ st = [seat[n] EXCEPT !.pin = NoOne] /\ (st.kind = "root" => st.epoch > 0)
                                 /\ (Custody(n) => st.kind = "root" /\ st.body)
      BY Unpinned
    <2>2. seat' = [seat EXCEPT ![n] = st]
      BY <1>3, <1>11, <2>1
    <2>3. rival' = rival /\ UNCHANGED <<alive, beacons, visited, silent>>
      BY <1>2
    <2> QED
      BY <1>5, <1>6, <1>7, <1>8, <1>9, <2>1, <2>2, <2>3, SeatKeeps
  <1> QED
    BY <1>2, <1>10, <1>11

LEMMA ClaimStep == ClaimInv /\ [ReNext]_reVars => ClaimInv'
  <1> SUFFICES ASSUME ClaimInv, [ReNext]_reVars PROVE ClaimInv'
    OBVIOUS
  <1>1. ASSUME NEW n \in Rank, OnSubscribe(n) \/ ClaimReachable(n) PROVE ClaimInv'
    BY <1>1, SubscribeKeeps
  <1>2. ASSUME NEW n \in Rank, OnPub(n) PROVE ClaimInv'
    BY <1>2, PubKeeps
  <1>3. ASSUME NEW n \in Rank, ForwardPub(n) \/ ForwardFailed(n) PROVE ClaimInv'
    BY <1>3, ForwardKeeps
  <1>4. ASSUME NEW n \in Rank, ForwardConsumed(n) PROVE ClaimInv'
    BY <1>4, ConsumedKeeps
  <1>5. ASSUME NEW n \in Rank, EmitRootBeacons(n) PROVE ClaimInv'
    BY <1>5, EmitKeeps
  <1>6. ASSUME NEW n \in Rank, VerifyBegin(n) \/ VerifyEnd(n) PROVE ClaimInv'
    BY <1>6, VerifyKeeps
  <1>7. ASSUME NEW n \in Rank, MergeDone(n) PROVE ClaimInv'
    BY <1>7, MergeDoneKeeps
  <1>8. ASSUME NEW n \in Rank, MergeRefused(n) PROVE ClaimInv'
    BY <1>8, MergeRefusedKeeps
  <1>9. ASSUME NEW n \in Rank, MergeSilent(n) PROVE ClaimInv'
    BY <1>9, MergeSilentKeeps
  <1>10. ASSUME NEW n \in Rank, PullUp(n) PROVE ClaimInv'
    BY <1>10, PullKeeps
  <1>11. ASSUME NEW n \in Rank, HoldAges(n) \/ RecordAges(n) PROVE ClaimInv'
    BY <1>11, AgesKeep
  <1>12. ASSUME NEW n \in Rank, RetireRole(n) PROVE ClaimInv'
    BY <1>12, RetireKeeps
  <1>13. ASSUME NEW n \in Rank, NodeDies(n) PROVE ClaimInv'
    BY <1>13, DeathKeeps
  <1>14. ASSUME NEW n \in Rank, UnpinDead(n) PROVE ClaimInv'
    BY <1>14, UnpinKeeps
  <1>15. ASSUME NEW n \in Rank, NEW m \in Rank, PeerDied(n, m) PROVE ClaimInv'
    BY <1>15, ChannelKeeps
  <1>16. ASSUME NEW n \in Rank, NEW m \in Rank, Link(n, m) PROVE ClaimInv'
    BY <1>16, LinkKeeps
  <1>17. ASSUME NEW b \in beacons, OnRootBeacon(b) PROVE ClaimInv'
    BY <1>17, BeaconKeeps
  <1>18. ASSUME NEW b \in beacons, BeaconLost(b) PROVE ClaimInv'
    BY <1>18, LostKeeps
  <1>19. CASE Expire
    BY <1>19, ExpireKeeps
  <1>20. CASE UNCHANGED reVars
    <2>1. UNCHANGED <<alive, nbr, seat, rec, hold, rival, beacons, forward, visited, kept, mishaps, silent>>
      BY <1>20 DEF reVars
    <2>2. ReTypeOK'
      BY <2>1, ElectionTypes, Typed DEF ClaimInv
    <2> QED
      BY <2>1, <2>2, ClaimsUntouched
  <1> QED
    BY <1>1, <1>2, <1>3, <1>4, <1>5, <1>6, <1>7, <1>8, <1>9, <1>10, <1>11, <1>12, <1>13, <1>14, <1>15, <1>16,
       <1>17, <1>18, <1>19, <1>20 DEF ReNext

\* Every node's role, record, hold and awaited answer has the shape rootClaim.js
\* gives it, an announced epoch is one somebody took, and a hold, a candidate or a
\* correction names a node.
THEOREM ElectionTypesAlways == ReSpec => []ReTypeOK
  <1>1. ClaimInv => ReTypeOK
    BY DEF ClaimInv
  <1> QED
    BY <1>1, ClaimInit, ClaimStep, PTL DEF ReSpec

\* However many nodes claim, however often: rootClaim.js demotes no root over what
\* it holds but to a root that has it, so a stamped message stays with a running
\* root until it expires or its last root dies.
THEOREM BodyKeptAlways == ReSpec => []BodyKept
  <1>1. ClaimInv => BodyKept
    BY DEF ClaimInv
  <1> QED
    BY <1>1, ClaimInit, ClaimStep, PTL DEF ReSpec

-----------------------------------------------------------------------------
(***************************************************************************)
(* The durability ledger.                                                  *)
(***************************************************************************)
SigSet == [count : 0..MaxStamp, tombs : 0..MaxStamp, high : 0..MaxStamp]
RoleSet == [root : BOOLEAN, cache : SUBSET Stamped, tombs : SUBSET Stamped, next : 1..(MaxStamp + 1),
            sig : SigSet, due : BOOLEAN, credited : BOOLEAN]
RoundSet == [t : Topic, by : ByTick..ByKill, stage : {"lookup", "push"}, full : BOOLEAN, sig : SigSet]

\* An obligation that stands has an attempt left.
Good(e) == e \in Entry /\ (e.state = "pending" => e.tries < MaxTry)

\* What an entry may become when others are opened or pruned.
Kept(e, f) == f = e \/ (e.state \in {"verified", "expired", "cancelled"} /\ f = NoEntry)

\* DuTypeOK, with two facts each step needs: a standing obligation has attempts
\* left, and no message is booked before it is stamped.
DuInv ==
    /\ role \in [Topic -> RoleSet]
    /\ \A t \in Topic : book[t] \in [Stamped -> Entry]
    /\ book \in [Topic -> [Stamped -> Entry]]
    /\ \A t \in Topic, m \in Stamped : Good(book[t][m])
    /\ rounds \subseteq RoundSet
    /\ departed \in BOOLEAN
    /\ \A t \in Topic, m \in Stamped : m >= role[t].next => book[t][m] = NoEntry

-----------------------------------------------------------------------------
(***************************************************************************)
(* The operators of the ledger.                                            *)
(***************************************************************************)
LEMMA Bounds == MaxStamp \in Nat /\ MaxTry \in Nat /\ MaxTry > 0 /\ ByTick = 0 /\ ByKill = MaxStamp + 1
  BY DurabilityAssumption DEF ByTick, ByKill

LEMMA NoEntryGood == Good(NoEntry) /\ NoEntry \in Entry /\ NoEntry.state = "none"
  BY Bounds DEF Good, NoEntry, Entry

\* A nonempty set of stamps has a greatest one.
LEMMA HighWater ==
  ASSUME NEW C \in SUBSET Stamped, C # {}
  PROVE  (CHOOSE m \in C : \A k \in C : k <= m) \in C
  <1> DEFINE T == {MaxStamp - k : k \in C}
  <1>1. T \subseteq Nat /\ T # {}
    BY Bounds DEF Stamped
  <1>2. PICK x \in T : \A y \in T : ~(<<y, x>> \in OpToRel(<, Nat))
    BY <1>1, NatLessThanWellFounded, WFMin
  <1>3. \A y \in T : ~(y < x)
    BY <1>1, <1>2, Zenon DEF OpToRel
  <1>4. PICK m \in C : x = MaxStamp - m
    OBVIOUS
  <1>5. \A k \in C : k <= m
    <2> SUFFICES ASSUME NEW k \in C PROVE k <= m
      OBVIOUS
    <2>1. MaxStamp - k \in T /\ x \in T
      OBVIOUS
    <2>2. ~(MaxStamp - k < MaxStamp - m)
      BY <1>3, <1>4, <2>1
    <2> QED
      BY <2>2, Bounds DEF Stamped
  <1> QED
    BY <1>5

LEMMA StampsCounted ==
  ASSUME NEW C \in SUBSET Stamped
  PROVE  Cardinality(C) \in 0..MaxStamp
  <1>1. IsFiniteSet(Stamped) /\ Cardinality(Stamped) = MaxStamp
    BY Bounds, FS_Interval DEF Stamped
  <1>2. IsFiniteSet(C) /\ Cardinality(C) <= MaxStamp
    BY <1>1, FS_Subset
  <1> QED
    BY <1>2, Bounds, FS_CardinalityType

LEMMA SigTyped ==
  ASSUME NEW r \in RoleSet
  PROVE  Sig(r) \in SigSet
  <1>1. r.cache \in SUBSET Stamped /\ r.tombs \in SUBSET Stamped
    BY DEF RoleSet
  <1>2. Cardinality(r.cache) \in 0..MaxStamp /\ Cardinality(r.tombs) \in 0..MaxStamp
    BY <1>1, StampsCounted
  <1>3. (IF r.cache = {} THEN 0 ELSE CHOOSE m \in r.cache : \A k \in r.cache : k <= m) \in 0..MaxStamp
    <2>1. CASE r.cache = {}
      BY <2>1, Bounds
    <2>2. CASE r.cache # {}
      <3>1. (CHOOSE m \in r.cache : \A k \in r.cache : k <= m) \in r.cache
        BY <1>1, <2>2, HighWater
      <3> QED
        BY <1>1, <2>2, <3>1, Bounds DEF Stamped
    <2> QED
      BY <2>1, <2>2
  <1> QED
    BY <1>2, <1>3 DEF Sig, SigSet

LEMMA NoSigTyped == NoSig \in SigSet
  BY Bounds DEF NoSig, SigSet

\* Closing and recording touch standing entries only, and end them or use up an
\* attempt.
LEMMA ClosedFacts ==
  ASSUME NEW b \in [Stamped -> Entry], NEW S, NEW state \in {"expired", "cancelled"},
         \A m \in Stamped : Good(b[m])
  PROVE  /\ ClosedAs(b, S, state) \in [Stamped -> Entry]
         /\ \A m \in Stamped : Good(ClosedAs(b, S, state)[m])
         /\ \A m \in Stamped : ClosedAs(b, S, state)[m].state = IF m \in S \cap Standing(b) THEN state ELSE b[m].state
         /\ \A m \in Stamped : b[m] = NoEntry => ClosedAs(b, S, state)[m] = NoEntry
  <1> DEFINE c == ClosedAs(b, S, state)
  <1>1. \A m \in Stamped : c[m] = IF m \in S \cap Standing(b) THEN [b[m] EXCEPT !.state = state] ELSE b[m]
    BY DEF ClosedAs
  <1>2. \A m \in Stamped : c[m] \in Entry /\ Good(c[m])
                           /\ c[m].state = (IF m \in S \cap Standing(b) THEN state ELSE b[m].state)
    BY <1>1 DEF Good, Entry
  <1>3. \A m \in Stamped : b[m] = NoEntry => m \notin Standing(b)
    BY DEF Standing, In, NoEntry
  <1>4. c = [m \in Stamped |-> c[m]]
    BY DEF ClosedAs
  <1> QED
    BY <1>1, <1>2, <1>3, <1>4

LEMMA RecordedFacts ==
  ASSUME NEW b \in [Stamped -> Entry], NEW S, NEW consumed \in BOOLEAN,
         \A m \in Stamped : Good(b[m])
  PROVE  /\ Recorded(b, S, consumed) \in [Stamped -> Entry]
         /\ \A m \in Stamped : Good(Recorded(b, S, consumed)[m])
         /\ \A m \in Stamped : Recorded(b, S, consumed)[m].state =
              IF m \notin S \cap Standing(b) THEN b[m].state
              ELSE IF consumed THEN "verified"
              ELSE IF b[m].tries + 1 >= MaxTry THEN "expired" ELSE "pending"
         /\ \A m \in Stamped : b[m] = NoEntry => Recorded(b, S, consumed)[m] = NoEntry
  <1> DEFINE c == Recorded(b, S, consumed)
  <1>1. \A m \in Stamped : c[m] =
          IF m \notin S \cap Standing(b) THEN b[m]
          ELSE IF consumed THEN [b[m] EXCEPT !.state = "verified"]
          ELSE [state |-> IF b[m].tries + 1 >= MaxTry THEN "expired" ELSE "pending", tries |-> b[m].tries + 1]
    BY DEF Recorded
  <1>2. ASSUME NEW m \in Stamped
        PROVE /\ c[m] \in Entry /\ Good(c[m])
              /\ c[m].state = (IF m \notin S \cap Standing(b) THEN b[m].state
                               ELSE IF consumed THEN "verified"
                               ELSE IF b[m].tries + 1 >= MaxTry THEN "expired" ELSE "pending")
    <2>0. b[m] \in Entry /\ Good(b[m]) /\ b[m].tries \in 0..MaxTry
      BY DEF Entry
    <2>1. CASE m \notin S \cap Standing(b)
      BY <1>1, <2>0, <2>1
    <2>2. CASE m \in S \cap Standing(b) /\ consumed
      BY <1>1, <2>0, <2>2 DEF Good, Entry
    <2>3. CASE m \in S \cap Standing(b) /\ ~consumed
      <3>1. b[m].tries + 1 \in 0..MaxTry
        BY <2>0, <2>3, Bounds DEF Good, Standing, In
      <3> DEFINE st == IF b[m].tries + 1 >= MaxTry THEN "expired" ELSE "pending"
      <3>2. c[m] = [state |-> st, tries |-> b[m].tries + 1]
        BY <1>1, <2>3
      <3>3. st \in {"expired", "pending"} /\ (st = "pending" => b[m].tries + 1 < MaxTry)
        BY <3>1, Bounds
      <3> HIDE DEF st
      <3>4. c[m].state = st /\ c[m].tries = b[m].tries + 1
        BY <3>2
      <3>5. c[m] \in Entry
        BY <3>1, <3>2, <3>3 DEF Entry
      <3> QED
        BY <2>3, <3>3, <3>4, <3>5 DEF Good, st
    <2> QED
      BY <2>1, <2>2, <2>3
  <1>3. \A m \in Stamped : b[m] = NoEntry => m \notin Standing(b)
    BY DEF Standing, In, NoEntry
  <1>4. c = [m \in Stamped |-> c[m]]
    BY DEF Recorded
  <1> QED
    BY <1>1, <1>2, <1>3, <1>4

\* Terminal entries may go, others stay as they are.
LEMMA PrunedFacts ==
  ASSUME NEW b \in [Stamped -> Entry], NEW S \in SUBSET Terminal(b)
  PROVE  /\ Without(b, S) \in [Stamped -> Entry]
         /\ \A m \in Stamped : Kept(b[m], Without(b, S)[m])
  <1>1. \A m \in Stamped : Without(b, S)[m] = IF m \in S THEN NoEntry ELSE b[m]
    BY DEF Without
  <1>2. Without(b, S) \in [Stamped -> Entry]
    BY NoEntryGood DEF Without
  <1>3. \A m \in S : b[m].state \in {"verified", "expired", "cancelled"}
    BY DEF Terminal, In
  <1> QED
    BY <1>1, <1>2, <1>3 DEF Kept

LEMMA PrunedShape ==
  ASSUME NEW b, NEW c \in Pruned(b)
  PROVE  \E S \in SUBSET Terminal(b) : c = Without(b, S)
  BY DEF Pruned

LEMMA KeptTwice ==
  ASSUME NEW e, NEW f, NEW g, Kept(e, f), Kept(f, g)
  PROVE  Kept(e, g)
  BY NoEntryGood DEF Kept, NoEntry

LEMMA KeptGood ==
  ASSUME NEW e, NEW f, Kept(e, f), Good(e)
  PROVE  Good(f)
  BY NoEntryGood DEF Kept

PendingEntry == [state |-> "pending", tries |-> 0]

\* Opening an obligation books it, or nothing, and drops nothing that stands.
LEMMA OpenedFacts ==
  ASSUME DuInv, NEW t \in Topic, NEW m \in Stamped, NEW bs \in Opened(t, m)
  PROVE  /\ bs \in [Topic -> [Stamped -> Entry]]
         /\ \A u \in Topic, k \in Stamped :
               Kept(book[u][k], bs[u][k]) \/ (u = t /\ k = m /\ bs[u][k] = PendingEntry)
  <1> DEFINE full == NodeSize(book) >= NodeMax
             room == IF full THEN [u \in Topic |-> Without(book[u], Terminal(book[u]))] ELSE book
  <1>1. room \in [Topic -> [Stamped -> Entry]] /\ \A u \in Topic, k \in Stamped : Kept(book[u][k], room[u][k])
    <2>1. CASE full
      <3>1. \A u \in Topic : room[u] = Without(book[u], Terminal(book[u]))
        BY <2>1
      <3>2. ASSUME NEW u \in Topic
            PROVE  room[u] \in [Stamped -> Entry] /\ \A k \in Stamped : Kept(book[u][k], room[u][k])
        BY <3>1, PrunedFacts DEF DuInv
      <3>3. room = [u \in Topic |-> Without(book[u], Terminal(book[u]))]
        BY <2>1
      <3> QED
        BY <3>2, <3>3
    <2>2. CASE ~full
      BY <2>2 DEF DuInv, Kept
    <2> QED
      BY <2>1, <2>2
  <1>2. bs = room \/ \E b \in Pruned([room[t] EXCEPT ![m] = PendingEntry]) : bs = [room EXCEPT ![t] = b]
    BY DEF Opened, PendingEntry
  <1> HIDE DEF room
  <1>3. CASE bs = room
    BY <1>1, <1>3
  <1>4. ASSUME NEW b \in Pruned([room[t] EXCEPT ![m] = PendingEntry]), bs = [room EXCEPT ![t] = b]
        PROVE /\ bs \in [Topic -> [Stamped -> Entry]]
              /\ \A u \in Topic, k \in Stamped :
                    Kept(book[u][k], bs[u][k]) \/ (u = t /\ k = m /\ bs[u][k] = PendingEntry)
    <2> DEFINE a == [room[t] EXCEPT ![m] = PendingEntry]
    <2>1. PendingEntry \in Entry
      BY Bounds DEF PendingEntry, Entry
    <2>2. a \in [Stamped -> Entry] /\ a[m] = PendingEntry /\ \A k \in Stamped \ {m} : a[k] = room[t][k]
      BY <1>1, <2>1
    <2> HIDE DEF a
    <2>3. PICK S \in SUBSET Terminal(a) : b = Without(a, S)
      BY <1>4, PrunedShape DEF a
    <2>4. b \in [Stamped -> Entry] /\ \A k \in Stamped : Kept(a[k], b[k])
      BY <2>2, <2>3, PrunedFacts
    <2>5. b[m] = PendingEntry
      BY <2>2, <2>4 DEF Kept, PendingEntry
    <2>6. bs \in [Topic -> [Stamped -> Entry]] /\ bs[t] = b /\ \A u \in Topic \ {t} : bs[u] = room[u]
      BY <1>1, <1>4, <2>4
    <2>7. ASSUME NEW u \in Topic, NEW k \in Stamped, ~(u = t /\ k = m)
          PROVE  Kept(book[u][k], bs[u][k])
      <3>1. CASE u # t
        BY <1>1, <2>6, <3>1
      <3>2. CASE u = t /\ k # m
        <4>1. Kept(book[u][k], room[u][k]) /\ Kept(room[u][k], bs[u][k])
          BY <1>1, <2>2, <2>4, <2>6, <3>2
        <4> QED
          BY <4>1, KeptTwice
      <3> QED
        BY <2>7, <3>1, <3>2
    <2> QED
      BY <2>5, <2>6, <2>7
  <1> QED
    BY <1>2, <1>3, <1>4

-----------------------------------------------------------------------------
(***************************************************************************)
(* The invariant.                                                          *)
(***************************************************************************)
LEMMA DuInitial == DuInit => DuInv
  <1> SUFFICES ASSUME DuInit PROVE DuInv
    OBVIOUS
  <1> DEFINE r == [root |-> TRUE, cache |-> {}, tombs |-> {}, next |-> 1, sig |-> NoSig, due |-> TRUE, credited |-> FALSE]
  <1>1. r \in RoleSet
    BY Bounds, NoSigTyped DEF RoleSet
  <1>2. role = [t \in Topic |-> r] /\ book = [t \in Topic |-> [m \in Stamped |-> NoEntry]]
    BY DEF DuInit
  <1>3. rounds = {} /\ departed = FALSE
    BY DEF DuInit
  <1> HIDE DEF r
  <1>4. role \in [Topic -> RoleSet]
    BY <1>1, <1>2
  <1>5. book \in [Topic -> [Stamped -> Entry]] /\ \A t \in Topic, m \in Stamped : book[t][m] = NoEntry
    BY <1>2, NoEntryGood
  <1> QED
    BY <1>3, <1>4, <1>5, NoEntryGood DEF DuInv

\* A round begun is a round of the role.
LEMMA BegunTyped ==
  ASSUME DuInv, NEW r, NEW t \in Topic, NEW by \in ByTick..ByKill
  PROVE  Begun(r, t, by) \subseteq RoundSet
  <1>1. [t |-> t, by |-> by, stage |-> "lookup", full |-> FALSE, sig |-> NoSig] \in RoundSet
    BY NoSigTyped DEF RoundSet
  <1> QED
    BY <1>1 DEF Begun, DuInv

\* The part of the invariant about the ledger, when one role's entries change
\* and none is booked early.
LEMMA OneBook ==
  ASSUME DuInv, NEW t \in Topic, NEW b \in [Stamped -> Entry],
         \A m \in Stamped : Good(b[m]),
         \A m \in Stamped : book[t][m] = NoEntry => b[m] = NoEntry,
         book' = [book EXCEPT ![t] = b],
         role' \in [Topic -> RoleSet], \A u \in Topic : role'[u].next = role[u].next,
         rounds' \subseteq RoundSet, departed' \in BOOLEAN
  PROVE  DuInv'
  <1>1. book' \in [Topic -> [Stamped -> Entry]] /\ book'[t] = b /\ \A u \in Topic \ {t} : book'[u] = book[u]
    BY DEF DuInv
  <1>2. \A u \in Topic, m \in Stamped : Good(book'[u][m])
    BY <1>1 DEF DuInv
  <1>3. \A u \in Topic, m \in Stamped : m >= role'[u].next => book'[u][m] = NoEntry
    BY <1>1 DEF DuInv
  <1> QED
    BY <1>1, <1>2, <1>3 DEF DuInv

LEMMA SameBook ==
  ASSUME DuInv, UNCHANGED book, role' \in [Topic -> RoleSet],
         \A u \in Topic : role'[u].next = role[u].next,
         rounds' \subseteq RoundSet, departed' \in BOOLEAN
  PROVE  DuInv'
  BY DEF DuInv

LEMMA StampKeeps ==
  ASSUME DuInv, NEW t \in Topic, Stamp(t)
  PROVE  DuInv'
  <1> DEFINE m == role[t].next
             r == [role[t] EXCEPT !.next = @ + 1, !.cache = @ \cup {m}]
  <1>1. m \in Stamped /\ role[t] \in RoleSet /\ m + 1 \in 1..(MaxStamp + 1)
    BY Bounds DEF Stamp, Stamped, DuInv, RoleSet
  <1>2. r \in RoleSet /\ r.next = m + 1
    BY <1>1 DEF RoleSet
  <1>3. role' = [role EXCEPT ![t] = r] /\ book' \in Opened(t, m) /\ rounds' = Begun(r, t, m) /\ departed' = departed
    BY DEF Stamp
  <1> HIDE DEF m, r
  <1>4. role' \in [Topic -> RoleSet] /\ role'[t].next = m + 1 /\ \A u \in Topic \ {t} : role'[u] = role[u]
    BY <1>2, <1>3 DEF DuInv
  <1>5. rounds' \subseteq RoundSet
    BY <1>1, <1>3, BegunTyped, Bounds DEF Stamped
  <1>6. /\ book' \in [Topic -> [Stamped -> Entry]]
        /\ \A u \in Topic, k \in Stamped :
              Kept(book[u][k], book'[u][k]) \/ (u = t /\ k = m /\ book'[u][k] = PendingEntry)
    BY <1>1, <1>3, OpenedFacts
  <1>7. Good(PendingEntry)
    BY Bounds DEF PendingEntry, Good, Entry
  <1>8. \A u \in Topic, k \in Stamped : Good(book'[u][k])
    BY <1>6, <1>7, KeptGood DEF DuInv
  <1>9. ASSUME NEW u \in Topic, NEW k \in Stamped, k >= role'[u].next
        PROVE  book'[u][k] = NoEntry
    <2>1. role[u].next \in 1..(MaxStamp + 1) /\ m \in Nat /\ k \in Nat
      BY <1>1, Bounds DEF DuInv, RoleSet, Stamped
    <2>2. k >= role[u].next /\ ~(u = t /\ k = m)
      <3>1. CASE u = t
        BY <1>4, <1>9, <2>1, <3>1 DEF m
      <3>2. CASE u # t
        BY <1>4, <1>9, <3>2
      <3> QED
        BY <3>1, <3>2
    <2>3. book[u][k] = NoEntry /\ Kept(book[u][k], book'[u][k])
      BY <1>6, <2>2 DEF DuInv
    <2> QED
      BY <2>3, NoEntryGood DEF Kept
  <1> QED
    BY <1>3, <1>4, <1>5, <1>6, <1>8, <1>9 DEF DuInv

LEMMA KillKeeps ==
  ASSUME DuInv, NEW t \in Topic, NEW m \in Stamped, ApplyKill(t, m)
  PROVE  DuInv'
  <1> DEFINE r == [role[t] EXCEPT !.cache = @ \ {m}, !.tombs = @ \cup {m}]
             b == ClosedAs(book[t], {m}, "cancelled")
  <1>1. r \in RoleSet /\ r.next = role[t].next
    BY DEF DuInv, RoleSet
  <1>2. role' = [role EXCEPT ![t] = r] /\ rounds' = Begun(r, t, ByKill) /\ departed' = departed
    BY DEF ApplyKill
  <1>3. book' = [book EXCEPT ![t] = b]
    BY DEF ApplyKill
  <1> HIDE DEF r
  <1>4. role' \in [Topic -> RoleSet] /\ \A u \in Topic : role'[u].next = role[u].next
    BY <1>1, <1>2 DEF DuInv
  <1>5. rounds' \subseteq RoundSet
    <2>1. ByKill \in ByTick..ByKill
      BY Bounds
    <2> QED
      BY <1>2, <2>1, BegunTyped
  <1>6. book[t] \in [Stamped -> Entry] /\ \A k \in Stamped : Good(book[t][k])
    BY DEF DuInv
  <1>7. /\ b \in [Stamped -> Entry] /\ \A k \in Stamped : Good(b[k])
        /\ \A k \in Stamped : book[t][k] = NoEntry => b[k] = NoEntry
    BY <1>6, ClosedFacts
  <1>8. departed' \in BOOLEAN
    BY <1>2 DEF DuInv
  <1> HIDE DEF b
  <1> QED
    BY <1>3, <1>4, <1>5, <1>7, <1>8, OneBook

LEMMA NoCohortKeeps ==
  ASSUME DuInv, NEW rd \in rounds, NoCohort(rd)
  PROVE  DuInv'
  <1> DEFINE t == rd.t
             b == ClosedAs(book[t], Concerns(rd), "expired")
  <1>1. t \in Topic
    BY DEF DuInv, RoundSet
  <1>2. rounds' \subseteq RoundSet /\ departed' \in BOOLEAN
    BY DEF NoCohort, DuInv
  <1>3. role' = [role EXCEPT ![t].credited = FALSE] /\ book' = [book EXCEPT ![t] = b]
    BY DEF NoCohort
  <1>4. [role[t] EXCEPT !.credited = FALSE] \in RoleSet /\ [role[t] EXCEPT !.credited = FALSE].next = role[t].next
    <2>1. role[t] \in RoleSet
      BY <1>1 DEF DuInv
    <2> HIDE DEF t
    <2> QED
      BY <2>1 DEF RoleSet
  <1>5. role' \in [Topic -> RoleSet] /\ \A u \in Topic : role'[u].next = role[u].next
    BY <1>1, <1>3, <1>4 DEF DuInv
  <1>6. book[t] \in [Stamped -> Entry] /\ \A k \in Stamped : Good(book[t][k])
    BY <1>1 DEF DuInv
  <1>7. /\ b \in [Stamped -> Entry] /\ \A k \in Stamped : Good(b[k])
        /\ \A k \in Stamped : book[t][k] = NoEntry => b[k] = NoEntry
    BY <1>6, ClosedFacts
  <1> HIDE DEF b, t
  <1> QED
    BY <1>1, <1>2, <1>3, <1>5, <1>7, OneBook

LEMMA PushKeeps ==
  ASSUME DuInv, NEW rd \in rounds, NEW newcomer \in BOOLEAN, Push(rd, newcomer)
  PROVE  DuInv'
  <1> DEFINE t == rd.t
             full == NeedsFull(role[t], newcomer)
             next == [rd EXCEPT !.stage = "push", !.full = full, !.sig = Sig(role[t])]
             r == [role[t] EXCEPT !.credited = @ /\ ~newcomer]
  <1>1. t \in Topic /\ rd \in RoundSet
    BY DEF DuInv, RoundSet
  <1>2. role[t] \in RoleSet /\ Sig(role[t]) \in SigSet
    BY <1>1, SigTyped DEF DuInv
  <1>3. full \in BOOLEAN
    BY DEF NeedsFull
  <1>4. rounds' = (rounds \ {rd}) \cup {next} /\ role' = [role EXCEPT ![t] = r] /\ UNCHANGED <<book, departed>>
    BY DEF Push
  <1> HIDE DEF full
  <1>5. next \in RoundSet
    BY <1>1, <1>2, <1>3 DEF RoundSet
  <1>6. r \in RoleSet /\ r.next = role[t].next
    BY <1>2 DEF RoleSet
  <1> HIDE DEF next, r
  <1>7. role' \in [Topic -> RoleSet] /\ \A u \in Topic : role'[u].next = role[u].next
    BY <1>1, <1>4, <1>6 DEF DuInv
  <1>8. rounds' \subseteq RoundSet /\ departed' \in BOOLEAN
    BY <1>4, <1>5 DEF DuInv
  <1> QED
    BY <1>4, <1>7, <1>8, SameBook

LEMMA VerdictsKeep ==
  ASSUME DuInv, NEW rd \in rounds, NEW who \in {"all", "some", "none"}, Verdicts(rd, who)
  PROVE  DuInv'
  <1> DEFINE t == rd.t
             b == IF Evidence(rd) THEN Recorded(book[t], Concerns(rd), who # "none") ELSE book[t]
             sig == IF rd.full THEN rd.sig ELSE role[t].sig
             r == [role[t] EXCEPT !.credited = @ \/ who = "all", !.sig = sig, !.due = @ /\ ~rd.full]
  <1>1. t \in Topic /\ rd \in RoundSet /\ rd.sig \in SigSet /\ role[t] \in RoleSet
    BY DEF DuInv, RoundSet
  <1>2. sig \in SigSet
    BY <1>1 DEF RoleSet
  <1>3. role' = [role EXCEPT ![t] = r]
    BY <1>1 DEF Verdicts, DuInv
  <1>4. book \in [Topic -> [Stamped -> Entry]]
    BY DEF DuInv
  <1>5. book' = [book EXCEPT ![t] = b]
    BY <1>1, <1>4 DEF Verdicts
  <1> HIDE DEF sig
  <1>6. r \in RoleSet /\ r.next = role[t].next
    BY <1>1, <1>2 DEF RoleSet
  <1> HIDE DEF r
  <1>7. role' \in [Topic -> RoleSet] /\ \A u \in Topic : role'[u].next = role[u].next
    BY <1>1, <1>3, <1>6 DEF DuInv
  <1>8. rounds' \subseteq RoundSet /\ departed' \in BOOLEAN
    BY DEF Verdicts, DuInv
  <1>9. book[t] \in [Stamped -> Entry] /\ \A k \in Stamped : Good(book[t][k])
    BY <1>1 DEF DuInv
  <1>10. (who # "none") \in BOOLEAN
    OBVIOUS
  <1>11. /\ b \in [Stamped -> Entry] /\ \A k \in Stamped : Good(b[k])
         /\ \A k \in Stamped : book[t][k] = NoEntry => b[k] = NoEntry
    <2>1. CASE Evidence(rd)
      <3> DEFINE consumed == who # "none"
                 S == Concerns(rd)
      <3>1. b = Recorded(book[t], S, consumed)
        BY <2>1
      <3>2. consumed \in BOOLEAN
        OBVIOUS
      <3> HIDE DEF b, t, consumed, S
      <3>3. /\ Recorded(book[t], S, consumed) \in [Stamped -> Entry]
            /\ \A k \in Stamped : Good(Recorded(book[t], S, consumed)[k])
            /\ \A k \in Stamped : book[t][k] = NoEntry => Recorded(book[t], S, consumed)[k] = NoEntry
        BY <1>9, <3>2, RecordedFacts
      <3> QED
        BY <3>1, <3>3
    <2>2. CASE ~Evidence(rd)
      <3>1. b = book[t]
        BY <2>2
      <3> HIDE DEF b, t
      <3> QED
        BY <1>9, <3>1
    <2> QED
      BY <2>1, <2>2
  <1> HIDE DEF b, t
  <1> QED
    BY <1>1, <1>5, <1>7, <1>8, <1>11, OneBook

\* A role whose fields change, its next stamp excepted.
LEMMA RoleOnly ==
  ASSUME DuInv, NEW t \in Topic, NEW r \in RoleSet, r.next = role[t].next,
         role' = [role EXCEPT ![t] = r], UNCHANGED <<book, rounds, departed>>
  PROVE  DuInv'
  <1>1. role' \in [Topic -> RoleSet] /\ \A u \in Topic : role'[u].next = role[u].next
    BY DEF DuInv
  <1>2. rounds' \subseteq RoundSet /\ departed' \in BOOLEAN /\ UNCHANGED book
    BY DEF DuInv
  <1> QED
    BY <1>1, <1>2, SameBook

LEMMA DuStep == DuInv /\ [DuNext]_duVars => DuInv'
  <1> SUFFICES ASSUME DuInv, [DuNext]_duVars PROVE DuInv'
    OBVIOUS
  <1>1. ASSUME NEW t \in Topic, ReplicateTick(t) PROVE DuInv'
    <2>1. ByTick \in ByTick..ByKill
      BY Bounds
    <2>2. rounds' \subseteq RoundSet /\ departed' \in BOOLEAN
      BY <1>1, <2>1, BegunTyped DEF ReplicateTick, DuInv
    <2> QED
      BY <1>1, <2>2, SameBook DEF ReplicateTick, DuInv
  <1>2. ASSUME NEW t \in Topic, Stamp(t) PROVE DuInv'
    BY <1>2, StampKeeps
  <1>3. ASSUME NEW t \in Topic, FullDue(t) PROVE DuInv'
    <2> DEFINE r == [role[t] EXCEPT !.due = TRUE]
    <2>1. r \in RoleSet /\ r.next = role[t].next
      BY DEF DuInv, RoleSet
    <2> QED
      BY <1>3, <2>1, RoleOnly DEF FullDue
  <1>4. ASSUME NEW t \in Topic, LoseClaim(t) PROVE DuInv'
    <2> DEFINE r == [role[t] EXCEPT !.root = FALSE]
    <2>1. r \in RoleSet /\ r.next = role[t].next
      BY DEF DuInv, RoleSet
    <2> QED
      BY <1>4, <2>1, RoleOnly DEF LoseClaim
  <1>5. ASSUME NEW t \in Topic, NEW m \in Stamped, ApplyKill(t, m) PROVE DuInv'
    BY <1>5, KillKeeps
  <1>6. ASSUME NEW t \in Topic, NEW m \in Stamped, ExpireBody(t, m) PROVE DuInv'
    <2> DEFINE r == [role[t] EXCEPT !.cache = @ \ {m}]
    <2>1. r \in RoleSet /\ r.next = role[t].next
      BY DEF DuInv, RoleSet
    <2> QED
      BY <1>6, <2>1, RoleOnly DEF ExpireBody
  <1>7. ASSUME NEW rd \in rounds, NoDispatch(rd) PROVE DuInv'
    <2>1. rounds' \subseteq RoundSet /\ departed' \in BOOLEAN
      BY <1>7 DEF NoDispatch, DuInv
    <2> QED
      BY <1>7, <2>1, SameBook DEF NoDispatch, DuInv
  <1>8. ASSUME NEW rd \in rounds, NoCohort(rd) PROVE DuInv'
    BY <1>8, NoCohortKeeps
  <1>9. ASSUME NEW rd \in rounds, NEW newcomer \in BOOLEAN, Push(rd, newcomer) PROVE DuInv'
    BY <1>9, PushKeeps
  <1>10. ASSUME NEW rd \in rounds, NEW who \in {"all", "some", "none"}, Verdicts(rd, who) PROVE DuInv'
    BY <1>10, VerdictsKeep
  <1>11. CASE LeaveClears
    <2>1. book' = [t \in Topic |-> [m \in Stamped |-> NoEntry]] /\ UNCHANGED <<role, rounds>> /\ departed' = TRUE
      BY <1>11 DEF LeaveClears
    <2> QED
      BY <2>1, NoEntryGood DEF DuInv
  <1>12. CASE UNCHANGED duVars
    BY <1>12, SameBook DEF duVars, DuInv
  <1> QED
    BY <1>1, <1>2, <1>3, <1>4, <1>5, <1>6, <1>7, <1>8, <1>9, <1>10, <1>11, <1>12 DEF DuNext

\* The ledger's variables keep their types; no obligation that stands has used
\* up its attempts (DurabilityLedger.record).
THEOREM DurabilityTypes == DuSpec => []DuTypeOK
  <1>1. DuSpec => []DuInv
    BY DuInitial, DuStep, PTL DEF DuSpec
  <1>2. DuInv => DuTypeOK
    BY DEF DuInv, DuTypeOK, RoleSet, RoundSet, SigSet
  <1> QED
    BY <1>1, <1>2, PTL

-----------------------------------------------------------------------------
(***************************************************************************)
(* The refinement.                                                         *)
(***************************************************************************)
stampedBar == [t \in Topic |-> 1..(role[t].next - 1)]
lifeBar == [t \in Topic |-> [m \in Stamped |-> book[t][m].state]]
EndStates == {"verified", "expired", "cancelled"}

LifeOK ==
    /\ lifeBar \in [Topic -> [Stamped -> EndStates \cup {"none", "pending"}]]
    /\ \A u \in Topic, k \in Stamped : lifeBar[u][k] = book[u][k].state

LEMMA LifeTyped == DuInv => LifeOK
  <1> SUFFICES ASSUME DuInv PROVE LifeOK
    OBVIOUS
  <1>1. \A u \in Topic, k \in Stamped : book[u][k].state \in EndStates \cup {"none", "pending"}
    <2> SUFFICES ASSUME NEW u \in Topic, NEW k \in Stamped
                 PROVE  book[u][k].state \in EndStates \cup {"none", "pending"}
      OBVIOUS
    <2>1. book[u][k] \in Entry
      BY DEF DuInv
    <2> QED
      BY <2>1 DEF Entry, EndStates
  <1> QED
    BY <1>1 DEF lifeBar, LifeOK

LEMMA LifeTypedNext == DuInv' => LifeOK'
  BY LifeTyped, PTL

\* Nothing that Obligation sees.
LEMMA Stutters ==
  ASSUME UNCHANGED book, role \in [Topic -> RoleSet], \A u \in Topic : role'[u].next = role[u].next
  PROVE  UNCHANGED <<stampedBar, lifeBar>>
  BY DEF stampedBar, lifeBar

\* Entries of one role end, all in the same way.
LEMMA Ends ==
  ASSUME DuInv, DuInv', NEW t \in Topic, NEW S \in SUBSET Stamped, NEW how \in EndStates,
         \A k \in S : book[t][k].state = "pending",
         \A k \in Stamped : book'[t][k].state = IF k \in S THEN how ELSE book[t][k].state,
         \A u \in Topic \ {t} : book'[u] = book[u],
         \A u \in Topic : role'[u].next = role[u].next
  PROVE  Ledger!EndSome(t, S, how)
  <1>1. stampedBar' = stampedBar
    BY DEF stampedBar
  <1>2. \A k \in S : lifeBar[t][k] = "pending"
    BY LifeTyped DEF LifeOK
  <1>3. lifeBar' = [lifeBar EXCEPT ![t] = [m \in Stamped |-> IF m \in S THEN how ELSE @[m]]]
    <2> DEFINE new == [m \in Stamped |-> IF m \in S THEN how ELSE lifeBar[t][m]]
               next == [lifeBar EXCEPT ![t] = new]
    <2>1. \A k \in Stamped : lifeBar[t][k] = book[t][k].state
      BY LifeTyped DEF LifeOK
    <2>2. [m \in Stamped |-> book'[t][m].state] = new
      BY <2>1
    <2>3. \A u \in Topic : next[u] = IF u = t THEN new ELSE lifeBar[u]
      BY DEF lifeBar
    <2>4. \A u \in Topic \ {t} : [m \in Stamped |-> book'[u][m].state] = lifeBar[u]
      BY DEF lifeBar
    <2>5. next = [u \in Topic |-> next[u]]
      BY DEF lifeBar
    <2> HIDE DEF new, next
    <2>6. \A u \in Topic : next[u] = [m \in Stamped |-> book'[u][m].state]
      BY <2>2, <2>3, <2>4
    <2>7. lifeBar' = [u \in Topic |-> [m \in Stamped |-> book'[u][m].state]]
      BY DEF lifeBar
    <2>8. lifeBar' = next
      BY <2>5, <2>6, <2>7, Zenon
    <2> QED
      BY <2>8 DEF new, next
  <1> QED
    BY <1>1, <1>2, <1>3 DEF Ledger!EndSome, stampedBar, lifeBar

LEMMA AbstractEnd ==
  ASSUME NEW t \in Topic, NEW S \in SUBSET Stamped, NEW how \in EndStates, Ledger!EndSome(t, S, how)
  PROVE  Ledger!ObNext
  BY DEF Ledger!ObNext, Ledger!Ended, EndStates

\* _ingestPublish: the obligation opens with its message, or there is no room.
LEMMA StampRefines ==
  ASSUME DuInv, DuInv', NEW t \in Topic, Stamp(t)
  PROVE  Ledger!ObNext
  <1>0. role[t].next \in Stamped
    BY Bounds DEF Stamp, Stamped, DuInv, RoleSet
  <1>m. PICK m \in Stamped : m = role[t].next
    BY <1>0
  <1>1. m \in Stamped /\ m \in Nat /\ m > 0
    BY Bounds DEF Stamped
  <1>2. role'[t].next = m + 1 /\ \A u \in Topic \ {t} : role'[u] = role[u]
    <2>1. role[t] \in RoleSet /\ role \in [Topic -> RoleSet]
      BY DEF DuInv
    <2> QED
      BY <2>1, <1>m DEF Stamp, RoleSet
  <1>3. /\ book' \in [Topic -> [Stamped -> Entry]]
        /\ \A u \in Topic, k \in Stamped :
              Kept(book[u][k], book'[u][k]) \/ (u = t /\ k = m /\ book'[u][k] = PendingEntry)
    BY <1>1, <1>m, OpenedFacts DEF Stamp
  <1>4. book[t][m] = NoEntry
    BY <1>1, <1>m DEF DuInv
  <1> DEFINE St == EndStates \cup {"none", "pending"}
  <1>5. /\ lifeBar \in [Topic -> [Stamped -> St]] /\ lifeBar' \in [Topic -> [Stamped -> St]]
        /\ \A u \in Topic, k \in Stamped : lifeBar[u][k] = book[u][k].state /\ lifeBar'[u][k] = book'[u][k].state
    BY LifeTyped, LifeTypedNext DEF LifeOK
  <1>6. m \notin stampedBar[t] /\ stampedBar' = [stampedBar EXCEPT ![t] = @ \cup {m}]
    <2>1. stampedBar[t] = 1..(m - 1) /\ m \notin 1..(m - 1)
      BY <1>1, <1>m DEF stampedBar
    <2>2. 1..((m + 1) - 1) = (1..(m - 1)) \cup {m}
      BY <1>1
    <2>3. \A u \in Topic : 1..(role'[u].next - 1) = IF u = t THEN (1..(m - 1)) \cup {m} ELSE stampedBar[u]
      BY <1>2, <2>2 DEF stampedBar
    <2>4. stampedBar' = [u \in Topic |-> 1..(role'[u].next - 1)]
      BY DEF stampedBar
    <2>5. stampedBar = [u \in Topic |-> stampedBar[u]]
      BY DEF stampedBar
    <2> QED
      BY <2>1, <2>3, <2>4, <2>5
  <1>7. \A u \in Topic, k \in Stamped : ~(u = t /\ k = m) =>
           lifeBar'[u][k] = lifeBar[u][k] \/ (lifeBar[u][k] \in EndStates /\ lifeBar'[u][k] = "none")
    <2> SUFFICES ASSUME NEW u \in Topic, NEW k \in Stamped, ~(u = t /\ k = m)
                 PROVE  lifeBar'[u][k] = lifeBar[u][k] \/ (lifeBar[u][k] \in EndStates /\ lifeBar'[u][k] = "none")
      OBVIOUS
    <2>1. Kept(book[u][k], book'[u][k])
      BY <1>3
    <2>2. lifeBar[u][k] = book[u][k].state /\ lifeBar'[u][k] = book'[u][k].state
      BY <1>5
    <2> QED
      BY <2>1, <2>2, NoEntryGood DEF Kept, EndStates
  <1>8. lifeBar[t][m] = "none"
    BY <1>1, <1>4, <1>5, NoEntryGood
  <1>9. lifeBar'[t][m] \in {"none", "pending"}
    BY <1>1, <1>3, <1>4, <1>5, NoEntryGood DEF Kept, PendingEntry
  <1>10. CASE lifeBar'[t][m] = "none"
    <2>1. Ledger!Forgets(lifeBar, lifeBar')
      BY <1>7, <1>8, <1>10 DEF Ledger!Forgets, Ledger!Ended, EndStates
    <2>2. Ledger!StampOne(t, m)
      BY <1>5, <1>6, <2>1 DEF Ledger!StampOne, Ledger!Ended, EndStates, stampedBar, lifeBar
    <2> QED
      BY <1>1, <2>2 DEF Ledger!ObNext
  <1>11. CASE lifeBar'[t][m] = "pending"
    <2> DEFINE new == [lifeBar' EXCEPT ![t][m] = "none"]
    <2>1. \A u \in Topic, k \in Stamped : new[u][k] = IF u = t /\ k = m THEN "none" ELSE lifeBar'[u][k]
      BY <1>1, <1>5
    <2> HIDE DEF new
    <2>2. Ledger!Forgets(lifeBar, new)
      BY <1>7, <1>8, <2>1 DEF Ledger!Forgets, Ledger!Ended, EndStates
    <2>3. Ledger!StampOne(t, m)
      BY <1>5, <1>6, <1>8, <1>11, <2>2 DEF Ledger!StampOne, Ledger!Ended, EndStates, stampedBar, lifeBar, new
    <2> QED
      BY <1>1, <2>3 DEF Ledger!ObNext
  <1> QED
    BY <1>9, <1>10, <1>11

LEMMA ClosedRefines ==
  ASSUME DuInv, DuInv', NEW t \in Topic, NEW C, NEW how \in {"expired", "cancelled"},
         book' = [book EXCEPT ![t] = ClosedAs(@, C, how)],
         \A u \in Topic : role'[u].next = role[u].next
  PROVE  Ledger!ObNext
  <1>0. C \cap Standing(book[t]) \in SUBSET Stamped
    BY DEF Standing, In
  <1>s. PICK S \in SUBSET Stamped : S = C \cap Standing(book[t])
    BY <1>0
  <1>1. \A k \in S : book[t][k].state = "pending"
    BY <1>s DEF Standing, In
  <1>2. /\ book[t] \in [Stamped -> Entry] /\ \A k \in Stamped : Good(book[t][k])
        /\ book \in [Topic -> [Stamped -> Entry]]
    BY DEF DuInv
  <1>3. \A k \in Stamped : ClosedAs(book[t], C, how)[k].state = IF k \in S THEN how ELSE book[t][k].state
    BY <1>2, <1>s, ClosedFacts
  <1>4. book'[t] = ClosedAs(book[t], C, how) /\ \A u \in Topic \ {t} : book'[u] = book[u]
    BY <1>2
  <1>5. how \in EndStates
    BY DEF EndStates
  <1>6. \A k \in Stamped : book'[t][k].state = IF k \in S THEN how ELSE book[t][k].state
    BY <1>3, <1>4
  <1>7. Ledger!EndSome(t, S, how)
    BY <1>1, <1>4, <1>5, <1>6, Ends
  <1> QED
    BY <1>1, <1>5, <1>7, AbstractEnd

\* record: with evidence the round verifies all it is about, or uses up an
\* attempt of each, the last of some.
LEMMA VerdictsRefine ==
  ASSUME DuInv, DuInv', NEW rd \in rounds, NEW who \in {"all", "some", "none"}, Verdicts(rd, who)
  PROVE  Ledger!ObNext \/ UNCHANGED <<stampedBar, lifeBar>>
  <1> DEFINE consumed == who # "none"
             D == Concerns(rd)
  <1>0. rd.t \in Topic /\ role \in [Topic -> RoleSet] /\ role[rd.t] \in RoleSet
    BY DEF DuInv, RoundSet
  <1>t. PICK t \in Topic : t = rd.t
    BY <1>0
  <1>1. role \in [Topic -> RoleSet] /\ consumed \in BOOLEAN
    BY <1>0
  <1>2. \A u \in Topic : role'[u].next = role[u].next
    BY <1>0 DEF Verdicts, RoleSet
  <1>3. book' = IF Evidence(rd) THEN [book EXCEPT ![t] = Recorded(@, D, consumed)] ELSE book
    BY <1>t DEF Verdicts
  <1> HIDE DEF consumed, D
  <1>4. CASE ~Evidence(rd)
    BY <1>1, <1>2, <1>3, <1>4, Stutters
  <1>5. CASE Evidence(rd)
    <2>1. /\ book[t] \in [Stamped -> Entry] /\ \A k \in Stamped : Good(book[t][k])
          /\ book \in [Topic -> [Stamped -> Entry]]
      BY DEF DuInv
    <2>2. D \cap Standing(book[t]) \in SUBSET Stamped
      BY DEF Standing, In
    <2>3. book' = [book EXCEPT ![t] = Recorded(book[t], D, consumed)]
      BY <1>3, <1>5
    <2>4. PICK C \in SUBSET Stamped : C = D \cap Standing(book[t])
      BY <2>2
    <2>5. \A k \in Stamped : Recorded(book[t], D, consumed)[k].state =
             IF k \notin C THEN book[t][k].state
             ELSE IF consumed THEN "verified"
             ELSE IF book[t][k].tries + 1 >= MaxTry THEN "expired" ELSE "pending"
      BY <1>1, <2>1, <2>4, RecordedFacts
    <2>6. book'[t] = Recorded(book[t], D, consumed) /\ \A u \in Topic \ {t} : book'[u] = book[u]
      BY <2>1, <2>3
    <2>7. \A k \in C : book[t][k].state = "pending"
      BY <2>4 DEF Standing, In
    <2>8. CASE consumed
      <3>1. \A k \in Stamped : book'[t][k].state = IF k \in C THEN "verified" ELSE book[t][k].state
        BY <2>5, <2>6, <2>8
      <3>2. "verified" \in EndStates
        BY DEF EndStates
      <3>3. Ledger!EndSome(t, C, "verified")
        BY <1>2, <2>6, <2>7, <3>1, <3>2, Ends
      <3> QED
        BY <3>2, <3>3, AbstractEnd
    <2>9. CASE ~consumed
      <3>0. {k \in C : book[t][k].tries + 1 >= MaxTry} \in SUBSET Stamped
        OBVIOUS
      <3>x. PICK X \in SUBSET Stamped : X = {k \in C : book[t][k].tries + 1 >= MaxTry}
        BY <3>0
      <3>1. \A k \in Stamped : book'[t][k].state = IF k \in X THEN "expired" ELSE book[t][k].state
        BY <2>5, <2>6, <2>7, <2>9, <3>x
      <3>2. "expired" \in EndStates /\ \A k \in X : book[t][k].state = "pending"
        BY <2>7, <3>x DEF EndStates
      <3>3. Ledger!EndSome(t, X, "expired")
        BY <1>2, <2>6, <3>1, <3>2, Ends
      <3> QED
        BY <3>2, <3>3, AbstractEnd
    <2> QED
      BY <2>8, <2>9
  <1> QED
    BY <1>4, <1>5

LEMMA RefinementInit == DuInit => Ledger!ObInit
  <1> SUFFICES ASSUME DuInit PROVE Ledger!ObInit
    OBVIOUS
  <1>1. \A t \in Topic : role[t].next = 1 /\ book[t] = [m \in Stamped |-> NoEntry]
    BY DEF DuInit
  <1>2. \A t \in Topic : 1..(role[t].next - 1) = {}
    BY <1>1
  <1>3. [t \in Topic |-> 1..(role[t].next - 1)] = [t \in Topic |-> {}]
    BY <1>2
  <1>4. \A t \in Topic : [m \in Stamped |-> book[t][m].state] = [m \in Stamped |-> "none"]
    BY <1>1, NoEntryGood
  <1>5. [t \in Topic |-> [m \in Stamped |-> book[t][m].state]] = [t \in Topic |-> [m \in Stamped |-> "none"]]
    BY <1>4
  <1> QED
    BY <1>3, <1>5 DEF Ledger!ObInit

LEMMA RefinementStep ==
  ASSUME DuInv, DuInv', [DuNext]_duVars
  PROVE  [Ledger!ObNext]_(Ledger!obVars)
  <1> DEFINE Goal == Ledger!ObNext \/ UNCHANGED <<stampedBar, lifeBar>>
  <1>0. Goal => [Ledger!ObNext]_(Ledger!obVars)
    BY DEF Ledger!obVars, stampedBar, lifeBar
  <1> SUFFICES Goal
    BY <1>0
  <1>a. role \in [Topic -> RoleSet]
    BY DEF DuInv
  <1>1. ASSUME NEW t \in Topic, Stamp(t) PROVE Goal
    BY <1>1, StampRefines
  <1>2. ASSUME NEW t \in Topic, ReplicateTick(t) \/ FullDue(t) \/ LoseClaim(t) PROVE Goal
    <2>1. UNCHANGED book /\ \A u \in Topic : role'[u].next = role[u].next
      BY <1>2, <1>a DEF ReplicateTick, FullDue, LoseClaim, RoleSet
    <2> QED
      BY <1>a, <2>1, Stutters
  <1>3. ASSUME NEW t \in Topic, NEW m \in Stamped, ApplyKill(t, m) PROVE Goal
    <2>1. \A u \in Topic : role'[u].next = role[u].next
      BY <1>3, <1>a DEF ApplyKill, RoleSet
    <2>2. book' = [book EXCEPT ![t] = ClosedAs(@, {m}, "cancelled")]
      BY <1>3 DEF ApplyKill
    <2> QED
      BY <2>1, <2>2, ClosedRefines
  <1>4. ASSUME NEW t \in Topic, NEW m \in Stamped, ExpireBody(t, m) PROVE Goal
    <2>1. UNCHANGED book /\ \A u \in Topic : role'[u].next = role[u].next
      BY <1>4, <1>a DEF ExpireBody, RoleSet
    <2> QED
      BY <1>a, <2>1, Stutters
  <1>5. ASSUME NEW rd \in rounds, NoDispatch(rd) PROVE Goal
    BY <1>5, <1>a, Stutters DEF NoDispatch
  <1>6. ASSUME NEW rd \in rounds, NoCohort(rd) PROVE Goal
    <2>1. rd.t \in Topic
      BY DEF DuInv, RoundSet
    <2>2. \A u \in Topic : role'[u].next = role[u].next
      BY <1>6, <1>a DEF NoCohort, RoleSet
    <2>3. book' = [book EXCEPT ![rd.t] = ClosedAs(@, Concerns(rd), "expired")]
      BY <1>6 DEF NoCohort
    <2> QED
      BY <2>1, <2>2, <2>3, ClosedRefines
  <1>7. ASSUME NEW rd \in rounds, NEW newcomer \in BOOLEAN, Push(rd, newcomer) PROVE Goal
    <2>1. UNCHANGED book /\ \A u \in Topic : role'[u].next = role[u].next
      BY <1>7, <1>a DEF Push, RoleSet
    <2> QED
      BY <1>a, <2>1, Stutters
  <1>8. ASSUME NEW rd \in rounds, NEW who \in {"all", "some", "none"}, Verdicts(rd, who) PROVE Goal
    BY <1>8, VerdictsRefine
  <1>9. CASE LeaveClears
    <2>1. UNCHANGED role /\ book' = [t \in Topic |-> [m \in Stamped |-> NoEntry]]
      BY <1>9 DEF LeaveClears
    <2>2. stampedBar' = stampedBar
      BY <2>1 DEF stampedBar
    <2>3. \A t \in Topic, m \in Stamped : book'[t][m].state = "none"
      BY <2>1, NoEntryGood
    <2>4. lifeBar' = [t \in Topic |-> [m \in Stamped |-> "none"]]
      BY <2>3 DEF lifeBar
    <2>5. Ledger!Clear
      BY <2>2, <2>4 DEF Ledger!Clear, stampedBar, lifeBar
    <2> QED
      BY <2>5 DEF Ledger!ObNext
  <1>10. CASE UNCHANGED duVars
    BY <1>10, <1>a, Stutters DEF duVars
  <1> QED
    BY <1>1, <1>2, <1>3, <1>4, <1>5, <1>6, <1>7, <1>8, <1>9, <1>10 DEF DuNext

\* Durability : pending -> verified | expired | cancelled (header of
\* durability.js): an obligation opens once, ends once, and only leave() drops
\* one that stands, however many rounds, kills and stamps cross and whatever
\* the caps.
THEOREM ObligationsKept == DuSpec => KeepsObligations
  <1>1. DuSpec => []DuInv
    BY DuInitial, DuStep, PTL DEF DuSpec
  <1>2. DuInv /\ DuInv' /\ [DuNext]_duVars => [Ledger!ObNext]_(Ledger!obVars)
    BY RefinementStep
  <1> QED
    BY <1>1, <1>2, RefinementInit, PTL DEF DuSpec, KeepsObligations, Ledger!ObSpec

-----------------------------------------------------------------------------
(***************************************************************************)
(* The composition: a step of it is a step of one of the two, or of none.    *)
(***************************************************************************)
\* Every variable of the election and of the durability ledger stays in its type,
\* whichever of them moves (rootClaim.js, durabilityLedger.js).
THEOREM RootsTypes == RootsSpec => []RootsTypeOK
  <1>1. RootsInit => part \in Part /\ ReInit /\ DuInit
    BY DEF RootsInit
  <1>2. [RootsNext]_rootsVars => part' = part /\ [ReNext]_reVars /\ [DuNext]_duVars
    BY DEF RootsNext, rootsVars
  <1>3. part \in Part /\ part' = part => (part \in Part)'
    OBVIOUS
  <1>4. part \in Part /\ ReTypeOK /\ DuTypeOK => RootsTypeOK
    BY DEF RootsTypeOK
  <1> QED
    BY <1>1, <1>2, <1>3, <1>4, ElectionTypesAlways, DurabilityTypes, PTL DEF RootsSpec, ReSpec, DuSpec
=============================================================================
