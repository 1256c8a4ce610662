---------------------------- MODULE PairsProofs ----------------------------
(***************************************************************************)
(* Two that have to agree: the merge of two roots, for every number of      *)
(* losers, rounds and messages, every lease and skew, and any number of     *)
(* duplicates and crashes; the two ends of a channel, for any number of     *)
(* attempts, nonces and failures; the two ends of its heartbeat, and a node *)
(* and its bridge, through any schedule of timers and awaits.               *)
(***************************************************************************)
EXTENDS MCPairs, MCLive, KillsProofs, FiniteSetTheorems, SequenceTheorems, TLAPS

-----------------------------------------------------------------------------
(***************************************************************************)
(* The export.                                                             *)
(***************************************************************************)
LEMMA SetToSeqFacts ==
  ASSUME NEW S, IsFiniteSet(S)
  PROVE  /\ Cardinality(S) \in Nat
         /\ SetToSeq(S) \in [1..Cardinality(S) -> S]
         /\ \A x \in S : \E i \in 1..Cardinality(S) : SetToSeq(S)[i] = x
  <1> DEFINE n == Cardinality(S)
  <1>1. n \in Nat /\ ExistsBijection(1..n, S)
    BY FS_CardinalityType
  <1>2. PICK g \in Bijection(1..n, S) : TRUE
    BY <1>1 DEF ExistsBijection
  <1>3. g \in [1..n -> S] /\ IsInjective(g)
    BY <1>2 DEF Bijection, Injection, IsInjective
  <1> DEFINE f == SetToSeq(S)
  <1>4. f \in [1..n -> S] /\ IsInjective(f)
    BY <1>3 DEF SetToSeq
  <1> HIDE DEF f
  <1>5. f \in Injection(1..n, S)
    BY <1>4 DEF Injection, IsInjective
  <1>6. Cardinality(1..n) = n
    BY <1>1, FS_Interval
  <1>7. f \in Surjection(1..n, S)
    BY <1>5, <1>6, FS_Injection
  <1> QED
    BY <1>1, <1>4, <1>7 DEF Surjection, f

\* The items of one kind made from a set.
ItemsOf(k, S) == [i \in 1..Cardinality(S) |-> [kind |-> k, id |-> SetToSeq(S)[i]]]

LEMMA ItemsFacts ==
  ASSUME NEW S \in SUBSET Msg, NEW k \in {"body", "del"}
  PROVE  /\ ItemsOf(k, S) \in Seq(Item)
         /\ \A i \in 1..Len(ItemsOf(k, S)) : ItemsOf(k, S)[i].kind = k /\ ItemsOf(k, S)[i].id \in S
         /\ \A x \in S : \E i \in 1..Len(ItemsOf(k, S)) : ItemsOf(k, S)[i].id = x
  <1>1. IsFiniteSet(S)
    BY MergeAssumption, FS_Subset
  <1> DEFINE n == Cardinality(S)
             f == SetToSeq(S)
  <1>2. n \in Nat /\ f \in [1..n -> S] /\ \A x \in S : \E i \in 1..n : f[i] = x
    BY <1>1, SetToSeqFacts
  <1>3. ItemsOf(k, S) = [i \in 1..n |-> [kind |-> k, id |-> f[i]]]
    BY DEF ItemsOf
  <1> HIDE DEF n, f
  <1>4. \A i \in 1..n : [kind |-> k, id |-> f[i]] \in Item
    BY <1>2 DEF Item
  <1>5. ItemsOf(k, S) \in Seq(Item) /\ Len(ItemsOf(k, S)) = n
    BY <1>2, <1>3, <1>4
  <1> QED
    BY <1>2, <1>3, <1>5

LEMMA IdsOfItems ==
  ASSUME NEW s \in Seq(Item), NEW k
  PROVE  /\ \A x : x \in Ids(s, k) <=> \E i \in 1..Len(s) : s[i].kind = k /\ s[i].id = x
         /\ Ids(s, k) \in SUBSET Msg
  <1>1. DOMAIN s = 1..Len(s) /\ \A i \in 1..Len(s) : s[i] \in Item
    OBVIOUS
  <1>2. \A x : x \in Ids(s, k) <=> \E i \in 1..Len(s) : s[i].kind = k /\ s[i].id = x
    BY <1>1 DEF Ids, Range
  <1> QED
    BY <1>1, <1>2 DEF Item

LEMMA NothingExported == <<>> \in Seq(Item) /\ Bodies(<<>>) = {} /\ Dels(<<>>) = {}
  BY DEF Bodies, Dels, Ids, Range

\* The export is what the loser holds.
LEMMA ExportIsAll ==
  ASSUME NEW l \in Loser, lCache[l] \in SUBSET Msg, lTomb[l] \in SUBSET Msg
  PROVE  Export(l) \in Seq(Item) /\ Bodies(Export(l)) = lCache[l] /\ Dels(Export(l)) = lTomb[l]
  <1> DEFINE a == ItemsOf("body", lCache[l])
             b == ItemsOf("del", lTomb[l])
  <1>1. /\ a \in Seq(Item)
        /\ \A i \in 1..Len(a) : a[i].kind = "body" /\ a[i].id \in lCache[l]
        /\ \A x \in lCache[l] : \E i \in 1..Len(a) : a[i].id = x
    BY ItemsFacts
  <1>2. /\ b \in Seq(Item)
        /\ \A i \in 1..Len(b) : b[i].kind = "del" /\ b[i].id \in lTomb[l]
        /\ \A x \in lTomb[l] : \E i \in 1..Len(b) : b[i].id = x
    BY ItemsFacts
  <1>3. Export(l) = a \o b
    BY DEF Export, ItemsOf
  <1> HIDE DEF a, b
  <1> DEFINE e == a \o b
  <1>4. e \in Seq(Item)
    BY <1>1, <1>2, ConcatProperties
  <1>5. Len(e) = Len(a) + Len(b)
    BY <1>1, <1>2, ConcatProperties
  <1>6. \A i \in 1..(Len(a) + Len(b)) : e[i] = IF i <= Len(a) THEN a[i] ELSE b[i - Len(a)]
    BY <1>1, <1>2, ConcatProperties
  <1> HIDE DEF e
  <1>a. Len(a) \in Nat /\ Len(b) \in Nat
    BY <1>1, <1>2
  <1>7. \A i \in 1..Len(a) : i \in 1..Len(e) /\ e[i] = a[i]
    BY <1>5, <1>6, <1>a
  <1>8. \A i \in 1..Len(b) : i + Len(a) \in 1..Len(e) /\ e[i + Len(a)] = b[i]
    BY <1>5, <1>6, <1>a
  <1>9. \A i \in 1..Len(e) : (\E j \in 1..Len(a) : e[i] = a[j]) \/ (\E j \in 1..Len(b) : e[i] = b[j])
    <2> SUFFICES ASSUME NEW i \in 1..Len(e)
                 PROVE  (\E j \in 1..Len(a) : e[i] = a[j]) \/ (\E j \in 1..Len(b) : e[i] = b[j])
      OBVIOUS
    <2>1. CASE i <= Len(a)
      BY <1>5, <1>6, <1>a, <2>1
    <2>2. CASE ~(i <= Len(a))
      <3>1. i - Len(a) \in 1..Len(b) /\ e[i] = b[i - Len(a)]
        BY <1>5, <1>6, <1>a, <2>2
      <3> QED
        BY <3>1
    <2> QED
      BY <2>1, <2>2
  <1>10. \A x : x \in Ids(e, "body") <=> x \in lCache[l]
    <2>1. ASSUME NEW x \in lCache[l] PROVE x \in Ids(e, "body")
      <3>1. PICK i \in 1..Len(a) : a[i].id = x
        BY <1>1
      <3>2. \E j \in 1..Len(e) : e[j].kind = "body" /\ e[j].id = x
        BY <1>1, <1>7, <3>1
      <3> QED
        BY <1>4, <3>2, IdsOfItems
    <2>2. ASSUME NEW x \in Ids(e, "body") PROVE x \in lCache[l]
      <3>1. PICK i \in 1..Len(e) : e[i].kind = "body" /\ e[i].id = x
        BY <1>4, IdsOfItems
      <3>2. \E j \in 1..Len(a) : e[i] = a[j]
        BY <1>1, <1>2, <1>9, <3>1
      <3> QED
        BY <1>1, <3>1, <3>2
    <2> QED
      BY <2>1, <2>2
  <1>11. \A x : x \in Ids(e, "del") <=> x \in lTomb[l]
    <2>1. ASSUME NEW x \in lTomb[l] PROVE x \in Ids(e, "del")
      <3>1. PICK i \in 1..Len(b) : b[i].id = x
        BY <1>2
      <3>2. \E j \in 1..Len(e) : e[j].kind = "del" /\ e[j].id = x
        BY <1>2, <1>8, <3>1
      <3> QED
        BY <1>4, <3>2, IdsOfItems
    <2>2. ASSUME NEW x \in Ids(e, "del") PROVE x \in lTomb[l]
      <3>1. PICK i \in 1..Len(e) : e[i].kind = "del" /\ e[i].id = x
        BY <1>4, IdsOfItems
      <3>2. \E j \in 1..Len(b) : e[i] = b[j]
        BY <1>1, <1>2, <1>9, <3>1
      <3> QED
        BY <1>2, <3>1, <3>2
    <2> QED
      BY <2>1, <2>2
  <1> QED
    <2>1. Ids(e, "body") = lCache[l]
      BY <1>10
    <2>2. Ids(e, "del") = lTomb[l]
      BY <1>11
    <2> QED
      BY <1>3, <1>4, <2>1, <2>2 DEF Bodies, Dels, e

-----------------------------------------------------------------------------
(***************************************************************************)
(* Types, the frames in flight included.                                   *)
(***************************************************************************)
OfferFrame  == [type : {"offer"}, corr : Corr, from : Loser]
PullFrame   == [type : {"pull"}, corr : Corr, cursor : Nat \cup {None}, epoch : Nat]
PlainFrame  == [type : {"header", "refused"}, corr : Corr]
ItemsFrame  == [type : {"frame"}, corr : Corr, cursor : Nat, to : Nat, items : Seq(Item), more : BOOLEAN,
                man : Seq(Item)]
AckFrame    == [type : {"ack"}, corr : Corr, disp : {"full", "short", "refused-capacity", "not-root"},
                epoch : Nat, man : Seq(Item)]
CloseFrame  == [type : {"sub", "closed"}, corr : Corr, epoch : Nat]
WriteFrame  == [type : {"write"}, w : Write]
MergeFrame  == OfferFrame \cup PullFrame \cup PlainFrame \cup ItemsFrame \cup AckFrame \cup CloseFrame
Frame       == MergeFrame \cup WriteFrame

LoserType ==
    /\ lRoot \in [Loser -> BOOLEAN] /\ lGen \in [Loser -> Nat] /\ fwd \in [Loser -> BOOLEAN]
    /\ lCache \in [Loser -> SUBSET Msg] /\ lTomb \in [Loser -> SUBSET Msg] /\ lPins \in [Loser -> SUBSET Msg]
    /\ gate \in [Loser -> Corr \cup {None}] /\ completing \in [Loser -> Corr \cup {None}]
    /\ cand \in [Loser -> Nat]
    /\ ingest \in [Loser -> SUBSET [w : Write, gen : Nat]]
WinnerType ==
    /\ wRoot \in BOOLEAN /\ wEpoch \in Nat
    /\ wCache \in SUBSET Msg /\ wTomb \in SUBSET Msg /\ wPins \in SUBSET Msg
RoundsType == round \in [Corr -> RoundType]
PullsType == pull \in [Corr -> PullType]
NetType ==
    /\ net \subseteq Frame /\ dups \in Nat /\ issued \subseteq Write
    /\ busy \subseteq [frame : ItemsFrame, n : Nat]

\* A round that is open, or was bound, has an owner.
Owned == \A c \in Corr : round[c].st \in {"offered", "bound", "completed"} => round[c].owner \in Loser

Types == LoserType /\ WinnerType /\ RoundsType /\ PullsType /\ NetType /\ Owned

LEMMA Kinds ==
  ASSUME NEW m \in Frame
  PROVE  /\ m.type = "offer" => m \in OfferFrame
         /\ m.type = "pull" => m \in PullFrame
         /\ m.type \in {"header", "refused"} => m \in PlainFrame
         /\ m.type = "frame" => m \in ItemsFrame
         /\ m.type = "ack" => m \in AckFrame
         /\ m.type \in {"sub", "closed"} => m \in CloseFrame
         /\ m.type = "write" => m \in WriteFrame
  BY DEF Frame, MergeFrame, OfferFrame, PullFrame, PlainFrame, ItemsFrame, AckFrame, CloseFrame, WriteFrame

LEMMA Corrs ==
  ASSUME NEW m \in Frame, m.type # "write"
  PROVE  m.corr \in Corr
  BY DEF Frame, MergeFrame, OfferFrame, PullFrame, PlainFrame, ItemsFrame, AckFrame, CloseFrame, WriteFrame

LEMMA Ages == Retain \in Nat /\ 0 \in 0..Retain /\ \A n \in 0..Retain : Older(n) \in 0..Retain
  BY MergeAssumption DEF Older

LEMMA NoRoundTyped == NoRound \in RoundType
  BY Ages, NothingExported DEF NoRound, RoundType

LEMMA NoPullTyped == NoPull \in PullType
  BY Ages DEF NoPull, PullType

LEMMA DeliverTyped ==
  ASSUME NetType, NEW m, NEW out, Deliver(m, out), out \subseteq Frame
  PROVE  net' \subseteq Frame /\ dups' \in Nat
  BY DEF Deliver, NetType

LEMMA SentTyped ==
  ASSUME NetType, NEW out, Sent(out), out \subseteq Frame
  PROVE  net' \subseteq Frame /\ dups' \in Nat
  BY DEF Sent, NetType

LEMMA DeliverNothing ==
  ASSUME NetType, NEW m, Deliver(m, {})
  PROVE  net' \subseteq Frame /\ dups' \in Nat
  BY DEF Deliver, NetType

LEMMA SentNothing ==
  ASSUME NetType, Sent({})
  PROVE  net' \subseteq Frame /\ dups' \in Nat
  BY DEF Sent, NetType

LEMMA ClosedTyped ==
  ASSUME RoundsType, NEW c \in Corr \cup {None}
  PROVE  Closed(c) \in [Corr -> RoundType]
  <1>1. CASE c \in Corr
    <2>1. round[c].owner \in Loser \cup {None}
      BY <1>1 DEF RoundsType, RoundType
    <2>2. [NoRound EXCEPT !.st = "closed", !.owner = round[c].owner] \in RoundType
      BY <2>1, NoRoundTyped DEF RoundType
    <2> QED
      BY <2>2 DEF Closed, RoundsType
  <1>2. CASE c \notin Corr
    BY <1>2 DEF Closed, RoundsType
  <1> QED
    BY <1>1, <1>2

LEMMA DroppedTyped ==
  ASSUME PullsType, NEW c \in Corr
  PROVE  Dropped(c) \in [Corr -> PullType]
  BY DEF Dropped, PullsType, PullType

LEMMA TypesInit == Init => Types
  <1> SUFFICES ASSUME Init PROVE Types
    OBVIOUS
  <1>1. LoserType
    BY DEF Init, LoserType
  <1>2. WinnerType
    BY DEF Init, WinnerType
  <1>3. RoundsType /\ PullsType
    BY NoRoundTyped, NoPullTyped DEF Init, RoundsType, PullsType
  <1>4. issued \subseteq Write
    BY <1>1 DEF Init, Write, Op, LoserType
  <1>5. NetType
    BY <1>4 DEF Init, NetType
  <1>6. Owned
    BY DEF Init, Owned, NoRound
  <1> QED
    BY <1>1, <1>2, <1>3, <1>5, <1>6 DEF Types

\* The loser's candidate, offer and bind.
LEMMA OfferedTyped ==
  ASSUME Types, NEW l \in Loser, NEW e \in Nat, NEW r \in BOOLEAN
  PROVE  [NoRound EXCEPT !.st = "offered", !.owner = l, !.epoch = e, !.reached = r] \in RoundType
  BY NoRoundTyped DEF RoundType

LEMMA CandidateTypes ==
  ASSUME Types, NEW l \in Loser, Candidate(l)
  PROVE  Types'
  <1> DEFINE open == gate[l] # None \/ completing[l] # None \/ OpenRounds(l) # {}
             Fine == RoundsType' /\ Owned' /\ net' \subseteq Frame /\ dups' \in Nat
  <1>1. wEpoch \in Nat /\ NetType /\ RoundsType /\ Owned
    BY DEF Types, WinnerType
  <1>2. ASSUME round' = round, Sent({}) PROVE Fine
    BY <1>1, <1>2, SentNothing DEF RoundsType, Owned
  <1>3. ASSUME Offer(l, wEpoch, open) PROVE Fine
    <2>1. CASE open
      BY <1>2, <1>3, <2>1 DEF Offer
    <2>2. CASE ~open
      <3>1. PICK c \in Corr, r \in BOOLEAN :
              /\ round' = [round EXCEPT ![c] = [NoRound EXCEPT !.st = "offered", !.owner = l,
                                                               !.epoch = wEpoch, !.reached = r]]
              /\ Sent(IF r THEN {[type |-> "offer", corr |-> c, from |-> l]} ELSE {})
        BY <1>3, <2>2 DEF Offer
      <3> DEFINE new == [NoRound EXCEPT !.st = "offered", !.owner = l, !.epoch = wEpoch, !.reached = r]
      <3>2. new \in RoundType /\ new.owner = l
        BY <1>1, OfferedTyped DEF NoRound
      <3>3. round' = [round EXCEPT ![c] = new]
        BY <3>1
      <3> HIDE DEF new
      <3>4. RoundsType' /\ Owned'
        BY <1>1, <3>2, <3>3 DEF RoundsType, Owned
      <3>5. (IF r THEN {[type |-> "offer", corr |-> c, from |-> l]} ELSE {}) \subseteq Frame
        BY DEF Frame, MergeFrame, OfferFrame
      <3>6. net' \subseteq Frame /\ dups' \in Nat
        BY <1>1, <3>1, <3>5, SentTyped
      <3> QED
        BY <3>4, <3>6
    <2> QED
      BY <2>1, <2>2
  <1> HIDE DEF Fine
  <1>4. Fine /\ cand' \in [Loser -> Nat] /\ lRoot' \in [Loser -> BOOLEAN]
    <2>1. CASE HasCustody(l)
      BY <1>1, <1>3, <2>1 DEF Candidate, Types, LoserType
    <2>2. CASE ~HasCustody(l)
      <3>1. Sent({}) /\ round' = round /\ cand' = cand /\ lRoot' = [lRoot EXCEPT ![l] = FALSE]
        BY <2>2 DEF Candidate
      <3> QED
        BY <1>2, <3>1 DEF Types, LoserType
    <2> QED
      BY <2>1, <2>2
  <1>5. LoserType'
    BY <1>4 DEF Candidate, Types, LoserType
  <1> QED
    BY <1>4, <1>5 DEF Fine, Candidate, Types, WinnerType, wVars, PullsType, NetType

LEMMA BindTypes ==
  ASSUME Types, NEW m \in net, BindRound(m)
  PROVE  Types'
  <1>1. m \in Frame /\ m.type = "pull" /\ RoundsType /\ LoserType /\ NetType
    BY DEF Types, NetType, BindRound
  <1>2. PICK c \in Corr : c = m.corr
    BY <1>1, Corrs
  <1>3. round[c].owner \in Loser
    BY <1>2 DEF Types, Owned, BindRound
  <1>4. PICK l \in Loser : l = round[c].owner
    BY <1>3
  <1>5. m.epoch \in Nat
    BY <1>1, Kinds DEF PullFrame
  <1> DEFINE r == [round[c] EXCEPT !.st = "bound", !.epoch = m.epoch, !.items = Export(l), !.sent = 0, !.age = 0]
  <1>6. /\ lGen' = [lGen EXCEPT ![l] = @ + 1] /\ gate' = [gate EXCEPT ![l] = c] /\ fwd' = [fwd EXCEPT ![l] = FALSE]
        /\ round' = [round EXCEPT ![c] = r]
        /\ Deliver(m, {[type |-> "header", corr |-> c]})
        /\ UNCHANGED <<lRoot, lCache, lTomb, lPins, cand, completing, ingest, wVars, issued>>
    BY <1>1, <1>2, <1>4 DEF BindRound, RoundsType
  <1>7. Export(l) \in Seq(Item)
    BY <1>1, ExportIsAll DEF LoserType
  <1>8. r \in RoundType /\ r.owner = l
    <2>1. round[c] \in RoundType
      BY <1>1 DEF RoundsType
    <2> QED
      BY <1>4, <1>5, <1>7, <2>1, Ages DEF RoundType
  <1> HIDE DEF r
  <1>9. LoserType'
    BY <1>1, <1>6 DEF LoserType
  <1>10. RoundsType' /\ Owned'
    BY <1>1, <1>6, <1>8 DEF RoundsType, Owned, Types
  <1>11. {[type |-> "header", corr |-> c]} \subseteq Frame
    BY DEF Frame, MergeFrame, PlainFrame
  <1>12. net' \subseteq Frame /\ dups' \in Nat
    BY <1>1, <1>6, <1>11, DeliverTyped
  <1> QED
    BY <1>6, <1>9, <1>10, <1>12 DEF Types, WinnerType, wVars, PullsType, NetType

LEMMA ClosedOwned ==
  ASSUME Types, NEW c \in Corr \cup {None}, round' = Closed(c)
  PROVE  RoundsType' /\ Owned'
  <1>1. RoundsType'
    BY ClosedTyped DEF Types, RoundsType
  <1>2. Owned'
    BY DEF Types, Owned, RoundsType, Closed, NoRound
  <1> QED
    BY <1>1, <1>2

LEMMA ExportBoundTypes ==
  ASSUME Types, NEW m \in net, ExportBound(m)
  PROVE  Types'
  <1>1. m \in Frame /\ m.type = "pull" /\ RoundsType /\ LoserType /\ NetType
    BY DEF Types, NetType, ExportBound
  <1>2. PICK c \in Corr : c = m.corr
    BY <1>1, Corrs
  <1>3. round[c].owner \in Loser
    BY <1>2 DEF Types, Owned, ExportBound
  <1>4. PICK l \in Loser : l = round[c].owner
    BY <1>3
  <1>5. /\ lGen' = [lGen EXCEPT ![l] = @ + 1] /\ cand' = [cand EXCEPT ![l] = 0] /\ round' = Closed(c)
        /\ Deliver(m, {[type |-> "refused", corr |-> c]})
        /\ UNCHANGED <<lRoot, lCache, lTomb, lPins, gate, completing, fwd, ingest, wVars, issued>>
    BY <1>1, <1>2, <1>4 DEF ExportBound
  <1>6. LoserType'
    BY <1>1, <1>5 DEF LoserType
  <1>7. RoundsType' /\ Owned'
    BY <1>5, ClosedOwned
  <1>8. {[type |-> "refused", corr |-> c]} \subseteq Frame
    BY DEF Frame, MergeFrame, PlainFrame
  <1>9. net' \subseteq Frame /\ dups' \in Nat
    BY <1>1, <1>5, <1>8, DeliverTyped
  <1> QED
    BY <1>5, <1>6, <1>7, <1>9 DEF Types, WinnerType, wVars, PullsType, NetType

\* A step that changes one round, which keeps its owner, and sends one frame.
LEMMA ServeTypes ==
  ASSUME Types, NEW m \in net, ServeFrame(m)
  PROVE  Types'
  <1>1. m \in Frame /\ m.type = "pull" /\ RoundsType /\ NetType /\ Owned
    BY DEF Types, NetType, ServeFrame
  <1>2. PICK c \in Corr : c = m.corr
    BY <1>1, Corrs
  <1> DEFINE r == round[c]
             total == Len(r.items)
             frame(to) == [type |-> "frame", corr |-> c, cursor |-> r.sent, to |-> to,
                           items |-> SubSeq(r.items, r.sent + 1, to), more |-> to < total,
                           man |-> IF to < total THEN <<>> ELSE r.items]
  <1>3. r \in RoundType /\ r.items \in Seq(Item) /\ total \in Nat /\ r.sent \in Nat
    BY <1>1 DEF RoundsType, RoundType
  <1>4. PICK to \in r.sent..total : round' = [round EXCEPT ![c].sent = to] /\ Deliver(m, {frame(to)})
    BY <1>2 DEF ServeFrame
  <1>5. to \in Nat
    BY <1>3
  <1>6. SubSeq(r.items, r.sent + 1, to) \in Seq(Item)
    <2>1. \A i \in (r.sent + 1)..to : r.items[i] \in Item
      <3> SUFFICES ASSUME NEW i \in (r.sent + 1)..to PROVE r.items[i] \in Item
        OBVIOUS
      <3>1. i \in 1..total
        BY <1>3
      <3> HIDE DEF r
      <3> QED
        BY <1>3, <3>1
    <2>2. r.sent + 1 \in Int /\ to \in Int
      BY <1>3
    <2> QED
      BY <2>1, <2>2, SubSeqProperties
  <1>7. frame(to) \in Frame
    <2>1. (IF to < total THEN <<>> ELSE r.items) \in Seq(Item)
      BY <1>3, NothingExported
    <2>2. (to < total) \in BOOLEAN
      OBVIOUS
    <2> HIDE DEF total, r
    <2>3. frame(to) \in ItemsFrame
      BY <1>3, <1>5, <1>6, <2>1, <2>2 DEF ItemsFrame
    <2> QED
      BY <2>3 DEF Frame, MergeFrame
  <1> HIDE DEF frame, total
  <1>8. net' \subseteq Frame /\ dups' \in Nat
    <2>1. {frame(to)} \subseteq Frame
      BY <1>7
    <2> QED
      BY <1>1, <1>4, <2>1, DeliverTyped
  <1>9. RoundsType' /\ Owned'
    BY <1>1, <1>4, <1>5 DEF RoundsType, RoundType, Owned
  <1> QED
    BY <1>8, <1>9 DEF ServeFrame, Types, LoserType, WinnerType, wVars, PullsType, NetType

\* The winner.
LEMMA PullTyped ==
  ASSUME Types, NEW c \in Corr, NEW cursor \in Nat \cup {None}
  PROVE  {Pull(c, cursor)} \subseteq Frame
  BY DEF Types, WinnerType, Pull, Frame, MergeFrame, PullFrame

LEMMA AckTyped ==
  ASSUME Types, NEW c \in Corr, NEW disp \in {"full", "short", "refused-capacity", "not-root"}, NEW man \in Seq(Item)
  PROVE  {Ack(c, disp, man)} \subseteq Frame
  BY DEF Types, WinnerType, Ack, Frame, MergeFrame, AckFrame

LEMMA IdsTyped ==
  ASSUME NEW s \in Seq(Item)
  PROVE  Bodies(s) \in SUBSET Msg /\ Dels(s) \in SUBSET Msg /\ {it.id : it \in Range(s)} \in SUBSET Msg
  <1>1. \A it \in Range(s) : it \in Item
    BY DEF Range
  <1>2. {it.id : it \in Range(s)} \in SUBSET Msg
    BY <1>1 DEF Item
  <1>3. Bodies(s) \in SUBSET Msg /\ Dels(s) \in SUBSET Msg
    BY IdsOfItems DEF Bodies, Dels
  <1> QED
    BY <1>2, <1>3

LEMMA WinnerStep ==
  ASSUME Types, lVars' = lVars, WinnerType', PullsType', net' \subseteq Frame, dups' \in Nat,
         issued' = issued, busy' \subseteq [frame : ItemsFrame, n : Nat]
  PROVE  Types'
  BY DEF Types, lVars, LoserType, RoundsType, Owned, NetType

LEMMA OnOfferTypes ==
  ASSUME Types, NEW m \in net, OnOffer(m)
  PROVE  Types'
  <1>1. m \in Frame /\ m.type = "offer" /\ NetType /\ PullsType /\ WinnerType
    BY DEF Types, NetType, OnOffer
  <1>2. PICK c \in Corr : c = m.corr
    BY <1>1, Corrs
  <1>3. m.from \in Loser
    BY <1>1, Kinds DEF OfferFrame
  <1>4. UNCHANGED <<lVars, wRoot, wEpoch, wCache, wTomb, wPins, busy, issued>>
    BY DEF OnOffer
  <1>5. PullsType' /\ net' \subseteq Frame /\ dups' \in Nat
    <2>1. CASE ~wRoot
      <3>1. pull' = pull /\ Deliver(m, {Ack(c, "not-root", <<>>)})
        BY <1>2, <2>1 DEF OnOffer
      <3>2. {Ack(c, "not-root", <<>>)} \subseteq Frame
        BY NothingExported, AckTyped
      <3> QED
        BY <1>1, <3>1, <3>2, DeliverTyped DEF PullsType
    <2>2. CASE wRoot /\ pull[c].st \in {"pulling", "acked"}
      <3>1. pull' = pull /\ Deliver(m, {})
        BY <1>2, <2>2 DEF OnOffer
      <3> QED
        BY <1>1, <3>1, DeliverNothing DEF PullsType
    <2>3. CASE wRoot /\ ~(pull[c].st \in {"pulling", "acked"})
      <3> DEFINE new == [NoPull EXCEPT !.st = "pulling", !.loser = m.from]
      <3>1. pull' = [pull EXCEPT ![c] = new] /\ Deliver(m, {Pull(c, None)})
        BY <1>2, <2>3 DEF OnOffer
      <3>2. new \in PullType
        BY <1>3, NoPullTyped DEF PullType
      <3>3. {Pull(c, None)} \subseteq Frame
        BY PullTyped
      <3> HIDE DEF new
      <3>4. net' \subseteq Frame /\ dups' \in Nat
        BY <1>1, <3>1, <3>3, DeliverTyped
      <3> QED
        BY <1>1, <3>1, <3>2, <3>4 DEF PullsType
    <2> QED
      BY <2>1, <2>2, <2>3
  <1> QED
    BY <1>1, <1>4, <1>5, WinnerStep DEF WinnerType, NetType

LEMMA OnHeaderTypes ==
  ASSUME Types, NEW m \in net, OnHeader(m)
  PROVE  Types'
  <1>1. m \in Frame /\ m.type = "header" /\ NetType /\ PullsType /\ WinnerType
    BY DEF Types, NetType, OnHeader
  <1>2. PICK c \in Corr : c = m.corr
    BY <1>1, Corrs
  <1>3. UNCHANGED <<lVars, wRoot, wEpoch, wCache, wTomb, busy, issued>>
    BY DEF OnHeader
  <1>4. PullsType' /\ wPins' \in SUBSET Msg /\ net' \subseteq Frame /\ dups' \in Nat
    <2>1. CASE wPins' = wPins \cup wCache /\ pull' = [pull EXCEPT ![c].cursor = 0] /\ Deliver(m, {Pull(c, 0)})
      <3>1. {Pull(c, 0)} \subseteq Frame
        BY PullTyped
      <3>2. net' \subseteq Frame /\ dups' \in Nat
        BY <1>1, <2>1, <3>1, DeliverTyped
      <3> QED
        BY <1>1, <2>1, <3>2 DEF PullsType, PullType, WinnerType
    <2>2. CASE pull' = Dropped(c) /\ wPins' = wPins /\ Deliver(m, {Ack(c, "refused-capacity", <<>>)})
      <3>1. {Ack(c, "refused-capacity", <<>>)} \subseteq Frame
        BY NothingExported, AckTyped
      <3>2. net' \subseteq Frame /\ dups' \in Nat
        BY <1>1, <2>2, <3>1, DeliverTyped
      <3>3. PullsType'
        BY <1>1, <2>2, DroppedTyped DEF PullsType
      <3> QED
        BY <1>1, <2>2, <3>2, <3>3 DEF WinnerType
    <2> QED
      BY <1>2, <2>1, <2>2 DEF OnHeader
  <1>5. WinnerType'
    BY <1>1, <1>3, <1>4 DEF WinnerType
  <1>6. lVars' = lVars /\ issued' = issued /\ busy' \subseteq [frame : ItemsFrame, n : Nat]
    BY <1>1, <1>3 DEF NetType
  <1> QED
    BY <1>4, <1>5, <1>6, WinnerStep

LEMMA OnRefusedTypes ==
  ASSUME Types, NEW m \in net, OnRefused(m)
  PROVE  Types'
  <1>1. m \in Frame /\ m.type = "refused" /\ NetType /\ PullsType /\ WinnerType
    BY DEF Types, NetType, OnRefused
  <1>2. PICK c \in Corr : c = m.corr
    BY <1>1, Corrs
  <1>3. pull' = Dropped(c) /\ Deliver(m, {}) /\ UNCHANGED <<lVars, wRoot, wEpoch, wCache, wTomb, wPins, busy, issued>>
    BY <1>2 DEF OnRefused
  <1>4. PullsType' /\ net' \subseteq Frame /\ dups' \in Nat
    BY <1>1, <1>3, DroppedTyped, DeliverNothing DEF PullsType
  <1>5. WinnerType' /\ busy' \subseteq [frame : ItemsFrame, n : Nat]
    BY <1>1, <1>3 DEF WinnerType, NetType
  <1> QED
    BY <1>3, <1>4, <1>5, WinnerStep

LEMMA FrameBeginTypes ==
  ASSUME Types, NEW m \in net, FrameBegin(m)
  PROVE  Types'
  <1>1. m \in Frame /\ m.type = "frame" /\ NetType /\ PullsType /\ WinnerType
    BY DEF Types, NetType, FrameBegin
  <1>2. PICK c \in Corr : c = m.corr
    BY <1>1, Corrs
  <1>3. m \in ItemsFrame /\ m.items \in Seq(Item)
    BY <1>1, Kinds DEF ItemsFrame
  <1>4. /\ wPins' = wPins \cup {it.id : it \in Range(m.items)}
        /\ pull' = [pull EXCEPT ![c].man = @ \o m.items]
        /\ busy' = busy \cup {[frame |-> m, n |-> dups]}
        /\ Deliver(m, {})
        /\ UNCHANGED <<lVars, wRoot, wEpoch, wCache, wTomb, issued>>
    BY <1>2 DEF FrameBegin
  <1>5. pull[c].man \o m.items \in Seq(Item)
    <2>1. pull[c].man \in Seq(Item)
      BY <1>1 DEF PullsType, PullType
    <2> QED
      BY <1>3, <2>1, ConcatProperties
  <1>6. PullsType'
    BY <1>1, <1>4, <1>5 DEF PullsType, PullType
  <1>7. WinnerType'
    BY <1>1, <1>3, <1>4, IdsTyped DEF WinnerType
  <1>8. busy' \subseteq [frame : ItemsFrame, n : Nat]
    BY <1>1, <1>3, <1>4 DEF NetType
  <1>9. net' \subseteq Frame /\ dups' \in Nat
    BY <1>1, <1>4, DeliverNothing
  <1> QED
    BY <1>4, <1>6, <1>7, <1>8, <1>9, WinnerStep

LEMMA FrameEndTypes ==
  ASSUME Types, NEW b \in busy, FrameEnd(b)
  PROVE  Types'
  <1>1. NetType /\ PullsType /\ WinnerType
    BY DEF Types
  <1>2. PICK m \in ItemsFrame : m = b.frame
    BY <1>1 DEF NetType
  <1>3. m.items \in Seq(Item) /\ m.to \in Nat
    BY DEF ItemsFrame
  <1>4. PICK c \in Corr : c = m.corr
    BY DEF ItemsFrame
  <1>5. PICK p \in PullType : p = pull[c]
    BY <1>1 DEF PullsType
  <1> DEFINE tomb == wTomb \cup Dels(m.items)
             cache == (wCache \cup Bodies(m.items)) \ tomb
             full == Retains(p.man, cache, tomb) /\ p.man = m.man
             ack == IF full THEN "full" ELSE "short"
             next == [pull EXCEPT ![c].st = IF @ = "pulling" THEN "acked" ELSE @,
                                  ![c].age = 0, ![c].full = full, ![c].cursor = m.to]
  <1>6. /\ busy' = busy \ {b} /\ wTomb' = tomb /\ wCache' = cache
        /\ IF m.more
           THEN /\ pull' = [pull EXCEPT ![c].cursor = m.to]
                /\ Sent(IF p.st \in {"pulling", "acked"} THEN {Pull(c, m.to)} ELSE {})
           ELSE pull' = next /\ Sent({Ack(c, ack, p.man)})
        /\ UNCHANGED <<lVars, wRoot, wEpoch, wPins, issued>>
    BY <1>2, <1>4, <1>5 DEF FrameEnd
  <1>7. WinnerType'
    BY <1>1, <1>3, <1>6, IdsTyped DEF WinnerType
  <1>8. full \in BOOLEAN
    BY DEF Retains
  <1>9. ack \in {"full", "short", "refused-capacity", "not-root"}
    OBVIOUS
  <1> HIDE DEF full, ack, tomb, cache
  <1>10. PullsType' /\ net' \subseteq Frame /\ dups' \in Nat
    <2>1. CASE m.more
      <3>1. pull' = [pull EXCEPT ![c].cursor = m.to] /\ Sent(IF p.st \in {"pulling", "acked"} THEN {Pull(c, m.to)} ELSE {})
        BY <1>6, <2>1
      <3>2. (IF p.st \in {"pulling", "acked"} THEN {Pull(c, m.to)} ELSE {}) \subseteq Frame
        BY <1>3, PullTyped
      <3>3. net' \subseteq Frame /\ dups' \in Nat
        BY <1>1, <3>1, <3>2, SentTyped
      <3> QED
        BY <1>1, <1>3, <3>1, <3>3 DEF PullsType, PullType
    <2>2. CASE ~m.more
      <3>1. pull' = next /\ Sent({Ack(c, ack, p.man)})
        BY <1>6, <2>2
      <3>2. {Ack(c, ack, p.man)} \subseteq Frame
        BY <1>9, AckTyped DEF PullType
      <3>3. net' \subseteq Frame /\ dups' \in Nat
        BY <1>1, <3>1, <3>2, SentTyped
      <3> DEFINE new == [p EXCEPT !.st = IF @ = "pulling" THEN "acked" ELSE @, !.age = 0, !.full = full, !.cursor = m.to]
      <3>4. pull' = [pull EXCEPT ![c] = new]
        BY <1>1, <1>5, <3>1 DEF PullsType
      <3>5. new \in PullType
        BY <1>3, <1>8, Ages DEF PullType
      <3> HIDE DEF new, next
      <3> QED
        BY <1>1, <3>3, <3>4, <3>5 DEF PullsType
    <2> QED
      BY <2>1, <2>2
  <1> QED
    BY <1>1, <1>6, <1>7, <1>10, WinnerStep DEF NetType

LEMMA OnSubTypes ==
  ASSUME Types, NEW m \in net, OnSub(m)
  PROVE  Types'
  <1>1. m \in Frame /\ m.type = "sub" /\ NetType /\ PullsType /\ WinnerType
    BY DEF Types, NetType, OnSub
  <1>2. PICK c \in Corr : c = m.corr
    BY <1>1, Corrs
  <1>3. /\ pull' = Dropped(c) /\ wPins' = {} /\ Deliver(m, {[type |-> "closed", corr |-> c, epoch |-> wEpoch]})
        /\ UNCHANGED <<lVars, wRoot, wEpoch, wCache, wTomb, busy, issued>>
    BY <1>2 DEF OnSub
  <1>4. {[type |-> "closed", corr |-> c, epoch |-> wEpoch]} \subseteq Frame
    BY <1>1 DEF WinnerType, Frame, MergeFrame, CloseFrame
  <1>5. PullsType' /\ net' \subseteq Frame /\ dups' \in Nat
    BY <1>1, <1>3, <1>4, DroppedTyped, DeliverTyped DEF PullsType
  <1>6. WinnerType' /\ busy' \subseteq [frame : ItemsFrame, n : Nat]
    BY <1>1, <1>3 DEF WinnerType, NetType
  <1> QED
    BY <1>3, <1>5, <1>6, WinnerStep

LEMMA OnWriteTypes ==
  ASSUME Types, NEW m \in net, OnWrite(m)
  PROVE  Types'
  <1>1. m \in Frame /\ m.type = "write" /\ NetType /\ PullsType /\ WinnerType
    BY DEF Types, NetType, OnWrite
  <1>2. m.w.id \in Msg
    BY <1>1, Kinds DEF WriteFrame, Write
  <1>3. Deliver(m, {}) /\ UNCHANGED <<lVars, wRoot, wEpoch, wPins, pull, busy, issued>>
    BY DEF OnWrite
  <1>4. wCache' \in SUBSET Msg /\ wTomb' \in SUBSET Msg
    BY <1>1, <1>2 DEF OnWrite, WinnerType
  <1>5. net' \subseteq Frame /\ dups' \in Nat
    BY <1>1, <1>3, DeliverNothing
  <1>6. WinnerType' /\ PullsType' /\ busy' \subseteq [frame : ItemsFrame, n : Nat]
    BY <1>1, <1>3, <1>4 DEF WinnerType, PullsType, NetType
  <1> QED
    BY <1>3, <1>5, <1>6, WinnerStep

\* The loser again.
LEMMA LoserStep ==
  ASSUME Types, LoserType', RoundsType', Owned', wVars' = wVars, net' \subseteq Frame, dups' \in Nat,
         issued' \subseteq Write
  PROVE  Types'
  BY DEF Types, wVars, WinnerType, PullsType, NetType

LEMMA OnRefusalTypes ==
  ASSUME Types, NEW m \in net, OnRefusal(m)
  PROVE  Types'
  <1>1. m \in Frame /\ m.type = "ack" /\ RoundsType /\ LoserType /\ NetType
    BY DEF Types, NetType, OnRefusal
  <1>2. PICK c \in Corr : c = m.corr
    BY <1>1, Corrs
  <1>3. PICK l \in Loser \cup {None} : l = round[c].owner
    BY <1>1 DEF RoundsType, RoundType
  <1>4. /\ round' = Closed(c)
        /\ gate' = [gate EXCEPT ![l] = IF @ = c THEN None ELSE @]
        /\ cand' = [cand EXCEPT ![l] = IF m.disp = "not-root" \/ Cutover THEN 0 ELSE @]
        /\ Deliver(m, {})
        /\ UNCHANGED <<lRoot, lCache, lTomb, lPins, lGen, completing, fwd, ingest, wVars, issued>>
    BY <1>2, <1>3 DEF OnRefusal
  <1>5. LoserType'
    <2>1. CASE l \in Loser
      BY <1>1, <1>4, <2>1 DEF LoserType
    <2>2. CASE l \notin Loser
      <3>1. gate' = gate /\ cand' = cand
        BY <1>1, <1>4, <2>2 DEF LoserType
      <3> QED
        BY <1>1, <1>4, <3>1 DEF LoserType
    <2> QED
      BY <2>1, <2>2
  <1>6. RoundsType' /\ Owned'
    BY <1>4, ClosedOwned
  <1>7. net' \subseteq Frame /\ dups' \in Nat
    BY <1>1, <1>4, DeliverNothing
  <1>8. wVars' = wVars /\ issued' \subseteq Write
    BY <1>1, <1>4 DEF NetType
  <1> QED
    BY <1>5, <1>6, <1>7, <1>8, LoserStep

\* The bound round of an ack or refusal has a loser.
LEMMA BoundOwner ==
  ASSUME Types, NEW m \in Frame, m.type = "ack", SixFields(m)
  PROVE  m.corr \in Corr /\ round[m.corr].owner \in Loser
  BY Corrs DEF SixFields, Types, Owned

LEMMA PinnedTyped ==
  ASSUME Types, NEW l \in Loser, NEW c \in Corr
  PROVE  Pinned(l, c) \in [Loser -> SUBSET Msg]
  <1>1. round[c].items \in Seq(Item)
    BY DEF Types, RoundsType, RoundType
  <1>2. Bodies(round[c].items) \in SUBSET Msg /\ Dels(round[c].items) \in SUBSET Msg
    BY <1>1, IdsTyped
  <1> QED
    BY <1>2 DEF Pinned, Types, LoserType

LEMMA AbortTyped ==
  ASSUME Types, NEW l \in Loser, Abort(l)
  PROVE  RoundsType' /\ Owned' /\ gate' \in [Loser -> Corr \cup {None}] /\ cand' \in [Loser -> Nat]
  <1>1. PICK c \in Corr \cup {None} : c = gate[l]
    BY DEF Types, LoserType
  <1>2. round' = Closed(c) /\ gate' = [gate EXCEPT ![l] = None] /\ cand' = [cand EXCEPT ![l] = 0]
    BY <1>1 DEF Abort
  <1>3. RoundsType' /\ Owned'
    BY <1>2, ClosedOwned
  <1> QED
    BY <1>2, <1>3 DEF Types, LoserType

LEMMA OnBadAckTypes ==
  ASSUME Types, NEW m \in net, OnBadAck(m)
  PROVE  Types'
  <1>1. m \in Frame /\ m.type = "ack" /\ SixFields(m) /\ LoserType /\ NetType
    BY DEF Types, NetType, OnBadAck
  <1>2. PICK c \in Corr, l \in Loser : c = m.corr /\ l = round[c].owner
    BY <1>1, BoundOwner
  <1>3. /\ lPins' = lPins \/ lPins' = Pinned(l, c)
        /\ Abort(l) /\ Deliver(m, {})
        /\ UNCHANGED <<lRoot, lCache, lTomb, lGen, completing, fwd, ingest, wVars, issued>>
    BY <1>2 DEF OnBadAck, Abort
  <1>4. lPins' \in [Loser -> SUBSET Msg]
    BY <1>1, <1>3, PinnedTyped DEF LoserType
  <1>5. RoundsType' /\ Owned' /\ gate' \in [Loser -> Corr \cup {None}] /\ cand' \in [Loser -> Nat]
    BY <1>3, AbortTyped
  <1>6. LoserType'
    BY <1>1, <1>3, <1>4, <1>5 DEF LoserType
  <1>7. net' \subseteq Frame /\ dups' \in Nat
    BY <1>1, <1>3, DeliverNothing
  <1>8. wVars' = wVars /\ issued' \subseteq Write
    BY <1>1, <1>3 DEF NetType
  <1> QED
    BY <1>5, <1>6, <1>7, <1>8, LoserStep

LEMMA SubTyped ==
  ASSUME Types, NEW c \in Corr
  PROVE  {MergeSub(c)} \subseteq Frame
  BY DEF MergeSub, Types, RoundsType, RoundType, Frame, MergeFrame, CloseFrame

LEMMA Step5Types ==
  ASSUME Types, NEW m \in net, Step5(m)
  PROVE  Types'
  <1>1. m \in Frame /\ m.type = "ack" /\ SixFields(m) /\ LoserType /\ NetType /\ RoundsType /\ Owned
    BY DEF Types, NetType, Step5
  <1>2. PICK c \in Corr, l \in Loser : c = m.corr /\ l = round[c].owner
    BY <1>1, BoundOwner
  <1>3. /\ lPins' = Pinned(l, c)
        /\ lRoot' = [lRoot EXCEPT ![l] = FALSE]
        /\ gate' = [gate EXCEPT ![l] = IF @ = c THEN None ELSE @]
        /\ round' = [round EXCEPT ![c].st = "completed"]
        /\ completing' = [completing EXCEPT ![l] = c]
        /\ Deliver(m, {MergeSub(c)})
        /\ UNCHANGED <<lCache, lTomb, lGen, cand, fwd, ingest, wVars, issued>>
    BY <1>2 DEF Step5
  <1>4. LoserType'
    BY <1>1, <1>3, PinnedTyped DEF LoserType
  <1>5. RoundsType' /\ Owned'
    <2>1. [round[c] EXCEPT !.st = "completed"] \in RoundType
      BY <1>1 DEF RoundsType, RoundType
    <2>2. round' = [round EXCEPT ![c] = [round[c] EXCEPT !.st = "completed"]]
      BY <1>1, <1>3 DEF RoundsType
    <2>3. RoundsType'
      BY <1>1, <2>1, <2>2 DEF RoundsType
    <2>4. \A d \in Corr : round'[d].owner = round[d].owner /\ (d # c => round'[d] = round[d])
      BY <1>1, <2>2 DEF RoundsType, RoundType
    <2> QED
      BY <1>1, <1>2, <2>3, <2>4 DEF Owned
  <1>6. {MergeSub(c)} \subseteq Frame
    BY SubTyped
  <1>7. net' \subseteq Frame /\ dups' \in Nat
    BY <1>1, <1>3, <1>6, DeliverTyped
  <1>8. wVars' = wVars /\ issued' \subseteq Write
    BY <1>1, <1>3 DEF NetType
  <1> QED
    BY <1>4, <1>5, <1>7, <1>8, LoserStep

LEMMA RenewTypes ==
  ASSUME Types, NEW l \in Loser, Renew(l)
  PROVE  Types'
  <1>1. PICK c \in Corr : c = completing[l]
    BY DEF Types, LoserType, Renew
  <1>2. Sent({MergeSub(c)}) /\ UNCHANGED <<lVars, wVars, issued>>
    BY <1>1 DEF Renew
  <1>3. {MergeSub(c)} \subseteq Frame
    BY SubTyped
  <1>4. NetType
    BY DEF Types
  <1>5. net' \subseteq Frame /\ dups' \in Nat
    BY <1>2, <1>3, <1>4, SentTyped
  <1>6. LoserType' /\ RoundsType' /\ Owned' /\ wVars' = wVars /\ issued' \subseteq Write
    BY <1>2 DEF Types, LoserType, RoundsType, Owned, lVars, NetType
  <1> QED
    BY <1>5, <1>6, LoserStep

LEMMA OnClosedTypes ==
  ASSUME Types, NEW m \in net, OnClosed(m)
  PROVE  Types'
  <1>1. m \in Frame /\ m.type = "closed" /\ LoserType /\ NetType /\ RoundsType
    BY DEF Types, NetType, OnClosed
  <1>2. PICK c \in Corr : c = m.corr
    BY <1>1, Corrs
  <1>3. round[c].owner \in Loser
    BY <1>1, <1>2 DEF OnClosed, RoundsType, RoundType
  <1>4. PICK l \in Loser : l = round[c].owner
    BY <1>3
  <1>5. /\ completing' = [completing EXCEPT ![l] = None] /\ lPins' = [lPins EXCEPT ![l] = {}]
        /\ round' = Closed(c) /\ Deliver(m, {})
        /\ UNCHANGED <<lRoot, lCache, lTomb, lGen, gate, cand, fwd, ingest, wVars, issued>>
    BY <1>2, <1>4 DEF OnClosed
  <1>6. LoserType'
    BY <1>1, <1>5 DEF LoserType
  <1>7. RoundsType' /\ Owned'
    BY <1>5, ClosedOwned
  <1>8. net' \subseteq Frame /\ dups' \in Nat
    BY <1>1, <1>5, DeliverNothing
  <1>9. wVars' = wVars /\ issued' \subseteq Write
    BY <1>1, <1>5 DEF NetType
  <1> QED
    BY <1>6, <1>7, <1>8, <1>9, LoserStep

LEMMA WriteTyped ==
  ASSUME NEW w \in Write
  PROVE  {[type |-> "write", w |-> w]} \subseteq Frame
  BY DEF Frame, WriteFrame

LEMMA AdmitTypes ==
  ASSUME Types, NEW l \in Loser, NEW w \in Write, Admit(l, w)
  PROVE  Types'
  <1>1. LoserType /\ NetType
    BY DEF Types
  <1>2. /\ issued' = issued \cup {w}
        /\ UNCHANGED <<lRoot, lCache, lTomb, lPins, lGen, gate, cand, completing, round, wVars>>
    BY DEF Admit
  <1>3. /\ ingest' \in [Loser -> SUBSET [w : Write, gen : Nat]] /\ fwd' \in [Loser -> BOOLEAN]
        /\ net' \subseteq Frame /\ dups' \in Nat
    <2>1. CASE gate[l] = None
      <3>1. ingest' = [ingest EXCEPT ![l] = @ \cup {[w |-> w, gen |-> lGen[l]]}] /\ Sent({}) /\ fwd' = fwd
        BY <2>1 DEF Admit
      <3>2. [w |-> w, gen |-> lGen[l]] \in [w : Write, gen : Nat]
        BY <1>1 DEF LoserType
      <3>3. ingest' \in [Loser -> SUBSET [w : Write, gen : Nat]]
        BY <1>1, <3>1, <3>2 DEF LoserType
      <3> QED
        BY <1>1, <3>1, <3>3, SentNothing DEF LoserType
    <2>2. CASE gate[l] # None
      <3>1. Sent({[type |-> "write", w |-> w]}) /\ fwd' = [fwd EXCEPT ![l] = TRUE] /\ ingest' = ingest
        BY <2>2 DEF Admit
      <3>2. net' \subseteq Frame /\ dups' \in Nat
        BY <1>1, <3>1, WriteTyped, SentTyped
      <3> QED
        BY <1>1, <3>1, <3>2 DEF LoserType
    <2> QED
      BY <2>1, <2>2
  <1>4. LoserType'
    BY <1>1, <1>2, <1>3 DEF LoserType
  <1>5. RoundsType' /\ Owned' /\ wVars' = wVars /\ issued' \subseteq Write
    BY <1>1, <1>2 DEF Types, RoundsType, Owned, NetType
  <1> QED
    BY <1>3, <1>4, <1>5, LoserStep

LEMMA CommitTypes ==
  ASSUME Types, NEW l \in Loser, NEW i \in ingest[l], Commit(l, i)
  PROVE  Types'
  <1>1. LoserType /\ NetType
    BY DEF Types
  <1>2. i.w \in Write /\ i.w.id \in Msg
    BY <1>1 DEF LoserType, Write
  <1>3. /\ ingest' = [ingest EXCEPT ![l] = @ \ {i}]
        /\ UNCHANGED <<lRoot, lPins, lGen, gate, cand, completing, round, wVars, issued>>
    BY DEF Commit
  <1>4. /\ lCache' \in [Loser -> SUBSET Msg] /\ lTomb' \in [Loser -> SUBSET Msg] /\ fwd' \in [Loser -> BOOLEAN]
        /\ net' \subseteq Frame /\ dups' \in Nat
    <2>1. CASE CutHolds(l, i.gen)
      <3>1. Sent({}) /\ fwd' = fwd
        BY <2>1 DEF Commit
      <3>2. lCache' \in [Loser -> SUBSET Msg] /\ lTomb' \in [Loser -> SUBSET Msg]
        BY <1>1, <1>2, <2>1 DEF Commit, LoserType
      <3> QED
        BY <1>1, <3>1, <3>2, SentNothing DEF LoserType
    <2>2. CASE ~CutHolds(l, i.gen)
      <3> DEFINE out == IF gate[l] # None \/ ~lRoot[l] THEN {[type |-> "write", w |-> i.w]} ELSE {}
      <3>1. Sent(out) /\ fwd' = [fwd EXCEPT ![l] = @ \/ gate[l] # None] /\ UNCHANGED <<lCache, lTomb>>
        BY <2>2 DEF Commit
      <3>2. out \subseteq Frame
        BY <1>2, WriteTyped
      <3>3. net' \subseteq Frame /\ dups' \in Nat
        BY <1>1, <3>1, <3>2, SentTyped
      <3> QED
        BY <1>1, <3>1, <3>3 DEF LoserType
    <2> QED
      BY <2>1, <2>2
  <1>5. ingest' \in [Loser -> SUBSET [w : Write, gen : Nat]]
    BY <1>1, <1>3 DEF LoserType
  <1>6. LoserType'
    BY <1>1, <1>3, <1>4, <1>5 DEF LoserType
  <1>7. RoundsType' /\ Owned' /\ wVars' = wVars /\ issued' \subseteq Write
    BY <1>1, <1>3 DEF Types, RoundsType, Owned, NetType
  <1> QED
    BY <1>4, <1>6, <1>7, LoserStep

LEMMA ForwardAbortTypes ==
  ASSUME Types, NEW l \in Loser, ForwardAbort(l)
  PROVE  Types'
  <1>1. LoserType /\ NetType /\ wEpoch \in Nat
    BY DEF Types, WinnerType
  <1>2. fwd' = [fwd EXCEPT ![l] = FALSE]
        /\ UNCHANGED <<lRoot, lCache, lTomb, lPins, lGen, completing, ingest, wVars, issued>>
    BY DEF ForwardAbort
  <1>3. /\ RoundsType' /\ Owned' /\ gate' \in [Loser -> Corr \cup {None}] /\ cand' \in [Loser -> Nat]
        /\ net' \subseteq Frame /\ dups' \in Nat
    <2>1. CASE Abort(l) /\ Sent({})
      BY <1>1, <2>1, AbortTyped, SentNothing
    <2>2. ASSUME NEW c \in Corr,
                 gate' = [gate EXCEPT ![l] = None], cand' = [cand EXCEPT ![l] = wEpoch],
                 round' = [Closed(gate[l]) EXCEPT ![c] =
                             [NoRound EXCEPT !.st = "offered", !.owner = l, !.epoch = wEpoch, !.reached = TRUE]],
                 Sent({[type |-> "offer", corr |-> c, from |-> l]})
          PROVE  /\ RoundsType' /\ Owned' /\ gate' \in [Loser -> Corr \cup {None}] /\ cand' \in [Loser -> Nat]
                 /\ net' \subseteq Frame /\ dups' \in Nat
      <3> DEFINE new == [NoRound EXCEPT !.st = "offered", !.owner = l, !.epoch = wEpoch, !.reached = TRUE]
                 before == Closed(gate[l])
      <3>1. new \in RoundType /\ new.owner = l
        BY <1>1, OfferedTyped DEF NoRound
      <3>2. gate[l] \in Corr \cup {None}
        BY <1>1 DEF LoserType
      <3>3. before \in [Corr -> RoundType]
        BY <3>2, ClosedTyped DEF Types
      <3>4. \A d \in Corr : before[d].st \in {"offered", "bound", "completed"} => before[d].owner \in Loser
        BY <3>2 DEF Types, Owned, RoundsType, Closed, NoRound
      <3>5. round' = [before EXCEPT ![c] = new]
        BY <2>2
      <3> HIDE DEF new, before
      <3>6. RoundsType' /\ Owned'
        BY <3>1, <3>3, <3>4, <3>5 DEF RoundsType, Owned
      <3>7. {[type |-> "offer", corr |-> c, from |-> l]} \subseteq Frame
        BY DEF Frame, MergeFrame, OfferFrame
      <3>8. net' \subseteq Frame /\ dups' \in Nat
        BY <1>1, <2>2, <3>7, SentTyped
      <3> QED
        BY <1>1, <2>2, <3>6, <3>8 DEF LoserType
    <2> QED
      BY <2>1, <2>2 DEF ForwardAbort
  <1>4. LoserType'
    BY <1>1, <1>2, <1>3 DEF LoserType
  <1>5. wVars' = wVars /\ issued' \subseteq Write
    BY <1>1, <1>2 DEF NetType
  <1> QED
    BY <1>3, <1>4, <1>5, LoserStep

\* Time.
LEMMA GateTimeoutTypes ==
  ASSUME Types, NEW l \in Loser, GateTimeout(l)
  PROVE  Types'
  <1>1. Abort(l) /\ UNCHANGED <<lRoot, lCache, lTomb, lPins, lGen, completing, fwd, ingest, wVars, net, issued, dups>>
    BY DEF GateTimeout
  <1>2. RoundsType' /\ Owned' /\ gate' \in [Loser -> Corr \cup {None}] /\ cand' \in [Loser -> Nat]
    BY <1>1, AbortTyped
  <1>3. LoserType'
    BY <1>1, <1>2 DEF Types, LoserType
  <1> QED
    BY <1>1, <1>2, <1>3, LoserStep DEF Types, NetType

LEMMA OfferTimeoutTypes ==
  ASSUME Types, NEW c \in Corr, OfferTimeout(c)
  PROVE  Types'
  <1>1. PICK l \in Loser : l = round[c].owner
    BY DEF Types, Owned, OfferTimeout
  <1>2. PICK fallback \in BOOLEAN : lRoot' = [lRoot EXCEPT ![l] = @ /\ ~fallback]
    BY <1>1 DEF OfferTimeout
  <1>3. PICK clears \in BOOLEAN : cand' = [cand EXCEPT ![l] = IF clears THEN 0 ELSE @]
    BY <1>1 DEF OfferTimeout
  <1>4. round' = Closed(c) /\ UNCHANGED <<lCache, lTomb, lPins, lGen, gate, completing, fwd, ingest, wVars, net, issued, dups>>
    BY DEF OfferTimeout
  <1>5. RoundsType' /\ Owned'
    BY <1>4, ClosedOwned
  <1>6. LoserType'
    BY <1>2, <1>3, <1>4 DEF Types, LoserType
  <1> QED
    BY <1>4, <1>5, <1>6, LoserStep DEF Types, NetType

LEMMA PullTimeoutTypes ==
  ASSUME Types, NEW c \in Corr, PullTimeout(c)
  PROVE  Types'
  <1>1. pull' = Dropped(c) /\ wPins' = {} /\ UNCHANGED <<lVars, wRoot, wEpoch, wCache, wTomb, busy, net, issued, dups>>
    BY DEF PullTimeout
  <1>2. PullsType'
    BY <1>1, DroppedTyped DEF Types, PullsType
  <1>3. WinnerType' /\ busy' \subseteq [frame : ItemsFrame, n : Nat] /\ net' \subseteq Frame /\ dups' \in Nat
    BY <1>1 DEF Types, WinnerType, NetType
  <1> QED
    BY <1>1, <1>2, <1>3, WinnerStep

\* Only ages change.
LEMMA PullsOlder ==
  ASSUME PullsType,
         pull' = [c \in Corr |-> [pull[c] EXCEPT !.age = IF pull[c].st \in {"pulling", "acked"} THEN Older(@) ELSE @]]
  PROVE  PullsType'
  <1>1. \A c \in Corr : [pull[c] EXCEPT !.age = IF pull[c].st \in {"pulling", "acked"} THEN Older(@) ELSE @] \in PullType
    <2> SUFFICES ASSUME NEW c \in Corr
                 PROVE  [pull[c] EXCEPT !.age = IF pull[c].st \in {"pulling", "acked"} THEN Older(@) ELSE @] \in PullType
      OBVIOUS
    <2>1. pull[c] \in PullType
      BY DEF PullsType
    <2>2. (IF pull[c].st \in {"pulling", "acked"} THEN Older(pull[c].age) ELSE pull[c].age) \in 0..Retain
      BY <2>1, Ages DEF PullType
    <2> QED
      BY <2>1, <2>2 DEF PullType
  <1> QED
    BY <1>1 DEF PullsType

LEMMA TickTypes ==
  ASSUME Types, Tick
  PROVE  Types'
  <1>1. /\ round' = [c \in Corr |-> [round[c] EXCEPT !.age = IF round[c].st = "bound" THEN Older(@) ELSE @]]
        /\ pull'  = [c \in Corr |-> [pull[c]  EXCEPT !.age = IF pull[c].st \in {"pulling", "acked"} THEN Older(@) ELSE @]]
        /\ UNCHANGED <<lRoot, lCache, lTomb, lPins, lGen, gate, cand, completing, fwd, ingest,
                       wRoot, wEpoch, wCache, wTomb, wPins, busy, net, issued, dups>>
    BY DEF Tick
  <1>2. PullsType'
    BY <1>1, PullsOlder DEF Types
  <1>3. \A c \in Corr : [round[c] EXCEPT !.age = IF round[c].st = "bound" THEN Older(@) ELSE @] \in RoundType
    <2> SUFFICES ASSUME NEW c \in Corr
                 PROVE  [round[c] EXCEPT !.age = IF round[c].st = "bound" THEN Older(@) ELSE @] \in RoundType
      OBVIOUS
    <2>1. round[c] \in RoundType
      BY DEF Types, RoundsType
    <2>2. (IF round[c].st = "bound" THEN Older(round[c].age) ELSE round[c].age) \in 0..Retain
      BY <2>1, Ages DEF RoundType
    <2> QED
      BY <2>1, <2>2 DEF RoundType
  <1>4. RoundsType'
    BY <1>1, <1>3 DEF RoundsType
  <1>5. \A c \in Corr : round[c] \in RoundType /\ round'[c].st = round[c].st /\ round'[c].owner = round[c].owner
    BY <1>1 DEF Types, RoundsType, RoundType
  <1>6. Owned'
    BY <1>5 DEF Types, Owned
  <1>7. LoserType' /\ WinnerType' /\ NetType'
    BY <1>1 DEF Types, LoserType, WinnerType, NetType
  <1> QED
    BY <1>2, <1>4, <1>6, <1>7 DEF Types

LEMMA JumpTypes ==
  ASSUME Types, Jump
  PROVE  Types'
  <1>1. /\ pull' = [c \in Corr |-> [pull[c] EXCEPT !.age = IF pull[c].st \in {"pulling", "acked"} THEN Older(@) ELSE @]]
        /\ UNCHANGED <<lVars, wRoot, wEpoch, wCache, wTomb, wPins, busy, net, issued, dups>>
    BY DEF Jump
  <1>2. PullsType'
    BY <1>1, PullsOlder DEF Types
  <1> QED
    BY <1>1, <1>2, WinnerStep DEF Types, WinnerType, NetType

LEMMA CrashTypes ==
  ASSUME Types, Crash
  PROVE  Types'
  <1>1. /\ wRoot' = FALSE /\ wEpoch' = wEpoch /\ wCache' = {} /\ wTomb' = {} /\ wPins' = {} /\ busy' = {}
        /\ pull' = [c \in Corr |-> NoPull]
        /\ UNCHANGED <<lVars, net, issued, dups>>
    BY DEF Crash
  <1>2. PullsType' /\ WinnerType'
    BY <1>1, NoPullTyped DEF Types, PullsType, WinnerType
  <1> QED
    BY <1>1, <1>2, WinnerStep DEF Types, NetType

\* The other steps of the winner's memory and the loser's expiry.
LEMMA SmallTypes ==
  ASSUME Types, \/ Reform
                \/ \E x \in Msg : ExpireAtWinner(x)
                \/ \E l \in Loser, x \in Msg : ExpireAtLoser(l, x)
                \/ UNCHANGED vars
  PROVE  Types'
  <1>1. CASE Reform
    BY <1>1, WinnerStep DEF Reform, Types, WinnerType, NetType, PullsType
  <1>2. CASE \E x \in Msg : ExpireAtWinner(x)
    BY <1>2, WinnerStep DEF ExpireAtWinner, Types, WinnerType, NetType, PullsType
  <1>3. ASSUME NEW l \in Loser, NEW x \in Msg, ExpireAtLoser(l, x) PROVE Types'
    <2>1. LoserType'
      BY <1>3 DEF ExpireAtLoser, Types, LoserType
    <2> QED
      BY <1>3, <2>1, LoserStep DEF ExpireAtLoser, Types, NetType, RoundsType, Owned
  <1>4. CASE UNCHANGED vars
    BY <1>4, LoserStep DEF vars, lVars, Types, LoserType, NetType, RoundsType, Owned
  <1> QED
    BY <1>1, <1>2, <1>3, <1>4

LEMMA TypesStep == Types /\ [Next]_vars => Types'
  <1> SUFFICES ASSUME Types, [Next]_vars PROVE Types'
    OBVIOUS
  <1>1. ASSUME NEW m \in net,
          \/ BindRound(m) \/ ExportBound(m) \/ ServeFrame(m)
          \/ OnOffer(m) \/ OnHeader(m) \/ OnRefused(m) \/ FrameBegin(m) \/ OnSub(m)
          \/ OnRefusal(m) \/ OnBadAck(m) \/ Step5(m) \/ OnClosed(m) \/ OnWrite(m)
        PROVE Types'
    BY <1>1, BindTypes, ExportBoundTypes, ServeTypes, OnOfferTypes, OnHeaderTypes, OnRefusedTypes, FrameBeginTypes,
       OnSubTypes, OnRefusalTypes, OnBadAckTypes, Step5Types, OnClosedTypes, OnWriteTypes
  <1>2. ASSUME NEW b \in busy, FrameEnd(b) PROVE Types'
    BY <1>2, FrameEndTypes
  <1>3. ASSUME NEW l \in Loser, Candidate(l) \/ Renew(l) \/ ForwardAbort(l) \/ GateTimeout(l) PROVE Types'
    BY <1>3, CandidateTypes, RenewTypes, ForwardAbortTypes, GateTimeoutTypes
  <1>4. ASSUME NEW l \in Loser, NEW w \in Write, Admit(l, w) PROVE Types'
    BY <1>4, AdmitTypes
  <1>5. ASSUME NEW l \in Loser, NEW i \in ingest[l], Commit(l, i) PROVE Types'
    BY <1>5, CommitTypes
  <1>6. ASSUME NEW c \in Corr, OfferTimeout(c) \/ PullTimeout(c) PROVE Types'
    BY <1>6, OfferTimeoutTypes, PullTimeoutTypes
  <1>7. CASE Tick
    BY <1>7, TickTypes
  <1>8. CASE Jump
    BY <1>8, JumpTypes
  <1>9. CASE Crash
    BY <1>9, CrashTypes
  <1> QED
    BY <1>1, <1>2, <1>3, <1>4, <1>5, <1>6, <1>7, <1>8, <1>9, SmallTypes DEF Next, Receive, Sweep

\* The variables keep their types, for every winner, loser and round.
THEOREM MergeTypes == Spec => []TypeOK
  <1>1. Types => TypeOK
    BY DEF Types, LoserType, WinnerType, RoundsType, PullsType, NetType, TypeOK
  <1> QED
    BY <1>1, TypesInit, TypesStep, PTL DEF Spec

-----------------------------------------------------------------------------
(***************************************************************************)
(* The loser's rounds.                                                     *)
(***************************************************************************)
Gated(l) ==
    gate[l] # None =>
        /\ round[gate[l]].st = "bound" /\ round[gate[l]].owner = l
        /\ lRoot[l] => lCache[l] \subseteq Bodies(round[gate[l]].items) /\ lTomb[l] \subseteq Dels(round[gate[l]].items)

\* A loser that completes is no root, and pins its export until the close.
Completes(l) ==
    completing[l] # None =>
        /\ ~lRoot[l] /\ gate[l] = None
        /\ round[completing[l]].owner = l /\ round[completing[l]].st \in {"completed", "closed"}
        /\ Bodies(round[completing[l]].items) \subseteq lPins[l]

\* A write that came in before the cut cannot commit after it.
Generations(l) ==
    \A i \in ingest[l] : i.gen <= lGen[l] /\ (gate[l] # None \/ completing[l] # None => i.gen < lGen[l])

Nominated(l) ==
    Cutover /\ lRoot[l] /\ cand[l] # 0 =>
        \E c \in Corr : round[c].owner = l /\ round[c].st \in {"offered", "bound", "completed"}

LoserInv(l) == Gated(l) /\ Completes(l) /\ Generations(l) /\ Nominated(l)

BoundGated == \A c \in Corr : round[c].st = "bound" => gate[round[c].owner] = c

MergeInv == Types /\ BoundGated /\ \A l \in Loser : LoserInv(l)

LEMMA MergeInvInit == Init => MergeInv
  <1> SUFFICES ASSUME Init PROVE MergeInv
    OBVIOUS
  <1>1. BoundGated
    BY DEF Init, BoundGated, NoRound
  <1>2. \A l \in Loser : LoserInv(l)
    BY DEF Init, LoserInv, Gated, Completes, Generations, Nominated
  <1> QED
    BY <1>1, <1>2, TypesInit DEF MergeInv

\* The rounds of l are what they were.
KeepRounds(l) ==
    \A c \in Corr : round[c].owner = l /\ round[c].st # "none" =>
        round'[c].owner = l /\ round'[c].st = round[c].st /\ round'[c].items = round[c].items

\* A loser that a step passes by, or that only lets go of a body or a write.
LEMMA PassedBy ==
  ASSUME MergeInv, NEW l \in Loser, KeepRounds(l),
         gate'[l] = gate[l], completing'[l] = completing[l], lRoot'[l] = lRoot[l], lGen'[l] = lGen[l],
         lCache'[l] \subseteq lCache[l], lTomb'[l] = lTomb[l], lPins[l] \subseteq lPins'[l],
         ingest'[l] \subseteq ingest[l], cand'[l] = cand[l]
  PROVE  LoserInv(l)'
  <1>1. LoserInv(l) /\ gate[l] \in Corr \cup {None} /\ completing[l] \in Corr \cup {None}
    BY DEF MergeInv, Types, LoserType
  <1>2. Gated(l)'
    BY <1>1 DEF LoserInv, Gated, KeepRounds
  <1>3. Completes(l)'
    <2>1. CASE completing[l] = None
      BY <2>1 DEF Completes
    <2>2. CASE completing[l] # None
      <3>1. PICK c \in Corr : c = completing[l]
        BY <1>1, <2>2
      <3>2. /\ ~lRoot[l] /\ gate[l] = None /\ round[c].owner = l /\ round[c].st \in {"completed", "closed"}
            /\ Bodies(round[c].items) \subseteq lPins[l]
        BY <1>1, <2>2, <3>1 DEF LoserInv, Completes
      <3>3. round'[c].owner = l /\ round'[c].st = round[c].st /\ round'[c].items = round[c].items
        BY <3>2 DEF KeepRounds
      <3>4. Bodies(round'[c].items) \subseteq lPins'[l]
        BY <3>2, <3>3
      <3>5. completing'[l] = c /\ ~lRoot'[l] /\ gate'[l] = None /\ round'[c].st \in {"completed", "closed"}
        BY <3>1, <3>2, <3>3
      <3> QED
        BY <3>3, <3>4, <3>5 DEF Completes
    <2> QED
      BY <2>1, <2>2
  <1>4. Generations(l)'
    BY <1>1 DEF LoserInv, Generations
  <1>5. Nominated(l)'
    BY <1>1 DEF LoserInv, Nominated, KeepRounds
  <1> QED
    BY <1>2, <1>3, <1>4, <1>5 DEF LoserInv

\* Closing a round.
LEMMA ClosedShape ==
  ASSUME Types, NEW c \in Corr, round' = Closed(c)
  PROVE  /\ \A d \in Corr \ {c} : round'[d] = round[d]
         /\ round'[c].st = "closed" /\ round'[c].owner = round[c].owner /\ round'[c].items = <<>>
  BY DEF Closed, Types, RoundsType, NoRound

\* Steps that leave the loser alone.
LEMMA SameLosers ==
  ASSUME MergeInv, Types', UNCHANGED <<lRoot, lCache, lTomb, lPins, lGen, gate, cand, completing, ingest>>,
         \A c \in Corr : round'[c].owner = round[c].owner /\ round'[c].st = round[c].st /\ round'[c].items = round[c].items
  PROVE  MergeInv'
  <1>1. \A l \in Loser : LoserInv(l)'
    <2> SUFFICES ASSUME NEW l \in Loser PROVE LoserInv(l)'
      OBVIOUS
    <2>1. KeepRounds(l)
      BY DEF KeepRounds
    <2> QED
      BY <2>1, PassedBy
  <1>2. BoundGated'
    BY DEF MergeInv, BoundGated
  <1> QED
    BY <1>1, <1>2 DEF MergeInv

LEMMA CandidateKeeps ==
  ASSUME MergeInv, Types', NEW l \in Loser, Candidate(l)
  PROVE  MergeInv'
  <1> DEFINE open == gate[l] # None \/ completing[l] # None \/ OpenRounds(l) # {}
  <1>1. UNCHANGED <<lCache, lTomb, lPins, lGen, gate, completing, ingest>> /\ lRoot[l] /\ LoserInv(l)
    BY DEF Candidate, MergeInv
  <1>2. LoserType /\ RoundsType
    BY DEF MergeInv, Types
  <1>3. CASE ~HasCustody(l)
    <2>1. lRoot' = [lRoot EXCEPT ![l] = FALSE] /\ cand' = cand /\ round' = round
      BY <1>3 DEF Candidate
    <2>2. \A k \in Loser \ {l} : LoserInv(k)'
      BY <1>1, <1>2, <2>1, PassedBy DEF KeepRounds, LoserType
    <2>3. LoserInv(l)'
      BY <1>1, <1>2, <2>1 DEF LoserInv, Gated, Completes, Generations, Nominated, LoserType
    <2>4. BoundGated'
      BY <1>1, <2>1 DEF MergeInv, BoundGated
    <2> QED
      BY <2>2, <2>3, <2>4 DEF MergeInv
  <1>4. CASE HasCustody(l)
    <2>1. lRoot' = lRoot /\ cand' = [cand EXCEPT ![l] = wEpoch] /\ Offer(l, wEpoch, open)
      BY <1>4 DEF Candidate
    <2>2. CASE open
      <3>1. round' = round
        BY <2>1, <2>2 DEF Offer
      <3>2. \A k \in Loser \ {l} : LoserInv(k)'
        BY <1>1, <1>2, <2>1, <3>1, PassedBy DEF KeepRounds, LoserType
      <3>3. \E c \in Corr : round[c].owner = l /\ round[c].st \in {"offered", "bound", "completed"}
        <4>1. completing[l] = None
          BY <1>1 DEF LoserInv, Completes
        <4>2. gate[l] # None => gate[l] \in Corr
          BY <1>2 DEF LoserType
        <4> QED
          BY <1>1, <2>2, <4>1, <4>2 DEF LoserInv, Gated, OpenRounds
      <3>4. LoserInv(l)'
        BY <1>1, <2>1, <3>1, <3>3 DEF LoserInv, Gated, Completes, Generations, Nominated
      <3>5. BoundGated'
        BY <1>1, <3>1 DEF MergeInv, BoundGated
      <3> QED
        BY <3>2, <3>4, <3>5 DEF MergeInv
    <2>3. CASE ~open
      <3>1. PICK c \in Corr, r \in BOOLEAN :
              /\ round[c].st = "none"
              /\ round' = [round EXCEPT ![c] = [NoRound EXCEPT !.st = "offered", !.owner = l,
                                                               !.epoch = wEpoch, !.reached = r]]
        BY <2>1, <2>3 DEF Offer
      <3>2. round'[c].st = "offered" /\ round'[c].owner = l /\ \A d \in Corr \ {c} : round'[d] = round[d]
        BY <1>2, <3>1 DEF RoundsType, NoRound
      <3>3. \A k \in Loser : KeepRounds(k)
        BY <3>1, <3>2 DEF KeepRounds
      <3>4. \A k \in Loser \ {l} : LoserInv(k)'
        BY <1>1, <1>2, <2>1, <3>3, PassedBy DEF LoserType
      <3>5. gate[l] = None /\ completing[l] = None
        BY <2>3
      <3>6. LoserInv(l)'
        BY <1>1, <3>2, <3>5 DEF LoserInv, Gated, Completes, Generations, Nominated
      <3>7. BoundGated'
        BY <1>1, <3>2 DEF MergeInv, BoundGated
      <3> QED
        BY <3>4, <3>6, <3>7 DEF MergeInv
    <2> QED
      BY <2>2, <2>3
  <1> QED
    BY <1>3, <1>4

LEMMA BindKeeps ==
  ASSUME MergeInv, Types', NEW m \in net, BindRound(m)
  PROVE  MergeInv'
  <1>1. m \in Frame /\ m.type = "pull" /\ RoundsType /\ LoserType
    BY DEF MergeInv, Types, NetType, BindRound
  <1>2. PICK c \in Corr : c = m.corr
    BY <1>1, Corrs
  <1>3. round[c].owner \in Loser
    BY <1>2 DEF MergeInv, Types, Owned, BindRound
  <1>4. PICK l \in Loser : l = round[c].owner
    BY <1>3
  <1>5. /\ round[c].st = "offered" /\ gate[l] = None /\ completing[l] = None
        /\ lGen' = [lGen EXCEPT ![l] = @ + 1] /\ gate' = [gate EXCEPT ![l] = c]
        /\ round' = [round EXCEPT ![c].st = "bound", ![c].epoch = m.epoch,
                                  ![c].items = Export(l), ![c].sent = 0, ![c].age = 0]
        /\ UNCHANGED <<lRoot, lCache, lTomb, lPins, cand, completing, ingest>>
    BY <1>2, <1>4 DEF BindRound
  <1>6. /\ \A d \in Corr \ {c} : round'[d] = round[d]
        /\ round'[c].st = "bound" /\ round'[c].owner = l /\ round'[c].items = Export(l)
    BY <1>1, <1>4, <1>5 DEF RoundsType, RoundType
  <1>7. \A k \in Loser \ {l} : KeepRounds(k)
    BY <1>4, <1>6 DEF KeepRounds
  <1>8. \A k \in Loser \ {l} : LoserInv(k)'
    BY <1>1, <1>5, <1>7, PassedBy DEF LoserType
  <1>9. Bodies(Export(l)) = lCache[l] /\ Dels(Export(l)) = lTomb[l]
    BY <1>1, ExportIsAll DEF LoserType
  <1>10. gate'[l] = c /\ lGen'[l] = lGen[l] + 1 /\ lGen[l] \in Nat
    BY <1>1, <1>5 DEF LoserType
  <1>11. LoserInv(l)
    BY DEF MergeInv
  <1>12. Gated(l)'
    <2>1. lCache'[l] \subseteq Bodies(round'[c].items) /\ lTomb'[l] \subseteq Dels(round'[c].items)
      BY <1>5, <1>6, <1>9
    <2> QED
      BY <1>6, <1>10, <2>1 DEF Gated
  <1>13. Completes(l)'
    BY <1>5 DEF Completes
  <1>14. Generations(l)'
    <2>1. \A i \in ingest[l] : i.gen \in Nat /\ i.gen <= lGen[l]
      BY <1>1, <1>11 DEF LoserInv, Generations, LoserType
    <2> QED
      BY <1>5, <1>10, <2>1 DEF Generations
  <1>15. Nominated(l)'
    BY <1>6 DEF Nominated
  <1>16. BoundGated'
    <2> SUFFICES ASSUME NEW d \in Corr, round'[d].st = "bound" PROVE gate'[round'[d].owner] = d
      BY DEF BoundGated
    <2>1. CASE d = c
      BY <1>6, <1>10, <2>1
    <2>2. CASE d # c
      <3>1. round[d].st = "bound" /\ round'[d].owner = round[d].owner /\ round[d].owner \in Loser
        BY <1>6, <2>2 DEF MergeInv, Types, Owned
      <3>2. gate[round[d].owner] = d
        BY <3>1 DEF MergeInv, BoundGated
      <3>3. round[d].owner # l
        <4>1. gate[l] # d
          BY <1>2, <1>5, MergeAssumption, <2>2
        <4> QED
          BY <3>2, <4>1
      <3> QED
        BY <1>1, <1>5, <3>1, <3>2, <3>3 DEF LoserType
    <2> QED
      BY <2>1, <2>2
  <1> QED
    BY <1>8, <1>12, <1>13, <1>14, <1>15, <1>16 DEF MergeInv, LoserInv

\* A round that is not bound is closed: its loser only loses its candidate.
LEMMA CloseUnbound ==
  ASSUME MergeInv, Types', NEW c \in Corr, NEW l \in Loser, round[c].owner = l, round[c].st # "bound",
         round' = Closed(c), gate'[l] = gate[l], completing'[l] \in {completing[l], None},
         lRoot'[l] => lRoot[l], completing'[l] # None => lPins'[l] = lPins[l],
         lGen[l] <= lGen'[l], lCache'[l] = lCache[l], lTomb'[l] = lTomb[l],
         ingest'[l] = ingest[l], Cutover /\ lRoot'[l] => cand'[l] = 0,
         \A k \in Loser \ {l} :
            /\ gate'[k] = gate[k] /\ completing'[k] = completing[k] /\ lRoot'[k] = lRoot[k] /\ lGen'[k] = lGen[k]
            /\ lCache'[k] = lCache[k] /\ lTomb'[k] = lTomb[k] /\ lPins'[k] = lPins[k]
            /\ ingest'[k] = ingest[k] /\ cand'[k] = cand[k]
  PROVE  MergeInv'
  <1>1. /\ \A d \in Corr \ {c} : round'[d] = round[d]
        /\ round'[c].st = "closed" /\ round'[c].owner = l /\ round'[c].items = <<>>
    BY ClosedShape DEF MergeInv
  <1>2. \A k \in Loser \ {l} : KeepRounds(k)
    BY <1>1 DEF KeepRounds
  <1>3. \A k \in Loser \ {l} : LoserInv(k)'
    BY <1>2, PassedBy
  <1>4. LoserInv(l) /\ gate[l] \in Corr \cup {None} /\ completing[l] \in Corr \cup {None} /\ gate[l] # c
    <2>1. LoserInv(l) /\ gate[l] \in Corr \cup {None} /\ completing[l] \in Corr \cup {None}
      BY DEF MergeInv, Types, LoserType
    <2>2. gate[l] # c
      BY <2>1, MergeAssumption DEF LoserInv, Gated
    <2> QED
      BY <2>1, <2>2
  <1>5. Gated(l)'
    BY <1>1, <1>4 DEF LoserInv, Gated
  <1>6. Completes(l)'
    <2>1. CASE completing'[l] = None
      BY <2>1 DEF Completes
    <2>2. CASE completing'[l] # None
      <3>1. PICK d \in Corr : d = completing[l] /\ d = completing'[l]
        BY <1>4, <2>2
      <3>2. /\ ~lRoot[l] /\ gate[l] = None /\ round[d].owner = l /\ round[d].st \in {"completed", "closed"}
            /\ Bodies(round[d].items) \subseteq lPins[l]
        BY <1>4, <2>2, <3>1 DEF LoserInv, Completes
      <3>3. Bodies(round'[d].items) \subseteq lPins'[l] /\ round'[d].owner = l /\ round'[d].st \in {"completed", "closed"}
        <4>1. CASE d = c
          BY <1>1, <4>1, NothingExported
        <4>2. CASE d # c
          BY <1>1, <2>2, <3>2, <4>2
        <4> QED
          BY <4>1, <4>2
      <3> QED
        BY <3>1, <3>2, <3>3 DEF Completes
    <2> QED
      BY <2>1, <2>2
  <1>7. Generations(l)'
    <2>1. lGen[l] \in Nat /\ lGen'[l] \in Nat /\ \A i \in ingest[l] : i.gen \in Nat
      BY DEF MergeInv, Types, LoserType
    <2>2. \A i \in ingest[l] : i.gen <= lGen[l] /\ (gate[l] # None \/ completing[l] # None => i.gen < lGen[l])
      BY <1>4 DEF LoserInv, Generations
    <2> QED
      BY <2>1, <2>2 DEF Generations
  <1>8. Nominated(l)'
    BY DEF Nominated
  <1>9. BoundGated'
    <2> SUFFICES ASSUME NEW d \in Corr, round'[d].st = "bound" PROVE gate'[round'[d].owner] = d
      BY DEF BoundGated
    <2>1. d # c /\ round'[d] = round[d] /\ round[d].owner \in Loser
      BY <1>1 DEF MergeInv, Types, Owned
    <2>2. gate'[round[d].owner] = gate[round[d].owner]
      BY <2>1
    <2> QED
      BY <2>1, <2>2 DEF MergeInv, BoundGated
  <1> QED
    BY <1>3, <1>5, <1>6, <1>7, <1>8, <1>9 DEF MergeInv, LoserInv

\* The bound round of l is closed with its gate (_mergeAbort).
LEMMA CloseBound ==
  ASSUME MergeInv, Types', NEW c \in Corr, NEW l \in Loser, gate[l] = c,
         \A d \in Corr : round[d].st # "none" => round'[d] = Closed(c)[d],
         \A d \in Corr : round'[d].st # "bound" \/ round'[d] = Closed(c)[d],
         gate' = [gate EXCEPT ![l] = None],
         lRoot' = lRoot, completing' = completing, lGen' = lGen, lCache' = lCache, lTomb' = lTomb, ingest' = ingest,
         \A k \in Loser : lPins[k] \subseteq lPins'[k],
         Cutover /\ cand'[l] # 0 => \E d \in Corr : round'[d].owner = l /\ round'[d].st = "offered",
         \A k \in Loser \ {l} : cand'[k] = cand[k]
  PROVE  MergeInv'
  <1>1. /\ \A d \in Corr \ {c} : Closed(c)[d] = round[d]
        /\ Closed(c)[c].st = "closed" /\ Closed(c)[c].owner = round[c].owner
    BY DEF Closed, MergeInv, Types, RoundsType, NoRound
  <1>2. round[c].st = "bound" /\ round[c].owner = l /\ c # None
    BY MergeAssumption DEF MergeInv, LoserInv, Gated
  <1>3. \A k \in Loser \ {l} : KeepRounds(k)
    BY <1>1, <1>2 DEF KeepRounds
  <1>4. gate'[l] = None /\ \A k \in Loser \ {l} : gate'[k] = gate[k]
    BY DEF MergeInv, Types, LoserType
  <1>5. \A k \in Loser \ {l} : LoserInv(k)'
    BY <1>3, <1>4, PassedBy
  <1>6. LoserInv(l)
    BY DEF MergeInv
  <1>7. completing[l] = None
    BY <1>2, <1>6 DEF LoserInv, Completes
  <1>8. Gated(l)' /\ Completes(l)' /\ Generations(l)'
    BY <1>4, <1>6, <1>7 DEF LoserInv, Gated, Completes, Generations
  <1>9. Nominated(l)'
    BY DEF Nominated
  <1>10. BoundGated'
    <2> SUFFICES ASSUME NEW d \in Corr, round'[d].st = "bound" PROVE gate'[round'[d].owner] = d
      BY DEF BoundGated
    <2>1. d # c /\ round'[d] = round[d]
      BY <1>1
    <2>2. round[d].owner \in Loser /\ gate[round[d].owner] = d
      BY <2>1 DEF MergeInv, Types, Owned, BoundGated
    <2>3. round[d].owner # l
      BY <2>1, <2>2
    <2> QED
      BY <1>4, <2>1, <2>2, <2>3
  <1> QED
    BY <1>5, <1>8, <1>9, <1>10 DEF MergeInv, LoserInv

LEMMA ExportBoundKeeps ==
  ASSUME MergeInv, Types', NEW m \in net, ExportBound(m)
  PROVE  MergeInv'
  <1>1. m \in Frame /\ m.type = "pull" /\ LoserType
    BY DEF MergeInv, Types, NetType, ExportBound
  <1>2. PICK c \in Corr : c = m.corr
    BY <1>1, Corrs
  <1>3. round[c].owner \in Loser
    BY <1>2 DEF MergeInv, Types, Owned, ExportBound
  <1>4. PICK l \in Loser : l = round[c].owner
    BY <1>3
  <1>5. /\ round[c].st = "offered"
        /\ lGen' = [lGen EXCEPT ![l] = @ + 1] /\ cand' = [cand EXCEPT ![l] = 0] /\ round' = Closed(c)
        /\ UNCHANGED <<lRoot, lCache, lTomb, lPins, gate, completing, ingest>>
    BY <1>2, <1>4 DEF ExportBound
  <1>6. lGen[l] <= lGen'[l] /\ cand'[l] = 0 /\ \A k \in Loser \ {l} : lGen'[k] = lGen[k] /\ cand'[k] = cand[k]
    BY <1>1, <1>5 DEF LoserType
  <1> QED
    BY <1>4, <1>5, <1>6, CloseUnbound

LEMMA ServeKeeps ==
  ASSUME MergeInv, Types', NEW m \in net, ServeFrame(m)
  PROVE  MergeInv'
  <1>1. m \in Frame /\ m.type = "pull" /\ RoundsType
    BY DEF MergeInv, Types, NetType, ServeFrame
  <1>2. PICK c \in Corr : c = m.corr
    BY <1>1, Corrs
  <1>3. PICK to : round' = [round EXCEPT ![c].sent = to]
    BY <1>2 DEF ServeFrame
  <1>4. \A d \in Corr : round'[d].owner = round[d].owner /\ round'[d].st = round[d].st /\ round'[d].items = round[d].items
    BY <1>1, <1>3 DEF RoundsType, RoundType
  <1> QED
    BY <1>4, SameLosers DEF ServeFrame

LEMMA OnRefusalKeeps ==
  ASSUME MergeInv, Types', NEW m \in net, OnRefusal(m)
  PROVE  MergeInv'
  <1>1. m \in Frame /\ m.type = "ack" /\ LoserType
    BY DEF MergeInv, Types, NetType, OnRefusal
  <1>2. PICK c \in Corr : c = m.corr
    BY <1>1, Corrs
  <1>3. round[c].owner \in Loser
    BY <1>2 DEF MergeInv, Types, Owned, OnRefusal, OpenRounds
  <1>4. PICK l \in Loser : l = round[c].owner
    BY <1>3
  <1>5. /\ round' = Closed(c)
        /\ gate' = [gate EXCEPT ![l] = IF @ = c THEN None ELSE @]
        /\ cand' = [cand EXCEPT ![l] = IF m.disp = "not-root" \/ Cutover THEN 0 ELSE @]
        /\ UNCHANGED <<lRoot, lCache, lTomb, lPins, lGen, completing, ingest>>
    BY <1>2, <1>4 DEF OnRefusal
  <1>6. (Cutover => cand'[l] = 0) /\ \A k \in Loser \ {l} : cand'[k] = cand[k]
    BY <1>1, <1>5 DEF LoserType
  <1>7. CASE round[c].st = "bound"
    <2>1. gate[l] = c
      BY <1>4, <1>7 DEF MergeInv, BoundGated
    <2>2. gate' = [gate EXCEPT ![l] = None]
      BY <1>5, <2>1
    <2>3. \A k \in Loser : lPins[k] \subseteq lPins'[k]
      BY <1>5
    <2>4. /\ \A d \in Corr : round[d].st # "none" => round'[d] = Closed(c)[d]
          /\ \A d \in Corr : round'[d].st # "bound" \/ round'[d] = Closed(c)[d]
      BY <1>5
    <2> QED
      BY <1>5, <1>6, <2>1, <2>2, <2>3, <2>4, CloseBound
  <1>8. CASE round[c].st # "bound"
    <2>1. gate[l] # c
      BY <1>2, <1>8, MergeAssumption DEF MergeInv, LoserInv, Gated
    <2>2. gate' = gate
      BY <1>1, <1>5, <2>1 DEF LoserType
    <2>3. lGen[l] <= lGen'[l]
      BY <1>1, <1>5 DEF LoserType
    <2> QED
      BY <1>4, <1>5, <1>6, <1>8, <2>2, <2>3, CloseUnbound
  <1> QED
    BY <1>7, <1>8

\* _mergeAbort of the gated round, with the pins it may leave.
LEMMA AbortKeeps ==
  ASSUME MergeInv, Types', NEW l \in Loser, gate[l] # None, Abort(l),
         UNCHANGED <<lRoot, completing, lGen, lCache, lTomb, ingest>>,
         \A k \in Loser : lPins[k] \subseteq lPins'[k]
  PROVE  MergeInv'
  <1>1. PICK c \in Corr : c = gate[l]
    BY DEF MergeInv, Types, LoserType
  <1>2. round' = Closed(c) /\ gate' = [gate EXCEPT ![l] = None] /\ cand' = [cand EXCEPT ![l] = 0]
    BY <1>1 DEF Abort
  <1>3. cand'[l] = 0 /\ \A k \in Loser \ {l} : cand'[k] = cand[k]
    BY <1>2 DEF MergeInv, Types, LoserType
  <1>4. /\ \A d \in Corr : round[d].st # "none" => round'[d] = Closed(c)[d]
        /\ \A d \in Corr : round'[d].st # "bound" \/ round'[d] = Closed(c)[d]
    BY <1>2
  <1> QED
    BY <1>1, <1>2, <1>3, <1>4, CloseBound

LEMMA OnBadAckKeeps ==
  ASSUME MergeInv, Types', NEW m \in net, OnBadAck(m)
  PROVE  MergeInv'
  <1>0. Types
    BY DEF MergeInv
  <1>1. m \in Frame /\ m.type = "ack" /\ SixFields(m) /\ LoserType
    BY <1>0 DEF Types, NetType, OnBadAck
  <1>2. PICK c \in Corr, l \in Loser : c = m.corr /\ l = round[c].owner
    BY <1>0, <1>1, BoundOwner
  <1>3. /\ lPins' = lPins \/ lPins' = Pinned(l, c)
        /\ gate[l] # None /\ Abort(l)
        /\ UNCHANGED <<lRoot, lCache, lTomb, lGen, completing, ingest>>
    BY <1>2 DEF OnBadAck, Abort
  <1>4. \A k \in Loser : lPins[k] \subseteq lPins'[k]
    BY <1>1, <1>3 DEF Pinned, LoserType
  <1> QED
    BY <1>3, <1>4, AbortKeeps

LEMMA Step5Keeps ==
  ASSUME MergeInv, Types', NEW m \in net, Step5(m)
  PROVE  MergeInv'
  <1>0. Types
    BY DEF MergeInv
  <1>1. m \in Frame /\ m.type = "ack" /\ SixFields(m) /\ LoserType /\ RoundsType
    BY <1>0 DEF Types, NetType, Step5
  <1>2. PICK c \in Corr, l \in Loser : c = m.corr /\ l = round[c].owner
    BY <1>0, <1>1, BoundOwner
  <1>3. /\ lPins' = Pinned(l, c)
        /\ lRoot' = [lRoot EXCEPT ![l] = FALSE]
        /\ gate' = [gate EXCEPT ![l] = IF @ = c THEN None ELSE @]
        /\ round' = [round EXCEPT ![c].st = "completed"]
        /\ completing' = [completing EXCEPT ![l] = c]
        /\ UNCHANGED <<lCache, lTomb, lGen, cand, ingest>>
    BY <1>2 DEF Step5
  <1>4. round[c].st = "bound" /\ gate[l] = c
    BY <1>1, <1>2 DEF SixFields, MergeInv, BoundGated
  <1>5. /\ gate'[l] = None /\ lRoot'[l] = FALSE /\ completing'[l] = c
        /\ \A k \in Loser \ {l} : gate'[k] = gate[k] /\ lRoot'[k] = lRoot[k] /\ completing'[k] = completing[k]
    BY <1>1, <1>3, <1>4 DEF LoserType
  <1>6. /\ \A d \in Corr \ {c} : round'[d] = round[d]
        /\ round'[c].st = "completed" /\ round'[c].owner = l /\ round'[c].items = round[c].items
    BY <1>1, <1>2, <1>3 DEF RoundsType, RoundType
  <1>7. /\ lPins'[l] = lPins[l] \cup Bodies(round[c].items) \cup Dels(round[c].items)
        /\ \A k \in Loser \ {l} : lPins'[k] = lPins[k]
    BY <1>1, <1>3 DEF Pinned, LoserType
  <1>8. \A k \in Loser \ {l} : LoserInv(k)'
    <2> SUFFICES ASSUME NEW k \in Loser \ {l} PROVE LoserInv(k)'
      OBVIOUS
    <2>1. KeepRounds(k)
      BY <1>2, <1>6 DEF KeepRounds
    <2> QED
      BY <1>3, <1>5, <1>7, <2>1, PassedBy
  <1>9. LoserInv(l)
    BY DEF MergeInv
  <1>10. Gated(l)' /\ Nominated(l)'
    BY <1>5 DEF Gated, Nominated
  <1>11. Completes(l)'
    BY <1>5, <1>6, <1>7 DEF Completes
  <1>12. Generations(l)'
    <2>1. gate[l] # None
      BY <1>4, MergeAssumption
    <2> QED
      BY <1>3, <1>9, <2>1 DEF LoserInv, Generations
  <1>13. BoundGated'
    <2> SUFFICES ASSUME NEW d \in Corr, round'[d].st = "bound" PROVE gate'[round'[d].owner] = d
      BY DEF BoundGated
    <2>1. d # c /\ round'[d] = round[d]
      BY <1>6
    <2>2. round[d].owner \in Loser /\ gate[round[d].owner] = d
      BY <2>1 DEF MergeInv, Types, Owned, BoundGated
    <2>3. round[d].owner # l
      BY <1>4, <2>1, <2>2
    <2> QED
      BY <1>5, <2>1, <2>2, <2>3
  <1> QED
    BY <1>8, <1>10, <1>11, <1>12, <1>13 DEF MergeInv, LoserInv

LEMMA OnClosedKeeps ==
  ASSUME MergeInv, Types', NEW m \in net, OnClosed(m)
  PROVE  MergeInv'
  <1>1. m \in Frame /\ m.type = "closed" /\ LoserType /\ RoundsType
    BY DEF MergeInv, Types, NetType, OnClosed
  <1>2. PICK c \in Corr : c = m.corr
    BY <1>1, Corrs
  <1>3. round[c].owner \in Loser
    BY <1>1, <1>2 DEF OnClosed, RoundsType, RoundType
  <1>4. PICK l \in Loser : l = round[c].owner
    BY <1>3
  <1>5. /\ completing[l] = c
        /\ completing' = [completing EXCEPT ![l] = None] /\ lPins' = [lPins EXCEPT ![l] = {}]
        /\ round' = Closed(c)
        /\ UNCHANGED <<lRoot, lCache, lTomb, lGen, gate, cand, ingest>>
    BY <1>2, <1>4 DEF OnClosed
  <1>6. ~lRoot[l] /\ round[c].st # "bound"
    <2>1. LoserInv(l) /\ c # None
      BY MergeAssumption DEF MergeInv
    <2> QED
      BY <1>5, <2>1 DEF LoserInv, Completes
  <1>7. /\ completing'[l] = None
        /\ \A k \in Loser \ {l} : completing'[k] = completing[k] /\ lPins'[k] = lPins[k]
    BY <1>1, <1>5 DEF LoserType
  <1>8. lGen[l] <= lGen'[l]
    BY <1>1, <1>5 DEF LoserType
  <1> QED
    BY <1>4, <1>5, <1>6, <1>7, <1>8, CloseUnbound

LEMMA AdmitKeeps ==
  ASSUME MergeInv, Types', NEW l \in Loser, NEW w \in Write, Admit(l, w)
  PROVE  MergeInv'
  <1>1. lRoot[l] /\ UNCHANGED <<lRoot, lCache, lTomb, lPins, lGen, gate, cand, completing, round>> /\ LoserType /\ LoserInv(l)
    BY DEF Admit, MergeInv, Types
  <1>2. CASE gate[l] # None
    <2>1. ingest' = ingest
      BY <1>2 DEF Admit
    <2> QED
      BY <1>1, <2>1, SameLosers
  <1>3. CASE gate[l] = None
    <2>1. ingest' = [ingest EXCEPT ![l] = @ \cup {[w |-> w, gen |-> lGen[l]]}]
      BY <1>3 DEF Admit
    <2>2. \A k \in Loser \ {l} : LoserInv(k)'
      BY <1>1, <2>1, PassedBy DEF KeepRounds, LoserType
    <2>3. completing[l] = None
      BY <1>1 DEF LoserInv, Completes
    <2>4. ingest'[l] = ingest[l] \cup {[w |-> w, gen |-> lGen[l]]} /\ lGen[l] \in Nat
      BY <1>1, <2>1 DEF LoserType
    <2>5. Generations(l)'
      BY <1>1, <1>3, <2>3, <2>4 DEF LoserInv, Generations
    <2>6. Gated(l)' /\ Completes(l)' /\ Nominated(l)'
      BY <1>1 DEF LoserInv, Gated, Completes, Nominated
    <2>7. BoundGated'
      BY <1>1 DEF MergeInv, BoundGated
    <2> QED
      BY <2>2, <2>5, <2>6, <2>7 DEF MergeInv, LoserInv
  <1> QED
    BY <1>2, <1>3

LEMMA CommitKeeps ==
  ASSUME MergeInv, Types', NEW l \in Loser, NEW i \in ingest[l], Commit(l, i)
  PROVE  MergeInv'
  <1>1. /\ ingest' = [ingest EXCEPT ![l] = @ \ {i}] /\ LoserType /\ LoserInv(l)
        /\ UNCHANGED <<lRoot, lPins, lGen, gate, cand, completing, round>>
    BY DEF Commit, MergeInv, Types
  <1>2. \A k \in Loser : KeepRounds(k) /\ ingest'[k] \subseteq ingest[k]
    BY <1>1 DEF KeepRounds, LoserType
  <1>3. \A k \in Loser \ {l} : lCache'[k] = lCache[k] /\ lTomb'[k] = lTomb[k]
    BY <1>1 DEF Commit, LoserType
  <1>4. \A k \in Loser \ {l} : LoserInv(k)'
    BY <1>1, <1>2, <1>3, PassedBy
  <1>5. Gated(l)'
    <2>1. CASE gate[l] = None
      BY <1>1, <2>1 DEF Gated
    <2>2. CASE gate[l] # None
      <3>1. lCache' = lCache /\ lTomb' = lTomb
        BY <2>2 DEF Commit, CutHolds
      <3> QED
        BY <1>1, <3>1 DEF LoserInv, Gated
    <2> QED
      BY <2>1, <2>2
  <1>6. Completes(l)' /\ Nominated(l)' /\ Generations(l)'
    BY <1>1, <1>2 DEF LoserInv, Completes, Nominated, Generations
  <1>7. BoundGated'
    BY <1>1 DEF MergeInv, BoundGated
  <1> QED
    BY <1>4, <1>5, <1>6, <1>7 DEF MergeInv, LoserInv

LEMMA ForwardAbortKeeps ==
  ASSUME MergeInv, Types', NEW l \in Loser, ForwardAbort(l)
  PROVE  MergeInv'
  <1>1. gate[l] # None /\ UNCHANGED <<lRoot, lCache, lTomb, lPins, lGen, completing, ingest>>
    BY DEF ForwardAbort
  <1>2. CASE Abort(l)
    BY <1>1, <1>2, AbortKeeps
  <1>3. ASSUME NEW c \in Corr, round[c].st = "none",
               gate' = [gate EXCEPT ![l] = None], cand' = [cand EXCEPT ![l] = wEpoch],
               round' = [Closed(gate[l]) EXCEPT ![c] =
                           [NoRound EXCEPT !.st = "offered", !.owner = l, !.epoch = wEpoch, !.reached = TRUE]]
        PROVE MergeInv'
    <2>1. PICK g \in Corr : g = gate[l]
      BY <1>1 DEF MergeInv, Types, LoserType
    <2> DEFINE before == Closed(g)
               new == [NoRound EXCEPT !.st = "offered", !.owner = l, !.epoch = wEpoch, !.reached = TRUE]
               after == [before EXCEPT ![c] = new]
    <2>2. round' = after
      BY <1>3, <2>1
    <2>3. before \in [Corr -> RoundType]
      BY ClosedTyped DEF MergeInv, Types
    <2>4. new.st = "offered" /\ new.owner = l
      BY DEF NoRound
    <2> HIDE DEF before, new
    <2>5. after[c] = new /\ \A d \in Corr \ {c} : after[d] = before[d]
      BY <2>3
    <2> HIDE DEF after
    <2>6. \A d \in Corr : round[d].st # "none" => round'[d] = Closed(g)[d]
      BY <1>3, <2>2, <2>5 DEF before
    <2>7. \A d \in Corr : round'[d].st # "bound" \/ round'[d] = Closed(g)[d]
      BY <2>2, <2>4, <2>5 DEF before
    <2>8. \E d \in Corr : round'[d].owner = l /\ round'[d].st = "offered"
      BY <2>2, <2>4, <2>5
    <2>9. \A k \in Loser \ {l} : cand'[k] = cand[k]
      BY <1>3 DEF MergeInv, Types, LoserType
    <2>10. \A k \in Loser : lPins[k] \subseteq lPins'[k]
      BY <1>1
    <2>11. gate[l] = g /\ gate' = [gate EXCEPT ![l] = None] /\ lRoot' = lRoot /\ completing' = completing
      BY <1>1, <1>3, <2>1
    <2>12. lGen' = lGen /\ lCache' = lCache /\ lTomb' = lTomb /\ ingest' = ingest
      BY <1>1
    <2>13. Cutover /\ cand'[l] # 0 => \E d \in Corr : round'[d].owner = l /\ round'[d].st = "offered"
      BY <2>8
    <2> QED
      BY <2>6, <2>7, <2>9, <2>10, <2>11, <2>12, <2>13, CloseBound
  <1> QED
    BY <1>2, <1>3 DEF ForwardAbort

LEMMA OfferTimeoutKeeps ==
  ASSUME MergeInv, Types', NEW c \in Corr, OfferTimeout(c)
  PROVE  MergeInv'
  <1>1. PICK l \in Loser : l = round[c].owner
    BY DEF MergeInv, Types, Owned, OfferTimeout
  <1>2. PICK fallback \in BOOLEAN : lRoot' = [lRoot EXCEPT ![l] = @ /\ ~fallback]
    BY <1>1 DEF OfferTimeout
  <1>3. PICK clears \in BOOLEAN : cand' = [cand EXCEPT ![l] = IF clears THEN 0 ELSE @] /\ (Cutover => clears)
    BY <1>1 DEF OfferTimeout
  <1>4. round' = Closed(c) /\ round[c].st = "offered" /\ UNCHANGED <<lCache, lTomb, lPins, lGen, gate, completing, ingest>>
    BY DEF OfferTimeout
  <1>5. LoserType
    BY DEF MergeInv, Types
  <1>6. (lRoot'[l] => lRoot[l]) /\ (Cutover => cand'[l] = 0) /\ lGen[l] <= lGen'[l]
    BY <1>2, <1>3, <1>4, <1>5 DEF LoserType
  <1>7. \A k \in Loser \ {l} : lRoot'[k] = lRoot[k] /\ cand'[k] = cand[k]
    BY <1>2, <1>3, <1>5 DEF LoserType
  <1> QED
    BY <1>1, <1>4, <1>6, <1>7, CloseUnbound

LEMMA TickKeeps ==
  ASSUME MergeInv, Types', Tick
  PROVE  MergeInv'
  <1>1. round' = [c \in Corr |-> [round[c] EXCEPT !.age = IF round[c].st = "bound" THEN Older(@) ELSE @]]
    BY DEF Tick
  <1>2. \A c \in Corr : round'[c].owner = round[c].owner /\ round'[c].st = round[c].st /\ round'[c].items = round[c].items
    <2> SUFFICES ASSUME NEW c \in Corr
                 PROVE  round'[c].owner = round[c].owner /\ round'[c].st = round[c].st /\ round'[c].items = round[c].items
      OBVIOUS
    <2>1. round[c] \in RoundType
      BY DEF MergeInv, Types, RoundsType
    <2> QED
      BY <1>1, <2>1 DEF RoundType
  <1> QED
    BY <1>2, SameLosers DEF Tick

\* The winner's own steps.
WinnerMoves ==
    \/ \E m \in net : OnOffer(m) \/ OnHeader(m) \/ OnRefused(m) \/ FrameBegin(m) \/ OnSub(m) \/ OnWrite(m)
    \/ \E b \in busy : FrameEnd(b)
    \/ \E c \in Corr : PullTimeout(c)
    \/ Jump \/ Crash \/ Reform
    \/ \E x \in Msg : ExpireAtWinner(x)

LEMMA WinnerAlone == WinnerMoves => UNCHANGED lVars
  <1>1. ASSUME NEW m \in net, OnOffer(m) \/ OnHeader(m) \/ OnRefused(m) \/ FrameBegin(m) \/ OnSub(m) \/ OnWrite(m)
        PROVE  UNCHANGED lVars
    BY <1>1 DEF OnOffer, OnHeader, OnRefused, FrameBegin, OnSub, OnWrite
  <1>2. ASSUME NEW b \in busy, FrameEnd(b) PROVE UNCHANGED lVars
    BY <1>2 DEF FrameEnd
  <1>3. ASSUME NEW c \in Corr, PullTimeout(c) PROVE UNCHANGED lVars
    BY <1>3 DEF PullTimeout
  <1>4. ASSUME Jump \/ Crash \/ Reform \/ \E x \in Msg : ExpireAtWinner(x) PROVE UNCHANGED lVars
    BY <1>4 DEF Jump, Crash, Reform, ExpireAtWinner
  <1> QED
    BY <1>1, <1>2, <1>3, <1>4 DEF WinnerMoves

LEMMA WinnerKeeps ==
  ASSUME MergeInv, Types', UNCHANGED lVars
  PROVE  MergeInv'
  BY SameLosers DEF lVars

LEMMA ExpireKeeps ==
  ASSUME MergeInv, Types', NEW l \in Loser, NEW x \in Msg, ExpireAtLoser(l, x)
  PROVE  MergeInv'
  <1>1. lCache' = [lCache EXCEPT ![l] = @ \ {x}]
        /\ UNCHANGED <<lRoot, lTomb, lPins, lGen, gate, cand, completing, ingest, round>>
    BY DEF ExpireAtLoser
  <1>2. \A k \in Loser : lCache'[k] \subseteq lCache[k] /\ KeepRounds(k)
    BY <1>1 DEF MergeInv, Types, LoserType, KeepRounds
  <1>3. \A k \in Loser : LoserInv(k)'
    BY <1>1, <1>2, PassedBy
  <1>4. BoundGated'
    BY <1>1 DEF MergeInv, BoundGated
  <1> QED
    BY <1>3, <1>4 DEF MergeInv

LEMMA MergeInvStep == MergeInv /\ [Next]_vars => MergeInv'
  <1> SUFFICES ASSUME MergeInv, [Next]_vars PROVE MergeInv'
    OBVIOUS
  <1>0. Types'
    BY TypesStep DEF MergeInv
  <1>1. ASSUME NEW m \in net,
          \/ BindRound(m) \/ ExportBound(m) \/ ServeFrame(m)
          \/ OnRefusal(m) \/ OnBadAck(m) \/ Step5(m) \/ OnClosed(m)
        PROVE MergeInv'
    BY <1>0, <1>1, BindKeeps, ExportBoundKeeps, ServeKeeps, OnRefusalKeeps, OnBadAckKeeps, Step5Keeps, OnClosedKeeps
  <1>2. CASE WinnerMoves
    BY <1>0, <1>2, WinnerAlone, WinnerKeeps
  <1>3. ASSUME NEW l \in Loser, Candidate(l) PROVE MergeInv'
    BY <1>0, <1>3, CandidateKeeps
  <1>4. ASSUME NEW l \in Loser, Renew(l) PROVE MergeInv'
    BY <1>0, <1>4, WinnerKeeps DEF Renew
  <1>5. ASSUME NEW l \in Loser, ForwardAbort(l) PROVE MergeInv'
    BY <1>0, <1>5, ForwardAbortKeeps
  <1>6. ASSUME NEW l \in Loser, GateTimeout(l) PROVE MergeInv'
    BY <1>0, <1>6, AbortKeeps DEF GateTimeout
  <1>7. ASSUME NEW l \in Loser, NEW w \in Write, Admit(l, w) PROVE MergeInv'
    BY <1>0, <1>7, AdmitKeeps
  <1>8. ASSUME NEW l \in Loser, NEW i \in ingest[l], Commit(l, i) PROVE MergeInv'
    BY <1>0, <1>8, CommitKeeps
  <1>9. ASSUME NEW c \in Corr, OfferTimeout(c) PROVE MergeInv'
    BY <1>0, <1>9, OfferTimeoutKeeps
  <1>10. CASE Tick
    BY <1>0, <1>10, TickKeeps
  <1>11. ASSUME NEW l \in Loser, NEW x \in Msg, ExpireAtLoser(l, x) PROVE MergeInv'
    BY <1>0, <1>11, ExpireKeeps
  <1>12. CASE UNCHANGED vars
    BY <1>0, <1>12, WinnerKeeps DEF vars
  <1> QED
    BY <1>1, <1>2, <1>3, <1>4, <1>5, <1>6, <1>7, <1>8, <1>9, <1>10, <1>11, <1>12
       DEF Next, Receive, Sweep, WinnerMoves

THEOREM MergeInvariant == Spec => []MergeInv
  BY MergeInvInit, MergeInvStep, PTL DEF Spec

\* Gates and candidates never outlive their rounds (_mergeAbort, _mergeSweep):
\* a gate stands for one bound round of its loser, and with the cutover option
\* a root's candidate has a round.
THEOREM RoundsAgreeAlways ==
  ASSUME Cutover
  PROVE  Spec => []RoundsAgree
  <1>1. MergeInv => RoundsAgree
    BY DEF MergeInv, LoserInv, Gated, Nominated, BoundGated, RoundsAgree, GateIffBound, CandidateHasRound, OpenRounds
  <1> QED
    BY <1>1, MergeInvariant, PTL

\* Without it the gates still agree.
THEOREM GatesAgreeAlways == Spec => []GateIffBound
  <1>1. MergeInv => GateIffBound
    BY DEF MergeInv, LoserInv, Gated, BoundGated, GateIffBound
  <1> QED
    BY <1>1, MergeInvariant, PTL

-----------------------------------------------------------------------------
(***************************************************************************)
(* The export is complete, and kept.                                       *)
(***************************************************************************)
\* Only step 5 makes a loser complete.
LEMMA CompletingSet ==
  ASSUME Types, [Next]_vars, NEW l \in Loser, completing'[l] # completing[l], completing'[l] # None
  PROVE  \E m \in net : Step5(m)
  <1>1. ASSUME NEW m \in net,
          BindRound(m) \/ ExportBound(m) \/ ServeFrame(m) \/ OnRefusal(m) \/ OnBadAck(m)
        PROVE completing' = completing
    BY <1>1 DEF BindRound, ExportBound, ServeFrame, OnRefusal, OnBadAck
  <1>2. ASSUME NEW m \in net, OnClosed(m) PROVE FALSE
    <2>1. completing' = [completing EXCEPT ![round[m.corr].owner] = None]
      BY <1>2 DEF OnClosed
    <2> QED
      BY <2>1 DEF Types, LoserType
  <1>3. WinnerMoves => completing' = completing
    BY WinnerAlone DEF lVars
  <1>4. ASSUME NEW k \in Loser, Candidate(k) \/ Renew(k) \/ ForwardAbort(k) \/ GateTimeout(k) PROVE completing' = completing
    BY <1>4 DEF Candidate, Renew, ForwardAbort, GateTimeout, lVars
  <1>5. ASSUME NEW k \in Loser, NEW w \in Write, Admit(k, w) PROVE completing' = completing
    BY <1>5 DEF Admit
  <1>6. ASSUME NEW k \in Loser, NEW i \in ingest[k], Commit(k, i) PROVE completing' = completing
    BY <1>6 DEF Commit
  <1>7. ASSUME NEW c \in Corr, OfferTimeout(c) PROVE completing' = completing
    BY <1>7 DEF OfferTimeout
  <1>8. Tick => completing' = completing
    BY DEF Tick
  <1>9. ASSUME NEW k \in Loser, NEW x \in Msg, ExpireAtLoser(k, x) PROVE completing' = completing
    BY <1>9 DEF ExpireAtLoser
  <1>10. UNCHANGED vars => completing' = completing
    BY DEF vars, lVars
  <1> QED
    BY <1>1, <1>2, <1>3, <1>4, <1>5, <1>6, <1>7, <1>8, <1>9, <1>10 DEF Next, Receive, Sweep, WinnerMoves

\* Bodies leave a loser's cache by a kill that commits or by expiry.
LEMMA CacheShrinks ==
  ASSUME [Next]_vars
  PROVE  \/ lCache' = lCache
         \/ \E l \in Loser : \E i \in ingest[l] : Commit(l, i)
         \/ \E l \in Loser, x \in Msg : ExpireAtLoser(l, x)
  <1>1. ASSUME NEW m \in net,
          BindRound(m) \/ ExportBound(m) \/ ServeFrame(m) \/ OnRefusal(m) \/ OnBadAck(m) \/ Step5(m) \/ OnClosed(m)
        PROVE lCache' = lCache
    BY <1>1 DEF BindRound, ExportBound, ServeFrame, OnRefusal, OnBadAck, Step5, OnClosed
  <1>2. WinnerMoves => lCache' = lCache
    BY WinnerAlone DEF lVars
  <1>3. ASSUME NEW k \in Loser, Candidate(k) \/ Renew(k) \/ ForwardAbort(k) \/ GateTimeout(k) PROVE lCache' = lCache
    BY <1>3 DEF Candidate, Renew, ForwardAbort, GateTimeout, lVars
  <1>4. ASSUME NEW k \in Loser, NEW w \in Write, Admit(k, w) PROVE lCache' = lCache
    BY <1>4 DEF Admit
  <1>5. ASSUME NEW c \in Corr, OfferTimeout(c) PROVE lCache' = lCache
    BY <1>5 DEF OfferTimeout
  <1>6. Tick => lCache' = lCache
    BY DEF Tick
  <1>7. UNCHANGED vars => lCache' = lCache
    BY DEF vars, lVars
  <1> QED
    BY <1>1, <1>2, <1>3, <1>4, <1>5, <1>6, <1>7 DEF Next, Receive, Sweep, WinnerMoves

LEMMA CutStep ==
  ASSUME MergeInv, [Next]_vars, NEW l \in Loser, lRoot[l], completing'[l] # None
  PROVE  /\ lCache[l] \subseteq Bodies(round[completing'[l]].items)
         /\ lTomb[l] \subseteq Dels(round[completing'[l]].items)
  <1>0. Types
    BY DEF MergeInv
  <1>1. LoserInv(l) /\ completing[l] = None
    BY DEF MergeInv, LoserInv, Completes
  <1>2. PICK m \in net : Step5(m)
    BY <1>0, <1>1, CompletingSet
  <1>3. m \in Frame /\ m.type = "ack" /\ SixFields(m)
    BY <1>0, <1>2 DEF Types, NetType, Step5
  <1>4. PICK c \in Corr, k \in Loser : c = m.corr /\ k = round[c].owner
    BY <1>0, <1>3, BoundOwner
  <1>5. completing' = [completing EXCEPT ![k] = c]
    BY <1>2, <1>4 DEF Step5
  <1>6. k = l /\ completing'[l] = c
    BY <1>0, <1>1, <1>5 DEF Types, LoserType
  <1>7. gate[l] = c /\ c # None
    BY <1>3, <1>4, <1>6, MergeAssumption DEF SixFields, MergeInv, BoundGated
  <1> QED
    BY <1>1, <1>6, <1>7 DEF LoserInv, Gated

LEMMA KeepStep ==
  ASSUME MergeInv, [Next]_vars, NEW l \in Loser, completing[l] # None
  PROVE  lCache[l] \cap Bodies(round[completing[l]].items) \subseteq lCache'[l]
  <1>1. /\ Bodies(round[completing[l]].items) \subseteq lPins[l] /\ gate[l] = None
        /\ \A i \in ingest[l] : i.gen < lGen[l] /\ i.gen \in Nat
        /\ LoserType /\ lGen[l] \in Nat
    BY DEF MergeInv, LoserInv, Completes, Generations, Types, LoserType
  <1>2. CASE lCache' = lCache
    BY <1>2
  <1>3. ASSUME NEW k \in Loser, NEW i \in ingest[k], Commit(k, i) PROVE lCache[l] \subseteq lCache'[l]
    <2>1. CASE k = l
      <3>1. ~CutHolds(l, i.gen)
        BY <1>1, <2>1 DEF CutHolds
      <3> QED
        BY <1>3, <2>1, <3>1 DEF Commit
    <2>2. CASE k # l
      BY <1>1, <1>3, <2>2 DEF Commit, LoserType
    <2> QED
      BY <2>1, <2>2
  <1>4. ASSUME NEW k \in Loser, NEW x \in Msg, ExpireAtLoser(k, x)
        PROVE  lCache[l] \cap Bodies(round[completing[l]].items) \subseteq lCache'[l]
    <2>1. lCache' = [lCache EXCEPT ![k] = @ \ {x}] /\ x \notin lPins[k]
      BY <1>4 DEF ExpireAtLoser
    <2> QED
      BY <1>1, <2>1 DEF LoserType
  <1> QED
    BY <1>2, <1>3, <1>4, CacheShrinks

\* What a loser exports is all it holds, and it keeps it until the round is
\* closed, for any number of rounds and losers, and writes and kills that race
\* the cut (_mergeAnswerPull, _cutCapture, _mergeStep5, _onMergeClosed).
THEOREM ExportKeptAlways == Spec => ExportKept
  <1>1. MergeInv /\ [Next]_vars =>
          \A l \in Loser : lRoot[l] /\ completing'[l] # None =>
             /\ lCache[l] \subseteq Bodies(round[completing'[l]].items)
             /\ lTomb[l] \subseteq Dels(round[completing'[l]].items)
    BY CutStep
  <1>2. MergeInv /\ [Next]_vars =>
          \A l \in Loser : completing[l] # None /\ completing'[l] = completing[l] =>
             lCache[l] \cap Bodies(round[completing[l]].items) \subseteq lCache'[l]
    BY KeepStep
  <1>3. Spec => CutComplete
    BY <1>1, MergeInvariant, PTL DEF CutComplete, Spec
  <1>4. Spec => CompletingKeepsExport
    BY <1>2, MergeInvariant, PTL DEF CompletingKeepsExport, Spec
  <1> QED
    BY <1>3, <1>4 DEF ExportKept

-----------------------------------------------------------------------------
(***************************************************************************)
(* No kill is undone.                                                      *)
(***************************************************************************)
\* A fully acked export's deletions are tombstones of the winner.
DeadInv ==
    /\ wCache \cap wTomb = {}
    /\ \A l \in Loser : lCache[l] \cap lTomb[l] = {}
    /\ \A c \in Corr : pull[c].st = "acked" /\ pull[c].full => Dels(pull[c].man) \subseteq wTomb

LEMMA DeadInit == Init => DeadInv
  BY DEF Init, DeadInv, NoPull

\* The winner's tombstones only grow, and no pull becomes acked.
LEMMA DeadWinner ==
  ASSUME DeadInv, UNCHANGED <<lCache, lTomb>>, wTomb \subseteq wTomb', wCache' \cap wTomb' = {},
         \A c \in Corr : pull'[c].st = "acked" /\ pull'[c].full =>
            pull[c].st = "acked" /\ pull[c].full /\ pull'[c].man = pull[c].man
  PROVE  DeadInv'
  BY DEF DeadInv

LEMMA DeadFrameEnd ==
  ASSUME Types, DeadInv, NEW b \in busy, FrameEnd(b)
  PROVE  DeadInv'
  <1>1. NetType /\ PullsType /\ WinnerType
    BY DEF Types
  <1>2. PICK m \in ItemsFrame : m = b.frame
    BY <1>1 DEF NetType
  <1>4. PICK c \in Corr : c = m.corr
    BY DEF ItemsFrame
  <1>5. PICK p \in PullType : p = pull[c]
    BY <1>1 DEF PullsType
  <1> DEFINE tomb == wTomb \cup Dels(m.items)
             cache == (wCache \cup Bodies(m.items)) \ tomb
             full == Retains(p.man, cache, tomb) /\ p.man = m.man
             next == [pull EXCEPT ![c].st = IF @ = "pulling" THEN "acked" ELSE @,
                                  ![c].age = 0, ![c].full = full, ![c].cursor = m.to]
  <1>6. /\ wTomb' = tomb /\ wCache' = cache
        /\ m.more => pull' = [pull EXCEPT ![c].cursor = m.to]
        /\ ~m.more => pull' = next
        /\ UNCHANGED <<lVars, wRoot, wEpoch, wPins, issued>>
    BY <1>2, <1>4, <1>5 DEF FrameEnd
  <1>7. m.more \in BOOLEAN
    BY DEF ItemsFrame
  <1>8. full => Dels(p.man) \subseteq tomb
    BY DEF Retains
  <1>9. wTomb \subseteq tomb /\ cache \cap tomb = {}
    OBVIOUS
  <1>10. full \in BOOLEAN
    BY DEF Retains
  <1> HIDE DEF tomb, cache, full
  <1>11. UNCHANGED <<lCache, lTomb>>
    BY <1>6 DEF lVars
  <1>12. CASE m.more
    <2>0. pull' = [pull EXCEPT ![c].cursor = m.to]
      BY <1>6, <1>12
    <2>1. \A d \in Corr : pull'[d].st = pull[d].st /\ pull'[d].full = pull[d].full /\ pull'[d].man = pull[d].man
      <3> SUFFICES ASSUME NEW d \in Corr
                   PROVE  pull'[d].st = pull[d].st /\ pull'[d].full = pull[d].full /\ pull'[d].man = pull[d].man
        OBVIOUS
      <3>1. pull[d] \in PullType /\ pull'[d] = IF d = c THEN [pull[d] EXCEPT !.cursor = m.to] ELSE pull[d]
        BY <1>1, <2>0 DEF PullsType
      <3> QED
        BY <3>1 DEF PullType
    <2> QED
      BY <1>6, <1>9, <1>11, <2>1, DeadWinner
  <1>13. CASE ~m.more
    <2>1. \A d \in Corr \ {c} : pull'[d] = pull[d]
      BY <1>1, <1>6, <1>13 DEF PullsType
    <2>2. pull'[c].full = full /\ pull'[c].man = p.man
      BY <1>1, <1>5, <1>6, <1>13 DEF PullsType, PullType
    <2>3. \A d \in Corr : pull'[d].st = "acked" /\ pull'[d].full => Dels(pull'[d].man) \subseteq tomb
      <3> SUFFICES ASSUME NEW d \in Corr, pull'[d].st = "acked", pull'[d].full
                   PROVE  Dels(pull'[d].man) \subseteq tomb
        OBVIOUS
      <3>1. CASE d = c
        BY <1>8, <2>2, <3>1
      <3>2. CASE d # c
        BY <1>9, <2>1, <3>2 DEF DeadInv
      <3> QED
        BY <3>1, <3>2
    <2> QED
      BY <1>6, <1>9, <1>11, <2>3 DEF DeadInv
  <1> QED
    BY <1>7, <1>12, <1>13

LEMMA DeadStep == Types /\ DeadInv /\ [Next]_vars => DeadInv'
  <1> SUFFICES ASSUME Types, DeadInv, [Next]_vars PROVE DeadInv'
    OBVIOUS
  <1>0. PullsType /\ LoserType /\ NetType
    BY DEF Types
  <1> DEFINE Dull == UNCHANGED <<lCache, lTomb, wVars>>
  <1>d. Dull => DeadInv'
    BY DEF DeadInv, wVars
  <1>1. ASSUME NEW m \in net,
          BindRound(m) \/ ExportBound(m) \/ ServeFrame(m) \/ OnRefusal(m) \/ OnBadAck(m) \/ Step5(m) \/ OnClosed(m)
        PROVE DeadInv'
    BY <1>d, <1>1 DEF BindRound, ExportBound, ServeFrame, OnRefusal, OnBadAck, Step5, OnClosed
  <1>2. ASSUME NEW l \in Loser, Candidate(l) \/ Renew(l) \/ ForwardAbort(l) \/ GateTimeout(l) PROVE DeadInv'
    BY <1>d, <1>2 DEF Candidate, Renew, ForwardAbort, GateTimeout, lVars
  <1>3. ASSUME NEW l \in Loser, NEW w \in Write, Admit(l, w) PROVE DeadInv'
    BY <1>d, <1>3 DEF Admit
  <1>4. ASSUME NEW c \in Corr, OfferTimeout(c) PROVE DeadInv'
    BY <1>d, <1>4 DEF OfferTimeout
  <1>5. CASE UNCHANGED vars
    BY <1>d, <1>5 DEF vars, lVars
  <1>6. ASSUME NEW l \in Loser, NEW i \in ingest[l], Commit(l, i) PROVE DeadInv'
    <2>1. UNCHANGED wVars
      BY <1>6 DEF Commit
    <2>2. \A k \in Loser : lCache'[k] \cap lTomb'[k] = {}
      BY <1>0, <1>6 DEF Commit, DeadInv, LoserType
    <2> QED
      BY <2>1, <2>2 DEF DeadInv, wVars
  <1>7. ASSUME NEW l \in Loser, NEW x \in Msg, ExpireAtLoser(l, x) PROVE DeadInv'
    <2>1. UNCHANGED <<wVars, lTomb>> /\ lCache' = [lCache EXCEPT ![l] = @ \ {x}]
      BY <1>7 DEF ExpireAtLoser
    <2>2. \A k \in Loser : lCache'[k] \subseteq lCache[k]
      BY <1>0, <2>1 DEF LoserType
    <2> QED
      BY <2>1, <2>2 DEF DeadInv, wVars
  <1>8. ASSUME NEW m \in net, OnOffer(m) PROVE DeadInv'
    <2>1. m \in Frame /\ m.type = "offer"
      BY <1>0, <1>8 DEF NetType, OnOffer
    <2>2. m.corr \in Corr
      BY <2>1, Corrs
    <2>3. UNCHANGED <<lVars, wCache, wTomb>>
      BY <1>8 DEF OnOffer
    <2>4. pull' = pull \/ pull' = [pull EXCEPT ![m.corr] = [NoPull EXCEPT !.st = "pulling", !.loser = m.from]]
      BY <1>8 DEF OnOffer
    <2>5. \A c \in Corr : pull'[c].st = "acked" => pull'[c] = pull[c]
      BY <1>0, <2>2, <2>4 DEF PullsType, NoPull
    <2> QED
      BY <2>3, <2>5, DeadWinner DEF lVars, DeadInv
  <1>9. ASSUME NEW c \in Corr, pull' = Dropped(c), UNCHANGED <<lVars, wCache, wTomb>> PROVE DeadInv'
    <2>1. \A d \in Corr : pull'[d].st = "acked" => pull'[d] = pull[d]
      BY <1>0, <1>9 DEF PullsType, PullType, Dropped
    <2> QED
      BY <1>9, <2>1, DeadWinner DEF lVars, DeadInv
  <1>10. ASSUME NEW m \in net, OnHeader(m) PROVE DeadInv'
    <2>1. m \in Frame /\ m.type = "header"
      BY <1>0, <1>10 DEF NetType, OnHeader
    <2>2. PICK c \in Corr : c = m.corr
      BY <2>1, Corrs
    <2>3. UNCHANGED <<lVars, wCache, wTomb>> /\ (pull' = [pull EXCEPT ![c].cursor = 0] \/ pull' = Dropped(c))
      BY <1>10, <2>2 DEF OnHeader
    <2>4. CASE pull' = [pull EXCEPT ![c].cursor = 0]
      <3>1. \A d \in Corr : pull'[d].st = pull[d].st /\ pull'[d].full = pull[d].full /\ pull'[d].man = pull[d].man
        BY <1>0, <2>4 DEF PullsType, PullType
      <3> QED
        BY <2>3, <3>1, DeadWinner DEF lVars, DeadInv
    <2> QED
      BY <1>9, <2>3, <2>4
  <1>11. ASSUME NEW m \in net, OnRefused(m) PROVE DeadInv'
    <2>1. m.corr \in Corr
      BY <1>0, <1>11, Corrs DEF NetType, OnRefused
    <2> QED
      BY <1>9, <1>11, <2>1 DEF OnRefused
  <1>12. ASSUME NEW m \in net, OnSub(m) PROVE DeadInv'
    <2>1. m.corr \in Corr
      BY <1>0, <1>12, Corrs DEF NetType, OnSub
    <2> QED
      BY <1>9, <1>12, <2>1 DEF OnSub
  <1>13. ASSUME NEW c \in Corr, PullTimeout(c) PROVE DeadInv'
    BY <1>9, <1>13 DEF PullTimeout
  <1>14. ASSUME NEW m \in net, FrameBegin(m) PROVE DeadInv'
    <2>1. m \in Frame /\ m.type = "frame"
      BY <1>0, <1>14 DEF NetType, FrameBegin
    <2>2. PICK c \in Corr : c = m.corr
      BY <2>1, Corrs
    <2>3. /\ UNCHANGED <<lVars, wCache, wTomb>> /\ pull[c].st = "pulling"
          /\ pull' = [pull EXCEPT ![c].man = @ \o m.items]
      BY <1>14, <2>2 DEF FrameBegin
    <2>4. pull'[c].st = "pulling" /\ \A d \in Corr \ {c} : pull'[d] = pull[d]
      BY <1>0, <2>3 DEF PullsType, PullType
    <2>5. \A d \in Corr : pull'[d].st = "acked" => pull'[d] = pull[d]
      BY <2>4
    <2> QED
      BY <2>3, <2>5, DeadWinner DEF lVars, DeadInv
  <1>15. ASSUME NEW b \in busy, FrameEnd(b) PROVE DeadInv'
    BY <1>15, DeadFrameEnd
  <1>16. ASSUME NEW m \in net, OnWrite(m) PROVE DeadInv'
    <2>1. UNCHANGED <<lVars, pull>> /\ wTomb \subseteq wTomb' /\ wCache' \cap wTomb' = {}
      BY <1>16 DEF OnWrite, DeadInv
    <2> QED
      BY <2>1, DeadWinner DEF lVars
  <1>17. ASSUME Tick \/ Jump PROVE DeadInv'
    <2>1. /\ pull' = [c \in Corr |-> [pull[c] EXCEPT !.age = IF pull[c].st \in {"pulling", "acked"} THEN Older(@) ELSE @]]
          /\ UNCHANGED <<lCache, lTomb, wCache, wTomb>>
      BY <1>17 DEF Tick, Jump, lVars
    <2>2. \A d \in Corr : pull'[d].st = pull[d].st /\ pull'[d].full = pull[d].full /\ pull'[d].man = pull[d].man
      <3> SUFFICES ASSUME NEW d \in Corr
                   PROVE  pull'[d].st = pull[d].st /\ pull'[d].full = pull[d].full /\ pull'[d].man = pull[d].man
        OBVIOUS
      <3>1. pull[d] \in PullType
        BY <1>0 DEF PullsType
      <3> QED
        BY <2>1, <3>1 DEF PullType
    <2> QED
      BY <2>1, <2>2, DeadWinner DEF DeadInv
  <1>18. ASSUME Crash PROVE DeadInv'
    <2>1. wCache' = {} /\ pull' = [c \in Corr |-> NoPull] /\ UNCHANGED <<lCache, lTomb>>
      BY <1>18 DEF Crash, lVars
    <2> QED
      BY <2>1 DEF DeadInv, NoPull
  <1>19. ASSUME Reform \/ \E x \in Msg : ExpireAtWinner(x) PROVE DeadInv'
    <2>1. UNCHANGED <<lCache, lTomb, wTomb, pull>> /\ wCache' \subseteq wCache
      BY <1>19 DEF Reform, ExpireAtWinner, lVars
    <2> QED
      BY <2>1 DEF DeadInv
  <1> HIDE DEF Dull
  <1> QED
    BY <1>1, <1>2, <1>3, <1>4, <1>5, <1>6, <1>7, <1>8, <1>10, <1>11, <1>12, <1>13, <1>14, <1>15, <1>16, <1>17,
       <1>18, <1>19 DEF Next, Receive, Sweep

\* A kill is never undone by a merge, whatever frames are lost, repeated or out
\* of order and however often the winner crashes (_mergeIngestFrame, _applyKill).
THEOREM NoResurrectionAlways == Spec => []NoResurrection
  <1>1. DeadInv => NoResurrection
    BY DEF DeadInv, NoResurrection
  <1> QED
    BY <1>1, TypesInit, TypesStep, DeadInit, DeadStep, PTL DEF Spec

-----------------------------------------------------------------------------
(***************************************************************************)
(* What a full ack says is kept.                                           *)
(***************************************************************************)
PullOpen(p) == p.st \in {"pulling", "acked"}
Named(items) == {it.id : it \in Range(items)}

\* The releases clear the role's whole pin set (_mergeReleasePins): what is said
\* of one pull is said of a winner with no other open.
OnePull == \A c, d \in Corr : PullOpen(pull[c]) /\ PullOpen(pull[d]) => c = d

\* What an open pull has taken in is pinned, and what it acked in full is held.
Retained(p) == p.st = "acked" /\ p.full => Retains(p.man, wCache, wTomb)
PinsHold == \A c \in Corr : PullOpen(pull[c]) => Named(pull[c].man) \subseteq wPins
RetainInv == PinsHold /\ AckedRetained

LEMMA RetainInit == Init => RetainInv
  BY DEF Init, RetainInv, PinsHold, AckedRetained, NoPull, PullOpen

LEMMA NamedBodies ==
  ASSUME NEW s \in Seq(Item)
  PROVE  Bodies(s) \subseteq Named(s)
  BY DEF Bodies, Ids, Named

LEMMA NamedConcat ==
  ASSUME NEW s \in Seq(Item), NEW t \in Seq(Item), NEW P, Named(s) \subseteq P, Named(t) \subseteq P
  PROVE  s \o t \in Seq(Item) /\ Named(s \o t) \subseteq P
  <1>1. s \o t \in Seq(Item) /\ DOMAIN (s \o t) = 1..(Len(s) + Len(t))
    BY ConcatProperties
  <1>2. ASSUME NEW i \in 1..(Len(s) + Len(t)) PROVE (s \o t)[i] \in Range(s) \cup Range(t)
    <2>1. (s \o t)[i] = IF i <= Len(s) THEN s[i] ELSE t[i - Len(s)]
      BY ConcatProperties
    <2>2. Len(s) \in Nat /\ Len(t) \in Nat /\ DOMAIN s = 1..Len(s) /\ DOMAIN t = 1..Len(t)
      OBVIOUS
    <2>3. CASE i <= Len(s)
      BY <2>1, <2>2, <2>3 DEF Range
    <2>4. CASE ~(i <= Len(s))
      <3>1. i - Len(s) \in 1..Len(t)
        BY <2>2, <2>4
      <3> QED
        BY <2>1, <2>2, <2>4, <3>1 DEF Range
    <2> QED
      BY <2>3, <2>4
  <1>3. Range(s \o t) \subseteq Range(s) \cup Range(t)
    BY <1>1, <1>2 DEF Range
  <1> QED
    BY <1>1, <1>3 DEF Named

\* The winner lets nothing go and opens no pull, or one that has nothing yet.
LEMMA RetainKept ==
  ASSUME RetainInv, wPins \subseteq wPins', wTomb \subseteq wTomb', wCache \cup wTomb \subseteq wCache' \cup wTomb',
         \A c \in Corr : PullOpen(pull'[c]) =>
            \/ pull'[c].st = "pulling" /\ pull'[c].man = <<>>
            \/ PullOpen(pull[c]) /\ pull'[c].man = pull[c].man /\ pull'[c].st = pull[c].st /\ pull'[c].full = pull[c].full
  PROVE  RetainInv'
  <1>1. Named(<<>>) = {}
    BY DEF Named, Range
  <1>2. PinsHold'
    BY <1>1 DEF RetainInv, PinsHold
  <1>3. AckedRetained'
    BY DEF RetainInv, AckedRetained, Retains, PullOpen
  <1> QED
    BY <1>2, <1>3 DEF RetainInv

\* The one open pull ends, and the pins with it.
LEMMA RetainDropped ==
  ASSUME PullsType, NEW c \in Corr, RetainInv, OnePull, PullOpen(pull[c]), pull' = Dropped(c), UNCHANGED <<wCache, wTomb>>
  PROVE  RetainInv'
  <1>1. \A d \in Corr : ~PullOpen(pull'[d])
    BY DEF PullsType, PullType, Dropped, PullOpen, OnePull
  <1> QED
    BY <1>1 DEF RetainInv, PinsHold, AckedRetained, PullOpen

LEMMA RetainFrameEnd ==
  ASSUME Types, RetainInv, NEW b \in busy, FrameEnd(b)
  PROVE  RetainInv'
  <1>1. NetType /\ PullsType /\ WinnerType
    BY DEF Types
  <1>2. PICK m \in ItemsFrame : m = b.frame
    BY <1>1 DEF NetType
  <1>4. PICK c \in Corr : c = m.corr
    BY DEF ItemsFrame
  <1>5. PICK p \in PullType : p = pull[c]
    BY <1>1 DEF PullsType
  <1> DEFINE tomb == wTomb \cup Dels(m.items)
             cache == (wCache \cup Bodies(m.items)) \ tomb
             full == Retains(p.man, cache, tomb) /\ p.man = m.man
             next == [pull EXCEPT ![c].st = IF @ = "pulling" THEN "acked" ELSE @,
                                  ![c].age = 0, ![c].full = full, ![c].cursor = m.to]
  <1>6. /\ wTomb' = tomb /\ wCache' = cache
        /\ m.more => pull' = [pull EXCEPT ![c].cursor = m.to]
        /\ ~m.more => pull' = next
        /\ wPins' = wPins
    BY <1>2, <1>4, <1>5 DEF FrameEnd
  <1>7. m.more \in BOOLEAN
    BY DEF ItemsFrame
  <1>8. full => Retains(p.man, cache, tomb)
    OBVIOUS
  <1>9. wTomb \subseteq tomb /\ wCache \cup wTomb \subseteq cache \cup tomb
    OBVIOUS
  <1>10. full \in BOOLEAN
    BY DEF Retains
  <1> HIDE DEF tomb, cache, full
  <1>12. CASE m.more
    <2>0. pull' = [pull EXCEPT ![c].cursor = m.to]
      BY <1>6, <1>12
    <2>1. \A d \in Corr : pull'[d].st = pull[d].st /\ pull'[d].full = pull[d].full /\ pull'[d].man = pull[d].man
      <3> SUFFICES ASSUME NEW d \in Corr
                   PROVE  pull'[d].st = pull[d].st /\ pull'[d].full = pull[d].full /\ pull'[d].man = pull[d].man
        OBVIOUS
      <3>1. pull[d] \in PullType /\ pull'[d] = IF d = c THEN [pull[d] EXCEPT !.cursor = m.to] ELSE pull[d]
        BY <1>1, <2>0 DEF PullsType
      <3> QED
        BY <3>1 DEF PullType
    <2> QED
      BY <1>6, <1>9, <2>1, RetainKept DEF PullOpen
  <1>13. CASE ~m.more
    <2>1. \A d \in Corr \ {c} : pull'[d] = pull[d]
      BY <1>1, <1>6, <1>13 DEF PullsType
    <2>2. /\ pull'[c].full = full /\ pull'[c].man = p.man
          /\ PullOpen(pull'[c]) => PullOpen(p)
      BY <1>1, <1>5, <1>6, <1>13 DEF PullsType, PullType, PullOpen
    <2>3. \A d \in Corr : pull'[d].st = "acked" /\ pull'[d].full => Retains(pull'[d].man, cache, tomb)
      <3> SUFFICES ASSUME NEW d \in Corr, pull'[d].st = "acked", pull'[d].full
                   PROVE  Retains(pull'[d].man, cache, tomb)
        OBVIOUS
      <3>1. CASE d = c
        BY <1>8, <2>2, <3>1
      <3>2. CASE d # c
        BY <1>9, <2>1, <3>2 DEF RetainInv, AckedRetained, Retains
      <3> QED
        BY <3>1, <3>2
    <2>4. PinsHold'
      <3> SUFFICES ASSUME NEW d \in Corr, PullOpen(pull'[d])
                   PROVE  Named(pull'[d].man) \subseteq wPins
        BY <1>6 DEF PinsHold
      <3>1. pull'[d].man = pull[d].man /\ PullOpen(pull[d])
        BY <1>5, <2>1, <2>2
      <3> QED
        BY <3>1 DEF RetainInv, PinsHold
    <2> QED
      BY <1>6, <2>3, <2>4 DEF RetainInv, AckedRetained
  <1> QED
    BY <1>7, <1>12, <1>13

LEMMA RetainStep == Types /\ RetainInv /\ OnePull /\ [Next]_vars => RetainInv'
  <1> SUFFICES ASSUME Types, RetainInv, OnePull, [Next]_vars PROVE RetainInv'
    OBVIOUS
  <1>0. PullsType /\ NetType /\ WinnerType
    BY DEF Types
  <1>u. ASSUME UNCHANGED wVars PROVE RetainInv'
    BY <1>u DEF RetainInv, PinsHold, AckedRetained, wVars
  <1>1. ASSUME NEW m \in net,
          BindRound(m) \/ ExportBound(m) \/ ServeFrame(m) \/ OnRefusal(m) \/ OnBadAck(m) \/ Step5(m) \/ OnClosed(m)
        PROVE RetainInv'
    BY <1>u, <1>1 DEF BindRound, ExportBound, ServeFrame, OnRefusal, OnBadAck, Step5, OnClosed
  <1>2. ASSUME NEW l \in Loser, Candidate(l) \/ Renew(l) \/ ForwardAbort(l) \/ GateTimeout(l) PROVE RetainInv'
    BY <1>u, <1>2 DEF Candidate, Renew, ForwardAbort, GateTimeout
  <1>3. ASSUME NEW l \in Loser, NEW w \in Write, Admit(l, w) PROVE RetainInv'
    BY <1>u, <1>3 DEF Admit
  <1>4. ASSUME NEW c \in Corr, OfferTimeout(c) PROVE RetainInv'
    BY <1>u, <1>4 DEF OfferTimeout
  <1>5. CASE UNCHANGED vars
    BY <1>u, <1>5 DEF vars
  <1>6. ASSUME NEW l \in Loser, NEW i \in ingest[l], Commit(l, i) PROVE RetainInv'
    BY <1>u, <1>6 DEF Commit
  <1>7. ASSUME NEW l \in Loser, NEW x \in Msg, ExpireAtLoser(l, x) PROVE RetainInv'
    BY <1>u, <1>7 DEF ExpireAtLoser
  <1>8. ASSUME NEW m \in net, OnOffer(m) PROVE RetainInv'
    <2>1. m \in Frame /\ m.type = "offer"
      BY <1>0, <1>8 DEF NetType, OnOffer
    <2>2. m.corr \in Corr
      BY <2>1, Corrs
    <2>3. UNCHANGED <<wCache, wTomb, wPins>>
      BY <1>8 DEF OnOffer
    <2>4. pull' = pull \/ pull' = [pull EXCEPT ![m.corr] = [NoPull EXCEPT !.st = "pulling", !.loser = m.from]]
      BY <1>8 DEF OnOffer
    <2>5. \A c \in Corr : pull'[c] = pull[c] \/ (pull'[c].st = "pulling" /\ pull'[c].man = <<>>)
      BY <1>0, <2>2, <2>4 DEF PullsType, NoPull
    <2> QED
      BY <2>3, <2>5, RetainKept
  <1>9. ASSUME NEW c \in Corr, pull' = Dropped(c), UNCHANGED <<wCache, wTomb, wPins>> PROVE RetainInv'
    <2>1. \A d \in Corr : PullOpen(pull'[d]) => pull'[d] = pull[d]
      BY <1>0, <1>9 DEF PullsType, PullType, Dropped, PullOpen
    <2> QED
      BY <1>9, <2>1, RetainKept
  <1>10. ASSUME NEW m \in net, OnHeader(m) PROVE RetainInv'
    <2>1. m \in Frame /\ m.type = "header"
      BY <1>0, <1>10 DEF NetType, OnHeader
    <2>2. PICK c \in Corr : c = m.corr
      BY <2>1, Corrs
    <2>3. /\ UNCHANGED <<wCache, wTomb>>
          /\ \/ pull' = [pull EXCEPT ![c].cursor = 0] /\ wPins \subseteq wPins'
             \/ pull' = Dropped(c) /\ wPins' = wPins
      BY <1>10, <2>2 DEF OnHeader
    <2>4. CASE pull' = [pull EXCEPT ![c].cursor = 0] /\ wPins \subseteq wPins'
      <3>1. \A d \in Corr : pull'[d].st = pull[d].st /\ pull'[d].full = pull[d].full /\ pull'[d].man = pull[d].man
        BY <1>0, <2>4 DEF PullsType, PullType
      <3> QED
        BY <2>3, <2>4, <3>1, RetainKept DEF PullOpen
    <2> QED
      BY <1>9, <2>3, <2>4
  <1>11. ASSUME NEW m \in net, OnRefused(m) PROVE RetainInv'
    <2>1. m.corr \in Corr
      BY <1>0, <1>11, Corrs DEF NetType, OnRefused
    <2> QED
      BY <1>9, <1>11, <2>1 DEF OnRefused
  <1>12. ASSUME NEW m \in net, OnSub(m) PROVE RetainInv'
    <2>1. PICK c \in Corr : c = m.corr
      BY <1>0, <1>12, Corrs DEF NetType, OnSub
    <2>2. PullOpen(pull[c]) /\ pull' = Dropped(c) /\ UNCHANGED <<wCache, wTomb>>
      BY <1>12, <2>1 DEF OnSub, PullOpen
    <2> QED
      BY <1>0, <2>2, RetainDropped
  <1>13. ASSUME NEW c \in Corr, PullTimeout(c) PROVE RetainInv'
    <2>1. PullOpen(pull[c]) /\ pull' = Dropped(c) /\ UNCHANGED <<wCache, wTomb>>
      BY <1>13 DEF PullTimeout, PullOpen
    <2> QED
      BY <1>0, <2>1, RetainDropped
  <1>14. ASSUME NEW m \in net, FrameBegin(m) PROVE RetainInv'
    <2>1. m \in Frame /\ m.type = "frame"
      BY <1>0, <1>14 DEF NetType, FrameBegin
    <2>2. PICK c \in Corr : c = m.corr
      BY <2>1, Corrs
    <2>3. m \in ItemsFrame
      BY <2>1, Kinds
    <2>4. PICK s \in Seq(Item) : s = m.items
      BY <2>3 DEF ItemsFrame
    <2>5. PICK p \in PullType : p = pull[c]
      BY <1>0 DEF PullsType
    <2>6. p.man \in Seq(Item)
      BY DEF PullType
    <2>7. /\ UNCHANGED <<wCache, wTomb>> /\ p.st = "pulling"
          /\ pull' = [pull EXCEPT ![c].man = @ \o s] /\ wPins' = wPins \cup Named(s)
      BY <1>14, <2>2, <2>4, <2>5 DEF FrameBegin, Named
    <2>8. pull'[c].st = "pulling" /\ pull'[c].man = p.man \o s /\ \A d \in Corr \ {c} : pull'[d] = pull[d]
      BY <1>0, <2>5, <2>7 DEF PullsType, PullType
    <2>9. Named(p.man \o s) \subseteq wPins'
      <3>1. Named(p.man) \subseteq wPins' /\ Named(s) \subseteq wPins'
        BY <2>5, <2>7 DEF RetainInv, PinsHold, PullOpen
      <3> QED
        BY <2>6, <3>1, NamedConcat
    <2>10. PinsHold'
      <3> SUFFICES ASSUME NEW d \in Corr, PullOpen(pull'[d])
                   PROVE  Named(pull'[d].man) \subseteq wPins'
        BY DEF PinsHold
      <3>1. CASE d = c
        BY <2>8, <2>9, <3>1
      <3>2. CASE d # c
        BY <2>7, <2>8, <3>2 DEF RetainInv, PinsHold
      <3> QED
        BY <3>1, <3>2
    <2>11. AckedRetained'
      BY <2>7, <2>8 DEF RetainInv, AckedRetained
    <2> QED
      BY <2>10, <2>11 DEF RetainInv
  <1>15. ASSUME NEW b \in busy, FrameEnd(b) PROVE RetainInv'
    BY <1>15, RetainFrameEnd
  <1>16. ASSUME NEW m \in net, OnWrite(m) PROVE RetainInv'
    <2>1. UNCHANGED <<wPins, pull>> /\ wTomb \subseteq wTomb' /\ wCache \cup wTomb \subseteq wCache' \cup wTomb'
      BY <1>16 DEF OnWrite
    <2> QED
      BY <2>1, RetainKept
  <1>17. ASSUME Tick \/ Jump PROVE RetainInv'
    <2>1. /\ pull' = [c \in Corr |-> [pull[c] EXCEPT !.age = IF pull[c].st \in {"pulling", "acked"} THEN Older(@) ELSE @]]
          /\ UNCHANGED <<wCache, wTomb, wPins>>
      BY <1>17 DEF Tick, Jump
    <2>2. \A d \in Corr : pull'[d].st = pull[d].st /\ pull'[d].full = pull[d].full /\ pull'[d].man = pull[d].man
      <3> SUFFICES ASSUME NEW d \in Corr
                   PROVE  pull'[d].st = pull[d].st /\ pull'[d].full = pull[d].full /\ pull'[d].man = pull[d].man
        OBVIOUS
      <3>1. pull[d] \in PullType
        BY <1>0 DEF PullsType
      <3> QED
        BY <2>1, <3>1 DEF PullType
    <2> QED
      BY <2>1, <2>2, RetainKept DEF PullOpen
  <1>18. ASSUME Crash PROVE RetainInv'
    <2>1. pull' = [c \in Corr |-> NoPull]
      BY <1>18 DEF Crash
    <2> QED
      BY <2>1 DEF RetainInv, PinsHold, AckedRetained, NoPull, PullOpen
  <1>19. ASSUME Reform PROVE RetainInv'
    BY <1>19 DEF Reform, RetainInv, PinsHold, AckedRetained
  <1>20. ASSUME NEW x \in Msg, ExpireAtWinner(x) PROVE RetainInv'
    <2>1. x \notin wPins /\ wCache' = wCache \ {x} /\ UNCHANGED <<wTomb, wPins, pull>>
      BY <1>20 DEF ExpireAtWinner
    <2>2. ASSUME NEW c \in Corr, pull[c].st = "acked", pull[c].full
          PROVE  Retains(pull[c].man, wCache', wTomb')
      <3>1. pull[c].man \in Seq(Item)
        BY <1>0 DEF PullsType, PullType
      <3>2. Bodies(pull[c].man) \subseteq wPins
        BY <2>2, <3>1, NamedBodies DEF RetainInv, PinsHold, PullOpen
      <3> QED
        BY <2>1, <2>2, <3>2 DEF RetainInv, AckedRetained, Retains
    <2> QED
      BY <2>1, <2>2 DEF RetainInv, PinsHold, AckedRetained
  <1> QED
    BY <1>1, <1>2, <1>3, <1>4, <1>5, <1>6, <1>7, <1>8, <1>10, <1>11, <1>12, <1>13, <1>14, <1>15, <1>16, <1>17,
       <1>18, <1>19, <1>20 DEF Next, Receive, Sweep

\* "Pins held": while the winner has one pull open at a time, it holds all that a
\* full ack says, until the completion, however long the round, in every order of
\* frames, writes, expiries and crashes (_mergeIngestFrame, _mergeCompleteOnSub).
THEOREM AckedRetainedAlways == Spec /\ []OnePull => []AckedRetained
  <1>1. RetainInv => AckedRetained
    BY DEF RetainInv
  <1> QED
    BY <1>1, TypesInit, TypesStep, RetainInit, RetainStep, PTL DEF Spec

-----------------------------------------------------------------------------
(***************************************************************************)
(* The two ends of a channel.                                                *)
(***************************************************************************)
SlotType == [role : {"none", "offerer", "responder"}, k : 0..MaxAttempt, sdp : {"none", "local", "stable"},
             up : BOOLEAN, failed : BOOLEAN, retry : {"no", "armed"}, bindTimer : BOOLEAN, boundAt : BOOLEAN]
SignalType == [to : Side, kind : {"offer", "answer", "reject"}, k : Attempt]

\* A free key has nothing; a negotiation has its deadline; an open channel has that
\* no more, and is bound or has its bind deadline.
Timed(s, armed) ==
    /\ s.role = "none" => s = NoSlot /\ ~armed
    /\ s.role # "none" => (armed <=> ~s.up)
    /\ s.up => s.boundAt \/ s.bindTimer

SlotInv ==
    /\ slot \in [Side -> SlotType] /\ expiry \subseteq Side
    /\ \A e \in Side : Timed(slot[e], e \in expiry)

NetInv ==
    /\ binding \subseteq Side /\ signals \subseteq SignalType /\ native \subseteq [node : Side, k : Attempt]
    /\ minted \in 0..MaxAttempt /\ faults \in 0..MaxFault

AuthType == [my : 0..MaxNonce, peer : Nat, sigSent : BOOLEAN, sig : Seq(Nat), verifying : BOOLEAN, bound : BOOLEAN]
FrameType == [k : 0..MaxAttempt, kind : {"hello"}, v : Nat] \cup [k : 0..MaxAttempt, kind : {"sig"}, v : Seq(Nat)]

AuthInv ==
    /\ auth \in [Side -> AuthType] /\ frames \in [Side -> Seq(FrameType)]
    /\ nonces \in [Side -> Nat] /\ nonces["a"] + nonces["b"] <= MaxNonce
    /\ checks \subseteq [node : Side, my : 1..MaxNonce, ok : BOOLEAN]

PairInv == SlotInv /\ NetInv /\ AuthInv

LEMMA NoneTyped == NoSlot \in SlotType /\ NoSlot.role = "none" /\ ~NoSlot.up /\ NoAuth \in AuthType /\ NoAuth.my = 0
  <1>1. NoSlot \in SlotType /\ NoSlot.role = "none" /\ ~NoSlot.up
    BY PairAssumption DEF NoSlot, SlotType
  <1>2. <<>> \in Seq(Nat)
    OBVIOUS
  <1>3. NoAuth \in AuthType /\ NoAuth.my = 0
    BY <1>2, PairAssumption DEF NoAuth, AuthType
  <1> QED
    BY <1>1, <1>3

LEMMA MpInitHolds == MpInit => PairInv
  <1> SUFFICES ASSUME MpInit PROVE PairInv
    OBVIOUS
  <1>1. SlotInv
    BY NoneTyped DEF MpInit, SlotInv, Timed
  <1>2. NetInv
    BY PairAssumption DEF MpInit, NetInv
  <1>3. AuthInv
    <2>1. <<>> \in Seq(FrameType)
      OBVIOUS
    <2>2. nonces = [e \in Side |-> 0] /\ "a" \in Side /\ "b" \in Side
      BY DEF MpInit, Side
    <2> QED
      BY <2>1, <2>2, NoneTyped, PairAssumption DEF MpInit, AuthInv
  <1> QED
    BY <1>1, <1>2, <1>3 DEF PairInv

\* What a step does to the key of one node.
LEMMA OneSlot ==
  ASSUME SlotInv, NEW e \in Side, NEW s \in SlotType, NEW armed \in BOOLEAN, Timed(s, armed),
         slot' = [slot EXCEPT ![e] = s], expiry' = IF armed THEN expiry \cup {e} ELSE expiry \ {e}
  PROVE  SlotInv'
  <1>1. slot' \in [Side -> SlotType] /\ expiry' \subseteq Side /\ slot'[e] = s /\ (e \in expiry' <=> armed)
    BY DEF SlotInv
  <1>2. \A d \in Side : d # e => slot'[d] = slot[d] /\ (d \in expiry' <=> d \in expiry)
    BY DEF SlotInv
  <1>3. ASSUME NEW d \in Side PROVE Timed(slot'[d], d \in expiry')
    <2>1. CASE d = e
      BY <1>1, <2>1 DEF Timed
    <2>2. CASE d # e
      BY <1>2, <2>2 DEF Timed, SlotInv
    <2> QED
      BY <2>1, <2>2
  <1> QED
    BY <1>1, <1>3 DEF SlotInv

LEMMA SlotStays ==
  ASSUME SlotInv, slot' = slot, expiry' = expiry PROVE SlotInv'
  BY DEF SlotInv, Timed

LEMMA KeyGone ==
  ASSUME SlotInv, NEW e \in Side, slot' = [slot EXCEPT ![e] = NoSlot], expiry' = expiry \ {e} PROVE SlotInv'
  <1>1. Timed(NoSlot, FALSE)
    BY NoneTyped DEF Timed
  <1>2. PICK s \in SlotType, armed \in BOOLEAN : s = NoSlot /\ armed = FALSE
    BY NoneTyped
  <1> QED
    BY <1>1, <1>2, OneSlot

\* A new attempt under a key, with its deadline.
LEMMA NewAttempt ==
  ASSUME SlotInv, NEW e \in Side, NEW s \in SlotType, s.role # "none", ~s.up,
         slot' = [slot EXCEPT ![e] = s], expiry' = Deadline(e)
  PROVE  SlotInv'
  <1>1. PICK armed \in BOOLEAN : armed = TRUE
    OBVIOUS
  <1>2. Timed(s, armed)
    BY <1>1 DEF Timed
  <1> QED
    BY <1>1, <1>2, OneSlot DEF Deadline

\* A key that keeps its deadline, or its channel.
LEMMA SameAttempt ==
  ASSUME SlotInv, NEW e \in Side, NEW s \in SlotType, slot[e].role # "none", s.role = slot[e].role, s.up = slot[e].up,
         (s.boundAt \/ s.bindTimer) \/ (s.boundAt = slot[e].boundAt /\ s.bindTimer = slot[e].bindTimer),
         slot' = [slot EXCEPT ![e] = s], expiry' = expiry
  PROVE  SlotInv'
  <1>1. PICK armed \in BOOLEAN : armed <=> e \in expiry
    <2>1. (e \in expiry) \in BOOLEAN
      OBVIOUS
    <2> QED
      BY <2>1, Zenon
  <1>2. Timed(s, armed)
    BY <1>1 DEF Timed, SlotInv
  <1>3. expiry' = IF armed THEN expiry \cup {e} ELSE expiry \ {e}
    BY <1>1
  <1> QED
    BY <1>2, <1>3, OneSlot

LEMMA StatesTyped ==
  ASSUME NEW k \in 0..MaxAttempt
  PROVE  /\ Offering(k) \in SlotType /\ Offering(k).role = "offerer" /\ ~Offering(k).up
         /\ NewState("responder", k) \in SlotType /\ NewState("responder", k).role = "responder"
         /\ ~NewState("responder", k).up
         /\ [NewState("responder", k) EXCEPT !.sdp = "stable"] \in SlotType
         /\ [NewState("responder", k) EXCEPT !.sdp = "stable"].role = "responder"
         /\ ~[NewState("responder", k) EXCEPT !.sdp = "stable"].up
  BY PairAssumption DEF Offering, NewState, NoSlot, SlotType

LEMMA SignalTyped ==
  ASSUME NEW e \in Side, NEW kind \in {"offer", "answer", "reject"}, NEW k \in Attempt
  PROVE  Signal(e, kind, k) \in SignalType
  BY DEF Signal, SignalType, Other, Side

(***************************************************************************)
(* Keys and signals.                                                         *)
(***************************************************************************)
LEMMA RetireKeeps ==
  ASSUME SlotInv, binding \subseteq Side, NEW e \in Side, NEW notify \in BOOLEAN, Retire(e, notify)
  PROVE  SlotInv' /\ binding' \subseteq Side
  <1>1. slot' = [slot EXCEPT ![e] = NoSlot] /\ expiry' = expiry \ {e} /\ binding' \subseteq binding
    BY DEF Retire, Lost
  <1> QED
    BY <1>1, KeyGone

LEMMA InitiateKeeps ==
  ASSUME SlotInv, NetInv, NEW e \in Side, Initiate(e) PROVE SlotInv' /\ NetInv'
  <1>1. minted \in 0..MaxAttempt /\ minted < MaxAttempt /\ minted' = minted + 1
    BY DEF NetInv, Initiate
  <1>2. PICK k \in Attempt : k = minted + 1
    BY <1>1, PairAssumption DEF Attempt
  <1>3. k \in 0..MaxAttempt /\ minted' = k
    BY <1>1, <1>2 DEF Attempt
  <1>4. PICK s : s = Offering(k)
    OBVIOUS
  <1>5. s \in SlotType /\ s.role # "none" /\ ~s.up
    BY <1>3, <1>4, StatesTyped
  <1>6. slot' = [slot EXCEPT ![e] = s] /\ expiry' = Deadline(e)
    BY <1>2, <1>4 DEF Initiate
  <1>7. SlotInv'
    BY <1>5, <1>6, NewAttempt
  <1>8. PICK m : m = Signal(e, "offer", k)
    OBVIOUS
  <1>9. m \in SignalType
    BY <1>8, SignalTyped
  <1>10. signals' \in {signals, signals \cup {m}} /\ native' = native \cup {[node |-> e, k |-> k]}
    BY <1>2, <1>8 DEF Initiate, Sending, Pc
  <1>11. binding' = binding /\ faults' = faults
    BY DEF Initiate, authVars
  <1> QED
    BY <1>3, <1>7, <1>9, <1>10, <1>11 DEF NetInv

LEMMA AcceptKeeps ==
  ASSUME SlotInv, NetInv, NEW e \in Side, Accept(e) PROVE SlotInv' /\ NetInv'
  <1>1. 0 \in 0..MaxAttempt
    BY PairAssumption
  <1>2. PICK s : s = NewState("responder", 0)
    OBVIOUS
  <1>3. s \in SlotType /\ s.role # "none" /\ ~s.up
    BY <1>1, <1>2, StatesTyped
  <1>4. slot' = [slot EXCEPT ![e] = s] /\ expiry' = Deadline(e)
    BY <1>2 DEF Accept
  <1>5. SlotInv'
    BY <1>3, <1>4, NewAttempt
  <1>6. UNCHANGED <<minted, faults, signals, native, binding>>
    BY DEF Accept, authVars
  <1> QED
    BY <1>5, <1>6 DEF NetInv

LEMMA OfferKeeps ==
  ASSUME SlotInv, NetInv, NEW m \in signals, OfferIgnored(m) \/ OfferRefused(m) \/ OfferTaken(m)
  PROVE  SlotInv' /\ NetInv'
  <1>1. m \in SignalType /\ m.to \in Side /\ m.k \in Attempt /\ m.k \in 0..MaxAttempt
    BY DEF NetInv, SignalType, Attempt
  <1>2. Signal(m.to, "reject", m.k) \in SignalType /\ Signal(m.to, "answer", m.k) \in SignalType
    BY <1>1, SignalTyped
  <1>3. UNCHANGED <<minted, faults, binding>> /\ signals \subseteq SignalType
    BY DEF OfferIgnored, OfferRefused, OfferTaken, authVars, NetInv
  <1>4. CASE OfferIgnored(m)
    <2>1. SlotInv'
      BY <1>4, SlotStays DEF OfferIgnored
    <2> QED
      BY <1>3, <1>4, <2>1 DEF OfferIgnored, NetInv
  <1>5. CASE OfferRefused(m)
    <2>1. SlotInv'
      BY <1>5, SlotStays DEF OfferRefused
    <2>2. signals' \subseteq SignalType /\ native' = native
      BY <1>2, <1>3, <1>5 DEF OfferRefused, Sending
    <2> QED
      BY <1>3, <2>1, <2>2 DEF NetInv
  <1>6. CASE OfferTaken(m)
    <2>1. PICK e \in Side : e = m.to
      BY <1>1
    <2>2. PICK s : s = [NewState("responder", m.k) EXCEPT !.sdp = "stable"]
      OBVIOUS
    <2>3. s \in SlotType /\ s.role # "none" /\ ~s.up
      BY <1>1, <2>2, StatesTyped
    <2>4. slot' = [slot EXCEPT ![e] = s] /\ expiry' = Deadline(e)
      BY <1>6, <2>1, <2>2 DEF OfferTaken
    <2>5. SlotInv'
      BY <2>3, <2>4, NewAttempt
    <2>6. signals' \subseteq SignalType
      BY <1>2, <1>3, <1>6 DEF OfferTaken, Sending
    <2>7. native' = native \cup {[node |-> m.to, k |-> m.k]}
      BY <1>6 DEF OfferTaken, Pc
    <2> QED
      BY <1>1, <1>3, <2>5, <2>6, <2>7 DEF NetInv
  <1> QED
    BY <1>4, <1>5, <1>6

LEMMA AnswerKeeps ==
  ASSUME SlotInv, NetInv, NEW m \in signals, OnAnswer(m) PROVE SlotInv' /\ NetInv'
  <1>1. PICK e \in Side : e = m.to
    BY DEF NetInv, SignalType
  <1>2. slot[e] \in SlotType
    BY DEF SlotInv
  <1>3. SlotInv'
    <2>1. CASE slot[e].k = m.k /\ slot[e].sdp = "local"
      <3>1. PICK s : s = [slot[e] EXCEPT !.sdp = "stable"]
        OBVIOUS
      <3>2. /\ s \in SlotType /\ s.role = slot[e].role /\ s.up = slot[e].up
            /\ s.boundAt = slot[e].boundAt /\ s.bindTimer = slot[e].bindTimer
        BY <1>2, <3>1 DEF SlotType
      <3>3. slot' = [slot EXCEPT ![e] = s] /\ expiry' = expiry
        BY <1>1, <2>1, <3>1 DEF OnAnswer
      <3>4. slot[e].role # "none"
        BY <2>1 DEF SlotInv, Timed, NoSlot
      <3> QED
        BY <3>2, <3>3, <3>4, SameAttempt
    <2>2. CASE ~(slot[e].k = m.k /\ slot[e].sdp = "local")
      BY <1>1, <2>2, SlotStays DEF OnAnswer
    <2> QED
      BY <2>1, <2>2
  <1>4. UNCHANGED <<minted, faults, native, binding>> /\ signals' \subseteq signals
    BY DEF OnAnswer, authVars
  <1> QED
    BY <1>3, <1>4 DEF NetInv

LEMMA RejectKeeps ==
  ASSUME SlotInv, NetInv, NEW m \in signals, OnReject(m) PROVE SlotInv' /\ NetInv'
  <1>1. PICK e \in Side : e = m.to
    BY DEF NetInv, SignalType
  <1>2. UNCHANGED <<minted, faults, native>> /\ signals' \subseteq signals
    BY DEF OnReject
  <1>3. \/ Retire(e, TRUE)
        \/ UNCHANGED <<slot, expiry, binding>>
    BY <1>1 DEF OnReject
  <1>4. PICK notify \in BOOLEAN : notify = TRUE
    OBVIOUS
  <1>5. CASE Retire(e, TRUE)
    <2>1. SlotInv' /\ binding' \subseteq Side
      BY <1>4, <1>5, RetireKeeps DEF NetInv
    <2> QED
      BY <1>2, <2>1 DEF NetInv
  <1>6. CASE UNCHANGED <<slot, expiry, binding>>
    BY <1>2, <1>6, SlotStays DEF NetInv
  <1> QED
    BY <1>3, <1>5, <1>6

LEMMA FailedKeeps ==
  ASSUME SlotInv, NetInv, NEW e \in Side, ConnFailed(e) PROVE SlotInv' /\ NetInv'
  <1>1. slot[e] \in SlotType /\ slot[e].k # 0
    BY DEF SlotInv, ConnFailed
  <1>2. PICK r \in {"no", "armed"} : r = IF slot[e].role = "offerer" /\ slot[e].retry = "no" THEN "armed" ELSE slot[e].retry
    BY <1>1 DEF SlotType
  <1>3. PICK s : s = [slot[e] EXCEPT !.failed = TRUE, !.retry = r]
    OBVIOUS
  <1>4. slot' = [slot EXCEPT ![e] = s] /\ expiry' = expiry
    BY <1>1, <1>2, <1>3 DEF ConnFailed, SlotInv, SlotType
  <1>5. /\ s \in SlotType /\ s.role = slot[e].role /\ s.up = slot[e].up
        /\ s.boundAt = slot[e].boundAt /\ s.bindTimer = slot[e].bindTimer
    BY <1>1, <1>3 DEF SlotType
  <1>6. slot[e].role # "none"
    BY <1>1 DEF SlotInv, Timed, NoSlot
  <1>7. SlotInv'
    BY <1>4, <1>5, <1>6, SameAttempt
  <1>8. UNCHANGED <<minted, signals, native, binding>> /\ faults < MaxFault /\ faults' = faults + 1
    BY DEF ConnFailed, authVars
  <1> QED
    BY <1>7, <1>8, PairAssumption DEF NetInv

LEMMA RetryKeeps ==
  ASSUME SlotInv, NetInv, NEW e \in Side, RetryTimer(e) PROVE SlotInv' /\ NetInv'
  <1>1. faults' = faults
    BY DEF RetryTimer
  <1>2. CASE Retire(e, FALSE) /\ UNCHANGED <<minted, native, signals>>
    <2>1. PICK notify \in BOOLEAN : notify = FALSE
      OBVIOUS
    <2>2. SlotInv' /\ binding' \subseteq Side
      BY <1>2, <2>1, RetireKeeps DEF NetInv
    <2> QED
      BY <1>1, <1>2, <2>2 DEF NetInv
  <1>3. CASE /\ minted < MaxAttempt /\ minted' = minted + 1
             /\ slot' = [slot EXCEPT ![e] = Offering(minted + 1)]
             /\ native' = native \cup {Pc(e, minted + 1)}
             /\ expiry' = Deadline(e)
             /\ signals' \in Sending(Signal(e, "offer", minted + 1))
             /\ Lost(e, Told(e, FALSE))
    <2>1. PICK k \in Attempt : k = minted + 1
      BY <1>3, PairAssumption DEF Attempt, NetInv
    <2>2. k \in 0..MaxAttempt /\ minted' = k
      BY <1>3, <2>1 DEF Attempt
    <2>3. PICK s : s = Offering(k)
      OBVIOUS
    <2>4. s \in SlotType /\ s.role # "none" /\ ~s.up
      BY <2>2, <2>3, StatesTyped
    <2>5. SlotInv'
      BY <1>3, <2>1, <2>3, <2>4, NewAttempt
    <2>6. PICK m : m = Signal(e, "offer", k)
      OBVIOUS
    <2>7. m \in SignalType
      BY <2>6, SignalTyped
    <2>8. /\ signals' \in {signals, signals \cup {m}} /\ native' = native \cup {[node |-> e, k |-> k]}
          /\ binding' = binding
      BY <1>3, <2>1, <2>6 DEF Sending, Pc, Lost, Told
    <2> QED
      BY <1>1, <2>2, <2>5, <2>7, <2>8 DEF NetInv
  <1> QED
    BY <1>2, <1>3 DEF RetryTimer

LEMMA LostKeeps ==
  ASSUME SlotInv, NetInv, NEW e \in Side, NegotiationTimeout(e) \/ ChannelLost(e) \/ BindTimeout(e) \/ PeerLeft(e)
  PROVE  SlotInv' /\ NetInv'
  <1>1. PICK notify \in BOOLEAN : notify = TRUE
    OBVIOUS
  <1>2. Retire(e, notify)
    BY <1>1 DEF NegotiationTimeout, ChannelLost, BindTimeout, PeerLeft
  <1>3. SlotInv' /\ binding' \subseteq Side
    BY <1>2, RetireKeeps DEF NetInv
  <1>4. UNCHANGED <<minted, signals, native>> /\ (faults' = faults \/ (faults < MaxFault /\ faults' = faults + 1))
    BY DEF NegotiationTimeout, ChannelLost, BindTimeout, PeerLeft
  <1>5. faults' \in 0..MaxFault
    BY <1>4, PairAssumption DEF NetInv
  <1> QED
    BY <1>3, <1>4, <1>5 DEF NetInv

LEMMA CloseKeeps ==
  ASSUME SlotInv, NetInv, NEW e \in Side, CloseConnection(e) PROVE SlotInv' /\ NetInv'
  <1>1. SlotInv'
    BY KeyGone DEF CloseConnection
  <1>2. UNCHANGED <<minted, signals, native>> /\ faults < MaxFault /\ faults' = faults + 1 /\ binding' \subseteq binding
    BY DEF CloseConnection
  <1> QED
    BY <1>1, <1>2, PairAssumption DEF NetInv

LEMMA OpenKeeps ==
  ASSUME SlotInv, NetInv, NEW e \in Side, DcOpen(e) PROVE SlotInv' /\ NetInv'
  <1>1. slot[e] \in SlotType /\ slot[e].sdp = "stable"
    BY DEF SlotInv, DcOpen
  <1>2. PICK s : s = Opened(e)
    OBVIOUS
  <1>3. s \in SlotType /\ s.role = slot[e].role /\ s.up /\ s.bindTimer = ~slot[e].boundAt /\ s.boundAt = slot[e].boundAt
    BY <1>1, <1>2 DEF Opened, SlotType
  <1>4. slot[e].role # "none"
    BY <1>1 DEF SlotInv, Timed, NoSlot
  <1>5. PICK armed \in BOOLEAN : armed = FALSE
    OBVIOUS
  <1>6. Timed(s, armed)
    BY <1>3, <1>4, <1>5 DEF Timed
  <1>7. slot' = [slot EXCEPT ![e] = s] /\ expiry' = IF armed THEN expiry \cup {e} ELSE expiry \ {e}
    BY <1>2, <1>5 DEF DcOpen
  <1>8. SlotInv'
    BY <1>3, <1>6, <1>7, OneSlot
  <1>9. UNCHANGED <<minted, faults, signals, native, binding>>
    BY DEF DcOpen
  <1> QED
    BY <1>8, <1>9 DEF NetInv

LEMMA BoundKeeps ==
  ASSUME SlotInv, NetInv, NEW v \in checks, v.node \in Side, Verified(v) PROVE SlotInv' /\ NetInv'
  <1>1. PICK e \in Side : e = v.node
    OBVIOUS
  <1>2. slot[e] \in SlotType
    BY DEF SlotInv
  <1>3. expiry' = expiry /\ (slot' = slot \/ slot' = LedgerBind(e))
    BY <1>1 DEF Verified
  <1>4. SlotInv'
    <2>1. CASE slot' = slot
      BY <1>3, <2>1, SlotStays
    <2>2. CASE slot' # slot
      <3>1. slot[e].role # "none" /\ slot' = [slot EXCEPT ![e].boundAt = TRUE, ![e].bindTimer = FALSE]
        BY <1>3, <2>2 DEF LedgerBind, Free
      <3>2. PICK s : s = [slot[e] EXCEPT !.boundAt = TRUE, !.bindTimer = FALSE]
        OBVIOUS
      <3>3. s \in SlotType /\ s.role = slot[e].role /\ s.up = slot[e].up /\ s.boundAt
        BY <1>2, <3>2 DEF SlotType
      <3>4. slot' = [slot EXCEPT ![e] = s]
        BY <1>2, <3>1, <3>2 DEF SlotInv, SlotType
      <3> QED
        BY <1>3, <3>1, <3>3, <3>4, SameAttempt
    <2> QED
      BY <2>1, <2>2
  <1>5. UNCHANGED <<minted, faults, signals, native>> /\ binding' \subseteq binding \cup {v.node}
    BY DEF Verified
  <1> QED
    BY <1>4, <1>5 DEF NetInv

(***************************************************************************)
(* The proof of identity.                                                    *)
(***************************************************************************)
LEMMA AuthStays ==
  ASSUME AuthInv, UNCHANGED <<auth, nonces, frames, checks>> PROVE AuthInv'
  BY DEF AuthInv

\* A state under a key goes.
LEMMA AuthGone ==
  ASSUME AuthInv, NEW e \in Side, auth' \in {auth, [auth EXCEPT ![e] = NoAuth]}, UNCHANGED <<nonces, frames, checks>>
  PROVE  AuthInv'
  BY NoneTyped DEF AuthInv

LEMMA SignalsKeepAuth ==
  ASSUME AuthInv, NEW e \in Side, \/ \E notify \in BOOLEAN : Retire(e, notify)
                                  \/ \E told : Lost(e, told)
                                  \/ CloseConnection(e),
         UNCHANGED <<nonces, frames, checks>>
  PROVE  AuthInv'
  <1>1. auth' \in {auth, [auth EXCEPT ![e] = NoAuth]}
    BY DEF Retire, Lost, CloseConnection
  <1> QED
    BY <1>1, AuthGone

LEMMA FrameSent ==
  ASSUME NEW F \in [Side -> Seq(FrameType)], NEW S \in [Side -> SlotType], NEW e \in Side,
         NEW kind, NEW v, (kind = "hello" /\ v \in Nat) \/ (kind = "sig" /\ v \in Seq(Nat))
  PROVE  SendFrame(F, S, e, kind, v) \in [Side -> Seq(FrameType)]
  <1>1. Other(e) \in Side /\ S[e] \in SlotType
    BY DEF Other, Side
  <1>2. PICK f : f = [k |-> S[e].k, kind |-> kind, v |-> v]
    OBVIOUS
  <1>3. S[e].k \in 0..MaxAttempt
    BY <1>1 DEF SlotType
  <1>4. f \in FrameType
    BY <1>2, <1>3 DEF FrameType
  <1>5. SendFrame(F, S, e, kind, v) = F \/ SendFrame(F, S, e, kind, v) = [F EXCEPT ![Other(e)] = Append(F[Other(e)], f)]
    BY <1>2 DEF SendFrame
  <1>6. PICK o \in Side : o = Other(e)
    BY <1>1
  <1>7. F[o] \in Seq(FrameType)
    OBVIOUS
  <1>8. Append(F[o], f) \in Seq(FrameType)
    BY <1>4, <1>7
  <1>9. [F EXCEPT ![o] = Append(F[o], f)] \in [Side -> Seq(FrameType)]
    BY <1>8
  <1> QED
    BY <1>5, <1>6, <1>9

\* A nonce is minted within the bound.
LEMMA MintKeeps ==
  ASSUME AuthInv, NEW e \in Side, CanMint(e)
  PROVE  /\ Ensured(e) \in AuthType /\ Ensured(e).my \in 1..MaxNonce
         /\ Minted(e) \in [Side -> Nat] /\ Minted(e)["a"] + Minted(e)["b"] <= MaxNonce
  <1>1. auth[e] \in AuthType /\ auth[e].my \in 0..MaxNonce /\ nonces[e] \in Nat
    BY DEF AuthInv, AuthType
  <1>2. nonces["a"] \in Nat /\ nonces["b"] \in Nat /\ (e = "a" \/ e = "b") /\ MaxNonce \in Nat
    BY PairAssumption DEF AuthInv, Side
  <1>3. CASE auth[e].my # 0
    BY <1>1, <1>3 DEF Ensured, Minted, AuthInv
  <1>4. CASE auth[e].my = 0
    <2>1. nonces["a"] + nonces["b"] < MaxNonce
      BY <1>4 DEF CanMint
    <2>2. PICK n \in 1..MaxNonce : n = nonces[e] + 1
      BY <1>1, <1>2, <2>1
    <2>3. Ensured(e) = [NoAuth EXCEPT !.my = n] /\ Minted(e) = [nonces EXCEPT ![e] = n]
      BY <1>4, <2>2 DEF Ensured, Minted
    <2>4. [NoAuth EXCEPT !.my = n] \in AuthType /\ [NoAuth EXCEPT !.my = n].my = n
      BY NoneTyped DEF AuthType
    <2>5. [nonces EXCEPT ![e] = n] \in [Side -> Nat]
      BY <2>2 DEF AuthInv
    <2>6. [nonces EXCEPT ![e] = n]["a"] + [nonces EXCEPT ![e] = n]["b"] <= MaxNonce
      BY <1>2, <2>1, <2>2 DEF AuthInv, Side
    <2> QED
      BY <2>3, <2>4, <2>5, <2>6
  <1> QED
    BY <1>3, <1>4

LEMMA HelloKeeps ==
  ASSUME AuthInv, NEW F \in [Side -> Seq(FrameType)], NEW S \in [Side -> SlotType], NEW e \in Side
  PROVE  HelloSent(F, S, e) \in [Side -> Seq(FrameType)]
  <1>1. nonces[e] + 1 \in Nat
    BY DEF AuthInv
  <1>2. PICK n \in Nat : n = nonces[e] + 1
    BY <1>1
  <1>3. SendFrame(F, S, e, "hello", n) \in [Side -> Seq(FrameType)]
    BY FrameSent
  <1> QED
    BY <1>2, <1>3 DEF HelloSent

LEMMA OpenKeepsAuth ==
  ASSUME SlotInv, AuthInv, NEW e \in Side, DcOpen(e), slot' \in [Side -> SlotType] PROVE AuthInv'
  <1>1. CanMint(e) /\ auth' = [auth EXCEPT ![e] = Ensured(e)] /\ nonces' = Minted(e) /\ checks' = checks
    BY DEF DcOpen
  <1>2. PICK S \in [Side -> SlotType] : S = slot'
    OBVIOUS
  <1>3. frames' = HelloSent(frames, S, e)
    BY <1>2 DEF DcOpen
  <1>4. PICK F \in [Side -> Seq(FrameType)] : F = frames
    BY DEF AuthInv
  <1>5. frames' \in [Side -> Seq(FrameType)]
    BY <1>3, <1>4, HelloKeeps
  <1> QED
    BY <1>1, <1>5, MintKeeps DEF AuthInv

\* A state makes progress: it signs, and asks for the check of a signature.
LEMMA ProgressKeeps ==
  ASSUME SlotInv, AuthInv, NEW e \in Side, NEW st \in AuthType, st.my \in 1..MaxNonce,
         NEW F \in [Side -> Seq(FrameType)], Progress(e, st, F),
         nonces' \in [Side -> Nat], nonces'["a"] + nonces'["b"] <= MaxNonce
  PROVE  AuthInv'
  <1> DEFINE cbv  == Cbv(e, st)
             go   == ~st.bound /\ cbv # <<>>
             test == go /\ st.sig # <<>> /\ ~st.verifying
  <1>1. cbv \in Seq(Nat)
    <2>1. slot[e].k \in Nat /\ st.my \in Nat /\ st.peer \in Nat
      BY DEF SlotInv, SlotType, AuthType
    <2>2. <<>> \in Seq(Nat) /\ <<st.my, st.peer, slot[e].k>> \in Seq(Nat) /\ <<st.peer, st.my, slot[e].k>> \in Seq(Nat)
      BY <2>1
    <2> QED
      BY <2>2 DEF Cbv
  <1>2. PICK signs \in BOOLEAN : signs <=> st.sigSent \/ go
    <2>1. (st.sigSent \/ go) \in BOOLEAN
      OBVIOUS
    <2> QED
      BY <2>1, Zenon
  <1>3. auth' = [auth EXCEPT ![e] = [st EXCEPT !.sigSent = st.sigSent \/ go, !.verifying = st.verifying \/ test]]
    BY DEF Progress
  <1>4. [st EXCEPT !.sigSent = st.sigSent \/ go, !.verifying = st.verifying \/ test] \in AuthType
    <2>1. (st.sigSent \/ go) \in BOOLEAN /\ (st.verifying \/ test) \in BOOLEAN
      OBVIOUS
    <2> HIDE DEF go, test
    <2> QED
      BY <2>1 DEF AuthType
  <1>5. auth' \in [Side -> AuthType]
    BY <1>3, <1>4 DEF AuthInv
  <1>6. frames' \in [Side -> Seq(FrameType)]
    <2>1. PICK S \in [Side -> SlotType] : S = slot
      BY DEF SlotInv
    <2>2. PICK v \in Seq(Nat) : v = cbv
      BY <1>1
    <2>3. frames' = F \/ frames' = SendFrame(F, S, e, "sig", v)
      BY <2>1, <2>2 DEF Progress
    <2>4. PICK kind : kind = "sig"
      OBVIOUS
    <2>5. SendFrame(F, S, e, kind, v) \in [Side -> Seq(FrameType)]
      BY <2>4, FrameSent
    <2> QED
      BY <2>3, <2>4, <2>5
  <1>7. checks' \subseteq [node : Side, my : 1..MaxNonce, ok : BOOLEAN]
    <2>1. (st.sig = cbv) \in BOOLEAN
      OBVIOUS
    <2>2. [node |-> e, my |-> st.my, ok |-> st.sig = cbv] \in [node : Side, my : 1..MaxNonce, ok : BOOLEAN]
      BY <2>1
    <2>3. checks' = checks \/ checks' = checks \cup {[node |-> e, my |-> st.my, ok |-> st.sig = cbv]}
      BY DEF Progress
    <2> QED
      BY <2>2, <2>3 DEF AuthInv
  <1> QED
    BY <1>5, <1>6, <1>7 DEF AuthInv

LEMMA FrameKeeps ==
  ASSUME SlotInv, AuthInv, NEW e \in Side, OnFrame(e) PROVE AuthInv'
  <1>1. CanMint(e) /\ frames[e] # <<>> /\ frames[e] \in Seq(FrameType)
    BY DEF OnFrame, AuthInv
  <1>2. Head(frames[e]) \in FrameType /\ Tail(frames[e]) \in Seq(FrameType)
    BY <1>1
  <1>3. PICK f \in FrameType : f = Head(frames[e])
    BY <1>2
  <1>4. PICK F \in [Side -> Seq(FrameType)] : F = [frames EXCEPT ![e] = Tail(frames[e])]
    BY <1>2 DEF AuthInv
  <1>5. PICK st : st = IF f.kind = "hello" THEN [Ensured(e) EXCEPT !.peer = f.v] ELSE [Ensured(e) EXCEPT !.sig = f.v]
    OBVIOUS
  <1>6. PICK en \in AuthType : en = Ensured(e) /\ en.my \in 1..MaxNonce
    BY <1>1, MintKeeps
  <1>7. (f.kind = "hello" /\ f.v \in Nat) \/ (f.kind = "sig" /\ f.v \in Seq(Nat))
    BY DEF FrameType
  <1>8. st \in AuthType /\ st.my \in 1..MaxNonce
    <2>1. CASE f.kind = "hello"
      BY <1>5, <1>6, <1>7, <2>1 DEF AuthType
    <2>2. CASE f.kind # "hello"
      BY <1>5, <1>6, <1>7, <2>2 DEF AuthType
    <2> QED
      BY <2>1, <2>2
  <1>9. \/ Progress(e, st, HelloSent(F, slot, e)) /\ nonces' = Minted(e)
        \/ frames' = F /\ UNCHANGED <<auth, checks, nonces>>
    BY <1>3, <1>4, <1>5 DEF OnFrame
  <1>10. CASE Progress(e, st, HelloSent(F, slot, e)) /\ nonces' = Minted(e)
    <2>1. PICK S \in [Side -> SlotType] : S = slot
      BY DEF SlotInv
    <2>2. PICK G \in [Side -> Seq(FrameType)] : G = HelloSent(F, slot, e)
      <3>1. HelloSent(F, S, e) \in [Side -> Seq(FrameType)]
        BY HelloKeeps
      <3> QED
        BY <2>1, <3>1
    <2>3. Progress(e, st, G)
      BY <1>10, <2>2
    <2>4. nonces' \in [Side -> Nat] /\ nonces'["a"] + nonces'["b"] <= MaxNonce
      BY <1>1, <1>10, MintKeeps
    <2> QED
      BY <1>8, <2>3, <2>4, ProgressKeeps
  <1>11. CASE frames' = F /\ UNCHANGED <<auth, checks, nonces>>
    BY <1>11 DEF AuthInv
  <1> QED
    BY <1>9, <1>10, <1>11

LEMMA VerifiedKeeps ==
  ASSUME AuthInv, NEW v \in checks, Verified(v) PROVE AuthInv'
  <1>1. PICK e \in Side : e = v.node
    BY DEF AuthInv
  <1>2. v.ok \in BOOLEAN /\ auth[e] \in AuthType
    BY DEF AuthInv
  <1>3. checks' = checks \ {v} /\ UNCHANGED <<nonces, frames>>
    BY DEF Verified
  <1>4. \/ auth' = auth
        \/ auth' = [auth EXCEPT ![e] = [auth[e] EXCEPT !.verifying = FALSE, !.bound = auth[e].bound \/ v.ok]]
    BY <1>1, <1>2 DEF Verified, AuthInv, AuthType
  <1>5. [auth[e] EXCEPT !.verifying = FALSE, !.bound = auth[e].bound \/ v.ok] \in AuthType
    <2>1. (auth[e].bound \/ v.ok) \in BOOLEAN
      OBVIOUS
    <2>2. PICK b \in BOOLEAN : b = (auth[e].bound \/ v.ok)
      BY <2>1
    <2> QED
      BY <1>2, <2>2 DEF AuthType
  <1>6. auth' \in [Side -> AuthType]
    BY <1>4, <1>5 DEF AuthInv
  <1> QED
    BY <1>3, <1>6 DEF AuthInv

LEMMA MpStepHolds == PairInv /\ [MpNext]_mpVars => PairInv'
  <1> SUFFICES ASSUME SlotInv, NetInv, AuthInv, [MpNext]_mpVars PROVE SlotInv' /\ NetInv' /\ AuthInv'
    BY DEF PairInv
  <1>1. ASSUME NEW e \in Side, Initiate(e) \/ Accept(e) PROVE SlotInv' /\ NetInv' /\ AuthInv'
    <2>1. AuthInv'
      BY <1>1, AuthStays DEF Initiate, Accept, authVars
    <2> QED
      BY <1>1, <2>1, InitiateKeeps, AcceptKeeps
  <1>2. ASSUME NEW m \in signals, OfferIgnored(m) \/ OfferRefused(m) \/ OfferTaken(m) PROVE SlotInv' /\ NetInv' /\ AuthInv'
    <2>1. AuthInv'
      BY <1>2, AuthStays DEF OfferIgnored, OfferRefused, OfferTaken, authVars
    <2> QED
      BY <1>2, <2>1, OfferKeeps
  <1>3. ASSUME NEW m \in signals, OnAnswer(m) PROVE SlotInv' /\ NetInv' /\ AuthInv'
    <2>1. AuthInv'
      BY <1>3, AuthStays DEF OnAnswer, authVars
    <2> QED
      BY <1>3, <2>1, AnswerKeeps
  <1>4. ASSUME NEW m \in signals, OnReject(m) PROVE SlotInv' /\ NetInv' /\ AuthInv'
    <2>1. PICK e \in Side : e = m.to
      BY DEF NetInv, SignalType
    <2>2. UNCHANGED <<nonces, frames, checks>> /\ (Retire(e, TRUE) \/ auth' = auth)
      BY <1>4, <2>1 DEF OnReject
    <2>3. AuthInv'
      BY <2>2, AuthStays, SignalsKeepAuth
    <2> QED
      BY <1>4, <2>3, RejectKeeps
  <1>5. ASSUME NEW e \in Side, ConnFailed(e) PROVE SlotInv' /\ NetInv' /\ AuthInv'
    <2>1. AuthInv'
      BY <1>5, AuthStays DEF ConnFailed, authVars
    <2> QED
      BY <1>5, <2>1, FailedKeeps
  <1>6. ASSUME NEW e \in Side, RetryTimer(e) PROVE SlotInv' /\ NetInv' /\ AuthInv'
    <2>1. UNCHANGED <<nonces, frames, checks>> /\ (Lost(e, Told(e, FALSE)) \/ Retire(e, FALSE))
      BY <1>6 DEF RetryTimer
    <2>2. AuthInv'
      BY <2>1, SignalsKeepAuth
    <2> QED
      BY <1>6, <2>2, RetryKeeps
  <1>7. ASSUME NEW e \in Side, NegotiationTimeout(e) \/ ChannelLost(e) \/ BindTimeout(e) \/ PeerLeft(e)
        PROVE  SlotInv' /\ NetInv' /\ AuthInv'
    <2>1. Retire(e, TRUE) /\ UNCHANGED <<nonces, frames, checks>>
      BY <1>7 DEF NegotiationTimeout, ChannelLost, BindTimeout, PeerLeft
    <2>2. AuthInv'
      BY <2>1, SignalsKeepAuth
    <2> QED
      BY <1>7, <2>2, LostKeeps
  <1>8. ASSUME NEW e \in Side, CloseConnection(e) PROVE SlotInv' /\ NetInv' /\ AuthInv'
    <2>1. UNCHANGED <<nonces, frames, checks>>
      BY <1>8 DEF CloseConnection
    <2> QED
      BY <1>8, <2>1, SignalsKeepAuth, CloseKeeps
  <1>9. ASSUME NEW e \in Side, DcOpen(e) PROVE SlotInv' /\ NetInv' /\ AuthInv'
    <2>1. SlotInv' /\ NetInv'
      BY <1>9, OpenKeeps
    <2>2. slot' \in [Side -> SlotType]
      BY <2>1 DEF SlotInv
    <2> QED
      BY <1>9, <2>1, <2>2, OpenKeepsAuth
  <1>10. ASSUME NEW e \in Side, OnFrame(e) PROVE SlotInv' /\ NetInv' /\ AuthInv'
    <2>1. UNCHANGED <<slot, expiry, minted, faults, signals, native, binding>>
      BY <1>10 DEF OnFrame, negVars
    <2>2. SlotInv' /\ NetInv'
      BY <2>1, SlotStays DEF NetInv
    <2> QED
      BY <1>10, <2>2, FrameKeeps
  <1>11. ASSUME NEW p \in native, NativeClose(p) PROVE SlotInv' /\ NetInv' /\ AuthInv'
    <2>1. /\ UNCHANGED <<slot, expiry, minted, faults, signals, binding>> /\ native' \subseteq native
          /\ UNCHANGED <<auth, nonces, frames, checks>>
      BY <1>11 DEF NativeClose, authVars
    <2> QED
      BY <2>1, SlotStays, AuthStays DEF NetInv
  <1>12. ASSUME NEW v \in checks, Verified(v) PROVE SlotInv' /\ NetInv' /\ AuthInv'
    <2>1. v.node \in Side
      BY DEF AuthInv
    <2> QED
      BY <1>12, <2>1, BoundKeeps, VerifiedKeeps
  <1>13. CASE UNCHANGED mpVars
    <2>1. UNCHANGED <<slot, expiry, minted, faults, signals, native, auth, nonces, frames, checks, binding>>
      BY <1>13 DEF mpVars, negVars, authVars
    <2> QED
      BY <2>1, SlotStays, AuthStays DEF NetInv
  <1> QED
    BY <1>1, <1>2, <1>3, <1>4, <1>5, <1>6, <1>7, <1>8, <1>9, <1>10, <1>11, <1>12, <1>13 DEF MpNext

\* No key is held without a timer that gives it back, however many attempts,
\* replacements, lost signals, failures and late verdicts cross.
THEOREM KeysTimedAlways == MpSpec => []KeysTimed
  <1>1. PairInv => KeysTimed
    BY DEF PairInv, SlotInv, Timed, KeysTimed, Free, SlotType
  <1> QED
    BY <1>1, MpInitHolds, MpStepHolds, PTL DEF MpSpec

\* Both ends keep their types: a free key has neither timer nor retry, and only a
\* negotiation has the reaper's deadline.
THEOREM PairTypesAlways == MpSpec => []MpTypeOK
  <1>1. PairInv => MpTypeOK
    BY DEF PairInv, SlotInv, NetInv, AuthInv, Timed, MpTypeOK, Free, SlotType, SignalType
  <1> QED
    BY <1>1, MpInitHolds, MpStepHolds, PTL DEF MpSpec

-----------------------------------------------------------------------------
(***************************************************************************)
(* The heartbeat.                                                          *)
(***************************************************************************)
BeatType == [st : {"open", "stale", "gone"}, pinger : BOOLEAN, fails : 0..SendFailLimit,
             rxPing : 0..PingAge, tx : 0..TxAge, rx : 0..(DeadAge + 1)]
HbFrame == [kind : {"ping", "pong"}, hb : BOOLEAN]
Queue == {q \in Seq(HbFrame) : Len(q) <= MaxQueue}

\* A queue holds frames of the heartbeat, and no more than its bound.
HbInv ==
    /\ beat \in [End -> BeatType] /\ wire \in [End -> Queue] /\ due \in [End -> SUBSET {"beat", "reap"}]
    /\ legacy \subseteq End /\ asleep \subseteq End /\ sleeps \in 0..MaxSleep /\ cut \in BOOLEAN

LEMMA HbConstants ==
  /\ PingAge \in Nat /\ TxAge \in Nat /\ DeadAge + 1 \in Nat /\ SendFailLimit \in Nat /\ MaxQueue \in Nat \ {0}
  /\ 0 \in 0..SendFailLimit /\ 0 \in 0..PingAge /\ 0 \in 0..TxAge /\ 0 \in 0..(DeadAge + 1) /\ 0 \in 0..MaxSleep
  /\ MaxSleep \in Nat
  /\ <<>> \in Queue
  BY HeartbeatAssumption DEF PingAge, TxAge, Queue

LEMMA AgedTyped ==
  ASSUME NEW cap \in Nat, NEW n \in 0..cap
  PROVE  Aged(n, cap) \in 0..cap
  BY DEF Aged

LEMMA FarEnd ==
  ASSUME NEW e \in End
  PROVE  Far(e) \in End /\ Far(e) # e
  BY DEF Far, End

LEMMA HbInitHolds == HbInit => HbInv
  <1> SUFFICES ASSUME HbInit PROVE HbInv
    OBVIOUS
  <1>1. \A e \in End : [st |-> "open", pinger |-> e = "offerer", fails |-> 0, rxPing |-> 0, tx |-> TxAge, rx |-> 0] \in BeatType
    BY HbConstants DEF BeatType
  <1>2. beat \in [End -> BeatType]
    BY <1>1 DEF HbInit
  <1>3. wire \in [End -> Queue] /\ due \in [End -> SUBSET {"beat", "reap"}]
    BY HbConstants DEF HbInit
  <1>4. legacy \subseteq End /\ asleep \subseteq End
    BY DEF HbInit, End
  <1> QED
    BY <1>2, <1>3, <1>4, HbConstants DEF HbInit, HbInv

\* A frame put on the wire where there is room, or where it is lost.
LEMMA OnWireTyped ==
  ASSUME HbInv, NEW e \in End, NEW f \in HbFrame, Len(wire[Far(e)]) < MaxQueue \/ cut
  PROVE  OnWire(e, f) \in [End -> Queue]
  <1>1. wire[Far(e)] \in Queue
    BY FarEnd DEF HbInv
  <1>2. CASE cut \/ beat[Far(e)].st = "gone"
    BY <1>2 DEF OnWire, HbInv
  <1>3. CASE ~(cut \/ beat[Far(e)].st = "gone")
    <2>1. PICK q \in Seq(HbFrame) : q = wire[Far(e)]
      BY <1>1 DEF Queue
    <2>2. Append(q, f) \in Seq(HbFrame) /\ Len(Append(q, f)) = Len(q) + 1 /\ Len(q) \in Nat
      OBVIOUS
    <2>3. Append(q, f) \in Queue
      BY <1>3, <2>1, <2>2, HbConstants DEF Queue
    <2> QED
      BY <1>3, <2>1, <2>3 DEF OnWire, HbInv
  <1> QED
    BY <1>2, <1>3

LEMMA PingTickKeeps ==
  ASSUME HbInv, NEW e \in End, NEW b \in BeatType, NEW d \in [End -> SUBSET {"beat", "reap"}],
         PingTick(e, b, d), UNCHANGED <<legacy, asleep, sleeps, cut>>
  PROVE  HbInv'
  <1> DEFINE sent == [b EXCEPT !.tx = 0, !.fails = 0]
             threw == [b EXCEPT !.fails = Aged(@, SendFailLimit)]
             ping == [kind |-> "ping", hb |-> e \notin legacy]
  <1>1. ping \in HbFrame
    BY DEF HbFrame
  <1>2. sent \in BeatType
    BY HbConstants DEF BeatType
  <1>3. b.fails \in 0..SendFailLimit
    BY DEF BeatType
  <1>4. Aged(b.fails, SendFailLimit) \in 0..SendFailLimit
    BY <1>3, HbConstants, AgedTyped
  <1>5. threw \in BeatType
    BY <1>4 DEF BeatType
  <1>6. \/ Len(wire[Far(e)]) < MaxQueue /\ beat' = [beat EXCEPT ![e] = sent] /\ wire' = OnWire(e, ping)
        \/ beat' = [beat EXCEPT ![e] = threw] /\ wire' = wire
    BY DEF PingTick
  <1>7. due' = d
    BY DEF PingTick
  <1> HIDE DEF sent, threw, ping
  <1>8. beat' \in [End -> BeatType]
    BY <1>2, <1>5, <1>6 DEF HbInv
  <1>9. wire' \in [End -> Queue]
    BY <1>1, <1>6, OnWireTyped DEF HbInv
  <1> QED
    BY <1>7, <1>8, <1>9 DEF HbInv

LEMMA HeartbeatTickKeeps ==
  ASSUME HbInv, NEW e \in End, HeartbeatTick(e)
  PROVE  HbInv'
  <1> DEFINE d == [due EXCEPT ![e] = @ \ {"beat"}]
             taken == [beat[e] EXCEPT !.pinger = TRUE]
  <1>1. d \in [End -> SUBSET {"beat", "reap"}]
    BY DEF HbInv
  <1>2. beat[e] \in BeatType
    BY DEF HbInv
  <1>3. taken \in BeatType
    BY <1>2 DEF BeatType
  <1>4. UNCHANGED <<legacy, asleep, sleeps, cut>>
    BY DEF HeartbeatTick
  <1>5. \/ PingTick(e, beat[e], d)
        \/ PingTick(e, taken, d)
        \/ due' = d /\ UNCHANGED <<beat, wire>>
    BY DEF HeartbeatTick
  <1> HIDE DEF d, taken
  <1>6. CASE PingTick(e, beat[e], d)
    <2>1. PICK b \in BeatType : b = beat[e]
      BY <1>2
    <2>2. PICK g \in [End -> SUBSET {"beat", "reap"}] : g = d
      BY <1>1
    <2>3. PingTick(e, b, g)
      BY <1>6, <2>1, <2>2 DEF PingTick
    <2> QED
      BY <1>4, <2>3, PingTickKeeps
  <1>7. CASE PingTick(e, taken, d)
    <2>1. PICK b \in BeatType : b = taken
      BY <1>3
    <2>2. PICK g \in [End -> SUBSET {"beat", "reap"}] : g = d
      BY <1>1
    <2>3. PingTick(e, b, g)
      BY <1>7, <2>1, <2>2 DEF PingTick
    <2> QED
      BY <1>4, <2>3, PingTickKeeps
  <1>8. CASE due' = d /\ UNCHANGED <<beat, wire>>
    BY <1>1, <1>4, <1>8 DEF HbInv
  <1> QED
    BY <1>5, <1>6, <1>7, <1>8

LEMMA OnMessageKeeps ==
  ASSUME HbInv, NEW e \in End, OnMessage(e)
  PROVE  HbInv'
  <1> DEFINE f == Head(wire[e])
             pong == [kind |-> "pong", hb |-> TRUE]
             b == [beat[e] EXCEPT !.rx = 0, !.st = "open"]
             yields == [b EXCEPT !.rxPing = 0, !.pinger = IF e \in legacy THEN @ ELSE StaysPinger(e, f)]
  <1>1. PICK q \in Seq(HbFrame) : q = wire[e] /\ Len(q) <= MaxQueue /\ q # <<>>
    BY DEF OnMessage, HbInv, Queue
  <1>2. f \in HbFrame
    BY <1>1
  <1>3. Tail(q) \in Seq(HbFrame) /\ Len(Tail(q)) = Len(q) - 1 /\ Len(q) \in Nat
    BY <1>1
  <1>4. Tail(wire[e]) \in Queue
    BY <1>1, <1>3, HbConstants DEF Queue
  <1>5. beat[e] \in BeatType
    BY DEF HbInv
  <1>6. b \in BeatType
    BY <1>5, HbConstants DEF BeatType
  <1>7. pong \in HbFrame
    BY DEF HbFrame
  <1>8. StaysPinger(e, f) \in BOOLEAN
    <2>1. beat[e].pinger \in BOOLEAN
      BY <1>5 DEF BeatType
    <2> QED
      BY <2>1 DEF StaysPinger
  <1>9. yields \in BeatType
    <2>1. PICK s \in BOOLEAN : s = StaysPinger(e, f)
      BY <1>8
    <2>2. PICK c \in BeatType : c = b
      BY <1>6
    <2>3. yields = [c EXCEPT !.rxPing = 0, !.pinger = IF e \in legacy THEN @ ELSE s]
      BY <2>1, <2>2
    <2>4. c.pinger \in BOOLEAN /\ 0 \in 0..PingAge
      BY HbConstants DEF BeatType
    <2> QED
      BY <2>3, <2>4 DEF BeatType
  <1>10. UNCHANGED <<legacy, due, asleep, sleeps, cut>>
    BY DEF OnMessage
  <1>11. \/ /\ Len(wire[Far(e)]) < MaxQueue \/ cut
            /\ wire' = [OnWire(e, pong) EXCEPT ![e] = Tail(@)]
            /\ beat' = [beat EXCEPT ![e] = yields]
         \/ wire' = [wire EXCEPT ![e] = Tail(@)] /\ beat' = [beat EXCEPT ![e] = b]
    BY DEF OnMessage
  <1> HIDE DEF f, pong, b, yields
  <1>12. beat' \in [End -> BeatType]
    BY <1>6, <1>9, <1>11 DEF HbInv
  <1>13. wire' \in [End -> Queue]
    <2>1. CASE wire' = [wire EXCEPT ![e] = Tail(@)]
      BY <1>4, <2>1 DEF HbInv
    <2>2. CASE (Len(wire[Far(e)]) < MaxQueue \/ cut) /\ wire' = [OnWire(e, pong) EXCEPT ![e] = Tail(@)]
      <3>1. OnWire(e, pong) \in [End -> Queue]
        BY <1>7, <2>2, OnWireTyped
      <3>2. OnWire(e, pong)[e] = wire[e]
        BY FarEnd DEF OnWire, HbInv
      <3> QED
        BY <1>4, <2>2, <3>1, <3>2
    <2> QED
      BY <1>11, <2>1, <2>2
  <1> QED
    BY <1>10, <1>12, <1>13 DEF HbInv

LEMMA HbTimeKeeps ==
  ASSUME HbInv, HbTime
  PROVE  HbInv'
  <1>1. \A e \in End : [beat[e] EXCEPT !.rxPing = Aged(@, PingAge), !.tx = Aged(@, TxAge), !.rx = Aged(@, DeadAge + 1)] \in BeatType
    <2> SUFFICES ASSUME NEW e \in End
                 PROVE  [beat[e] EXCEPT !.rxPing = Aged(@, PingAge), !.tx = Aged(@, TxAge), !.rx = Aged(@, DeadAge + 1)] \in BeatType
      OBVIOUS
    <2>1. PICK b \in BeatType : b = beat[e]
      BY DEF HbInv
    <2>2. b.rxPing \in 0..PingAge /\ b.tx \in 0..TxAge /\ b.rx \in 0..(DeadAge + 1)
      BY DEF BeatType
    <2>3. /\ Aged(b.rxPing, PingAge) \in 0..PingAge /\ Aged(b.tx, TxAge) \in 0..TxAge
          /\ Aged(b.rx, DeadAge + 1) \in 0..(DeadAge + 1)
      BY <2>2, HbConstants, AgedTyped
    <2> QED
      BY <2>1, <2>3 DEF BeatType
  <1>2. beat' \in [End -> BeatType]
    BY <1>1 DEF HbTime
  <1> QED
    BY <1>2 DEF HbTime, HbInv

LEMMA HbStep == HbInv /\ [HbNext]_hbVars => HbInv'
  <1> SUFFICES ASSUME HbInv, [HbNext]_hbVars PROVE HbInv'
    OBVIOUS
  <1>1. ASSUME NEW e \in End, ReapTick(e) PROVE HbInv'
    <2>1. PICK b \in BeatType : b = beat[e]
      BY DEF HbInv
    <2>2. PICK s \in {"open", "stale", "gone"} : beat' = [beat EXCEPT ![e].st = s]
      BY <1>1 DEF ReapTick
    <2>3. [b EXCEPT !.st = s] \in BeatType
      BY DEF BeatType
    <2>4. beat' \in [End -> BeatType]
      BY <2>1, <2>2, <2>3 DEF HbInv
    <2>5. wire' \in [End -> Queue] /\ due' \in [End -> SUBSET {"beat", "reap"}]
      BY <1>1, HbConstants DEF ReapTick, HbInv
    <2> QED
      BY <1>1, <2>4, <2>5 DEF ReapTick, HbInv
  <1>2. ASSUME NEW e \in End, Sleep(e) \/ Wake(e) PROVE HbInv'
    BY <1>2, HbConstants DEF Sleep, Wake, HbInv
  <1>3. CASE Cut
    BY <1>3, HbConstants DEF Cut, HbInv
  <1>4. CASE UNCHANGED hbVars
    BY <1>4 DEF hbVars, HbInv
  <1> QED
    BY <1>1, <1>2, <1>3, <1>4, HeartbeatTickKeeps, OnMessageKeeps, HbTimeKeeps DEF HbNext

\* No clock, streak or queue of an end's heartbeat leaves its range, for every
\* schedule of intervals and limits (_heartbeatTick, _pingTick, _reapTick).
THEOREM HeartbeatTypesAlways == HbSpec => []HbTypeOK
  <1>1. HbInv => HbTypeOK
    BY DEF HbInv, HbTypeOK, BeatType, Queue
  <1> QED
    BY <1>1, HbInitHolds, HbStep, PTL DEF HbSpec

-----------------------------------------------------------------------------
(***************************************************************************)
(* The bridge's session.                                                   *)
(***************************************************************************)
Sess == [sock : {"none", "connecting", "open"}, err : BOOLEAN, stopped : BOOLEAN,
         timers : SUBSET Timer, graduated : BOOLEAN, turnOnly : BOOLEAN,
         tries : 0..TurnMaxTries, greet : {"none", "welcome", "hello"}, bound : BOOLEAN,
         authed : BOOLEAN, ready : {"pending", "ok", "rejected"},
         state : {"disconnected", "connecting", "open", "stale", "graduated", "upgrade-required"}]

\* Before connect() there is no socket, no timer and nothing to stop.
BsInv ==
    /\ BsTypeOK
    /\ phase = "idle" => session.sock = "none" /\ ~session.stopped /\ session.timers = {}

LEMMA BsInitHolds == BsInit => BsInv
  <1> SUFFICES ASSUME BsInit PROVE BsInv
    OBVIOUS
  <1>1. 0 \in 0..MeshFloor /\ 0 \in 0..TurnMaxTries
    BY SessionAssumption
  <1>2. session \in Sess
    BY <1>1 DEF BsInit, Sess
  <1>3. session.sock = "none" /\ ~session.stopped /\ session.timers = {}
    BY DEF BsInit
  <1> QED
    BY <1>1, <1>2, <1>3 DEF BsInit, BsInv, BsTypeOK, Sess

LEMMA DisarmTyped ==
  ASSUME NEW r \in Sess, NEW T
  PROVE  Disarm(r, T) \in Sess /\ Disarm(r, T).sock = r.sock /\ Disarm(r, T).stopped = r.stopped
  BY DEF Disarm, Sess

LEMMA ReconnectTyped ==
  ASSUME NEW r \in Sess
  PROVE  ScheduleReconnect(r) \in Sess /\ ScheduleReconnect(r).sock = r.sock
  BY DEF ScheduleReconnect, Sess, Timer

LEMMA OpenSocketTyped ==
  ASSUME NEW r \in Sess
  PROVE  OpenSocket(r) \subseteq Sess
  <1>1. [r EXCEPT !.state = "disconnected"] \in Sess
    BY DEF Sess
  <1>2. [r EXCEPT !.sock = "connecting", !.err = FALSE] \in Sess
    BY DEF Sess
  <1> QED
    BY <1>1, <1>2, ReconnectTyped DEF OpenSocket

LEMMA TurnRefreshTyped ==
  ASSUME NEW r \in Sess
  PROVE  ScheduleTurnRefresh(r) \subseteq Sess /\ \A q \in ScheduleTurnRefresh(r) : q.sock = r.sock
  <1>1. PICK q \in Sess : q = Disarm(r, {"turn", "reply"}) /\ q.sock = r.sock
    BY DisarmTyped
  <1>2. [q EXCEPT !.timers = @ \cup {"turn"}] \in Sess /\ [q EXCEPT !.timers = @ \cup {"turn"}].sock = q.sock
    BY DEF Sess, Timer
  <1> QED
    BY <1>1, <1>2 DEF ScheduleTurnRefresh

\* A close leaves a session without a socket.
LEMMA ClosedTypedWith ==
  ASSUME BsTypeOK, NEW r \in Sess, NEW code, ClosedWith(r, code)
  PROVE  session' \in Sess /\ session'.sock = "none" /\ hellos' \subseteq Hello /\ request' = FALSE
  <1> DEFINE q == [r EXCEPT !.bound = FALSE, !.authed = FALSE, !.greet = "none",
                       !.ready = IF @ = "pending" THEN "rejected" ELSE @]
  <1>1. q \in Sess
    BY DEF Sess
  <1> HIDE DEF q
  <1>2. AfterClose(q, code) \in Sess
    <2>1. [q EXCEPT !.stopped = TRUE, !.state = "upgrade-required"] \in Sess
      BY <1>1 DEF Sess
    <2>2. [q EXCEPT !.graduated = TRUE, !.state = "graduated", !.timers = @ \cup {"watch"}] \in Sess
      BY <1>1 DEF Sess, Timer
    <2>3. [q EXCEPT !.state = "disconnected"] \in Sess
      BY <1>1 DEF Sess
    <2>4. ScheduleReconnect([q EXCEPT !.state = "disconnected"]) \in Sess
      BY <2>3, ReconnectTyped
    <2> QED
      BY <2>1, <2>2, <2>4 DEF AfterClose
  <1>3. PICK d \in Sess : d = Disarm(AfterClose(q, code), {"fallback"})
    BY <1>2, DisarmTyped
  <1>4. session' = [d EXCEPT !.sock = "none", !.err = FALSE, !.turnOnly = FALSE]
    BY <1>3 DEF ClosedWith, q
  <1>5. session' \in Sess /\ session'.sock = "none"
    BY <1>4 DEF Sess
  <1>6. hellos' = {[h EXCEPT !.cur = FALSE] : h \in hellos} /\ request' = FALSE
    BY DEF ClosedWith
  <1>7. \A h \in hellos : [h EXCEPT !.cur = FALSE] \in Hello
    BY DEF BsTypeOK, Hello
  <1> QED
    BY <1>5, <1>6, <1>7

LEMMA DisarmedCloses ==
  ASSUME BsTypeOK, NEW s \in Sess, NEW T, NEW code, ClosedWith(Disarm(s, T), code)
  PROVE  session' \in Sess /\ session'.sock = "none" /\ hellos' \subseteq Hello /\ request' = FALSE
  <1>1. PICK r \in Sess : r = Disarm(s, T)
    BY DisarmTyped
  <1>2. ClosedWith(r, code)
    BY <1>1
  <1> QED
    BY <1>2, ClosedTypedWith

LEMMA CredentialDial ==
  ASSUME NEW w \in Sess, NEW only \in BOOLEAN
  PROVE  [w EXCEPT !.turnOnly = only, !.graduated = FALSE, !.state = "connecting"] \in Sess
  BY DEF Sess

\* A step of a session that has begun.
LEMMA Begun ==
  ASSUME session' \in Sess, hellos' \subseteq Hello, request' \in BOOLEAN, bsMesh' \in 0..MeshFloor,
         phase' \in {"transport", "mesh", "up", "stopping", "down", "threw"}
  PROVE  BsInv'
  BY DEF BsInv, BsTypeOK, Sess

Dull == UNCHANGED <<hellos, request, bsMesh>>
Phases == {"idle", "transport", "mesh", "up", "stopping", "down", "threw"}

\* A step of the socket or a timer, which no session has before connect().
LEMMA SessionMoves ==
  ASSUME BsInv, UNCHANGED <<hellos, request, phase, bsMesh>>, session' \in Sess,
         session.sock # "none" \/ session.timers # {} \/ phase = "up"
  PROVE  BsInv'
  BY DEF BsInv, BsTypeOK, Sess

\* A dial starts from a session that is not stopped.
Honest == session.stopped => ~(session.sock = "none" /\ session'.sock = "connecting")

LEMMA BsFacts == BsInv => session \in Sess /\ phase \in Phases /\ hellos \subseteq Hello /\ request \in BOOLEAN /\ bsMesh \in 0..MeshFloor
  BY DEF BsInv, BsTypeOK, Sess, Phases

\* A session whose socket was closed, by itself or by ReconnectNow.
LEMMA ClosedKeeps ==
  ASSUME BsInv, NEW r \in Sess, NEW T, NEW code, ClosedWith(Disarm(r, T), code),
         phase' \in Phases \ {"idle"}, UNCHANGED bsMesh
  PROVE  BsInv' /\ Honest
  <1>1. session' \in Sess /\ session'.sock = "none" /\ hellos' \subseteq Hello /\ request' = FALSE
    BY DisarmedCloses DEF BsInv
  <1> QED
    BY <1>1, Begun, BsFacts DEF Phases, Honest

LEMMA SocketCloseKeeps == BsInv /\ SocketClose => BsInv' /\ Honest
  <1> SUFFICES ASSUME BsInv, SocketClose PROVE BsInv' /\ Honest
    OBVIOUS
  <1> PICK r \in Sess : r = session
    BY BsFacts
  <1>1. PICK code \in {4426, 4200, 1006} :
          /\ session.sock # "none"
          /\ ClosedWith(Disarm(r, {"handshake"}), code)
    BY DEF SocketClose
  <1>2. phase \in Phases \ {"idle"} /\ phase' \in {phase, "threw"} /\ UNCHANGED bsMesh
    BY <1>1, BsFacts DEF SocketClose, BsInv
  <1> QED
    BY <1>1, <1>2, ClosedKeeps DEF Phases

LEMMA ReconnectNowKeeps == BsInv /\ ReconnectNow => BsInv' /\ Honest
  <1> SUFFICES ASSUME BsInv, ReconnectNow PROVE BsInv' /\ Honest
    OBVIOUS
  <1> PICK r \in Sess : r = session
    BY BsFacts
  <1>1. PICK d \in Sess : d = Disarm(r, {"reconnect"}) /\ d.sock = r.sock
    BY DisarmTyped
  <1>2. ~session.stopped /\ phase = "up" /\ UNCHANGED <<phase, bsMesh>>
    BY DEF ReconnectNow
  <1>3. \/ ClosedWith(Disarm(r, {"reconnect"}), 1006)
        \/ /\ session' \in OpenSocket([d EXCEPT !.state = "connecting"]) \cup {d}
           /\ UNCHANGED <<hellos, request>>
    BY <1>1 DEF ReconnectNow
  <1>4. CASE ClosedWith(Disarm(r, {"reconnect"}), 1006)
    BY <1>2, <1>4, ClosedKeeps DEF Phases
  <1>5. CASE session' \in OpenSocket([d EXCEPT !.state = "connecting"]) \cup {d} /\ UNCHANGED <<hellos, request>>
    <2>1. [d EXCEPT !.state = "connecting"] \in Sess
      BY DEF Sess
    <2>2. session' \in Sess
      BY <1>5, <2>1, OpenSocketTyped
    <2> QED
      BY <1>2, <1>5, <2>2, Begun, BsFacts DEF Honest
  <1> QED
    BY <1>3, <1>4, <1>5

LEMMA SocketKeeps ==
  ASSUME BsInv, Start \/ SocketOpen \/ SocketError \/ Fallback \/ SocketClose
  PROVE  BsInv' /\ Honest
  <1> PICK r \in Sess : r = session
    BY BsFacts
  <1>1. CASE Start
    <2>1. session' \in OpenSocket(r) /\ phase' = "transport" /\ Dull /\ ~session.stopped
      BY <1>1 DEF Start, Dull, BsInv
    <2>2. session' \in Sess
      BY <2>1, OpenSocketTyped
    <2> QED
      BY <2>1, <2>2, Begun, BsFacts DEF Dull, Honest
  <1>2. CASE SocketOpen
    <2> DEFINE p == [r EXCEPT !.sock = "open", !.graduated = FALSE, !.greet = "none", !.state = "connecting"]
    <2>1. p \in Sess /\ p.sock = "open"
      BY DEF Sess
    <2> HIDE DEF p
    <2>2. PICK q \in Sess : q = Disarm(p, {"watch"}) /\ q.sock = "open"
      BY <2>1, DisarmTyped
    <2>3. [q EXCEPT !.timers = @ \cup {"handshake"}] \in Sess /\ [q EXCEPT !.timers = @ \cup {"handshake"}].sock = "open"
      BY <2>2 DEF Sess, Timer
    <2>4. /\ session.sock = "connecting" /\ UNCHANGED <<hellos, request, phase, bsMesh>>
          /\ session' = q \/ session' = [q EXCEPT !.timers = @ \cup {"handshake"}]
      BY <1>2, <2>2 DEF SocketOpen, p
    <2> QED
      BY <2>2, <2>3, <2>4, SessionMoves DEF Honest
  <1>3. CASE SocketError
    <2>1. /\ session.sock = "connecting" /\ UNCHANGED <<hellos, request, phase, bsMesh>>
          /\ session' = [r EXCEPT !.err = TRUE, !.timers = @ \cup {"fallback"}]
      BY <1>3 DEF SocketError
    <2>2. session' \in Sess
      BY <2>1 DEF Sess, Timer
    <2> QED
      BY <2>1, <2>2, SessionMoves DEF Honest
  <1>4. CASE Fallback
    <2>1. PICK d \in Sess : d = Disarm(r, {"fallback"}) /\ d.sock = r.sock
      BY DisarmTyped
    <2>2. [d EXCEPT !.sock = "none", !.state = "disconnected"] \in Sess /\ [d EXCEPT !.sock = "none", !.state = "disconnected"].sock = "none"
      BY DEF Sess
    <2>3. AfterFallback(d) \in Sess /\ (AfterFallback(d).sock = d.sock \/ AfterFallback(d).sock = "none")
      BY <2>2, ReconnectTyped DEF AfterFallback
    <2>4. /\ "fallback" \in session.timers /\ UNCHANGED <<hellos, request, phase, bsMesh>>
          /\ session' = AfterFallback(d)
      BY <1>4, <2>1 DEF Fallback
    <2> QED
      BY <2>1, <2>3, <2>4, SessionMoves DEF Honest
  <1>5. CASE SocketClose
    BY <1>5, SocketCloseKeeps
  <1> QED
    BY <1>1, <1>2, <1>3, <1>4, <1>5

LEMMA FramesKeep ==
  ASSUME BsInv, Welcome \/ TurnFrame \/ BridgeHello \/ Stale \/ Pong \/ Send \/ Settle
  PROVE  BsInv' /\ Honest
  <1> PICK r \in Sess : r = session
    BY BsFacts
  <1>1. CASE Welcome
    <2>1. [r EXCEPT !.greet = "welcome"] \in Sess /\ [r EXCEPT !.greet = "welcome"].sock = r.sock
      BY DEF Sess
    <2>2. session' \in ScheduleTurnRefresh([r EXCEPT !.greet = "welcome"])
      BY <1>1 DEF Welcome
    <2>3. session' \in Sess /\ session'.sock = r.sock
      BY <2>1, <2>2, TurnRefreshTyped
    <2>4. session.sock = "open" /\ UNCHANGED <<hellos, request, phase, bsMesh>>
      BY <1>1 DEF Welcome
    <2> QED
      BY <2>3, <2>4, SessionMoves DEF Honest
  <1>2. CASE TurnFrame
    <2>1. session.sock = "open" /\ UNCHANGED <<hellos, request, phase, bsMesh>> /\ session' \in ScheduleTurnRefresh(r)
      BY <1>2 DEF TurnFrame
    <2>2. session' \in Sess /\ session'.sock = r.sock
      BY <2>1, TurnRefreshTyped
    <2> QED
      BY <2>1, <2>2, SessionMoves DEF Honest
  <1>3. CASE BridgeHello
    <2>1. /\ session.sock = "open" /\ UNCHANGED <<request, phase, bsMesh>>
          /\ session' = [r EXCEPT !.greet = "hello"]
          /\ hellos' \subseteq hellos \cup {[cur |-> TRUE, stage |-> "verify"]}
      BY <1>3 DEF BridgeHello
    <2>2. session' \in Sess /\ session'.sock = r.sock
      BY <2>1 DEF Sess
    <2>3. hellos' \subseteq Hello
      <3>1. [cur |-> TRUE, stage |-> "verify"] \in Hello
        BY DEF Hello
      <3> QED
        BY <2>1, <3>1, BsFacts
    <2>4. phase # "idle"
      BY <2>1 DEF BsInv
    <2> QED
      BY <2>1, <2>2, <2>3, <2>4, Begun, BsFacts DEF Phases, Honest
  <1>4. CASE Stale \/ Pong
    <2>1. /\ session.sock = "open" /\ UNCHANGED <<hellos, request, phase, bsMesh>>
          /\ session' = [r EXCEPT !.state = "stale"] \/ session' = [r EXCEPT !.state = "open"]
      BY <1>4 DEF Stale, Pong
    <2>2. session' \in Sess
      BY <2>1 DEF Sess
    <2> QED
      BY <2>1, <2>2, SessionMoves DEF Honest
  <1>5. CASE Send \/ Settle
    BY <1>5 DEF Send, Settle, BsInv, BsTypeOK, Honest
  <1> QED
    BY <1>1, <1>2, <1>3, <1>4, <1>5

LEMMA BridgeHelloKeeps ==
  ASSUME BsInv, NEW h \in hellos, HelloVerified(h) \/ HelloAcked(h)
  PROVE  BsInv' /\ Honest
  <1> PICK r \in Sess : r = session
    BY BsFacts
  <1>1. /\ UNCHANGED <<request, phase, bsMesh>>
        /\ hellos' \subseteq hellos \cup {[h EXCEPT !.stage = "ack"]}
        /\ \/ session' = r
           \/ session' = [r EXCEPT !.state = "upgrade-required"]
           \/ session' = [r EXCEPT !.bound = TRUE]
           \/ session' = [r EXCEPT !.authed = TRUE, !.state = "open", !.ready = IF @ = "pending" THEN "ok" ELSE @]
    BY DEF HelloVerified, HelloAcked
  <1>2. [h EXCEPT !.stage = "ack"] \in Hello
    BY BsFacts DEF Hello
  <1>3. session' \in Sess /\ session'.sock = r.sock /\ session'.stopped = r.stopped /\ session'.timers = r.timers
    BY <1>1 DEF Sess
  <1>4. hellos' \subseteq Hello
    BY <1>1, <1>2, BsFacts
  <1> QED
    BY <1>1, <1>3, <1>4 DEF BsInv, BsTypeOK, Sess, Honest

LEMMA TimersKeep ==
  ASSUME BsInv, ReconnectTimer \/ GraduationWatch \/ TurnTimer \/ ReplyTimer \/ ReconnectNow
  PROVE  BsInv' /\ Honest
  <1> PICK r \in Sess : r = session
    BY BsFacts
  <1>1. CASE ReconnectTimer
    <2>1. PICK d \in Sess : d = Disarm(r, {"reconnect"}) /\ d.sock = r.sock /\ d.stopped = r.stopped
      BY DisarmTyped
    <2>2. [d EXCEPT !.state = "connecting"] \in Sess
      BY DEF Sess
    <2>3. /\ "reconnect" \in session.timers /\ UNCHANGED <<hellos, request, phase, bsMesh>>
          /\ session' \in Reconnected(d)
      BY <1>1, <2>1 DEF ReconnectTimer
    <2>4. session' \in Sess /\ (d.stopped => session' = d)
      BY <2>2, <2>3, OpenSocketTyped DEF Reconnected
    <2> QED
      BY <2>1, <2>3, <2>4, SessionMoves DEF Honest
  <1>2. CASE GraduationWatch
    <2>1. PICK d \in Sess : d = Disarm(r, {"watch"}) /\ d.sock = r.sock /\ d.stopped = r.stopped
      BY DisarmTyped
    <2>2. [d EXCEPT !.graduated = FALSE, !.state = "connecting"] \in Sess
      BY DEF Sess
    <2>3. /\ "watch" \in session.timers /\ UNCHANGED <<hellos, request, phase, bsMesh>>
          /\ session' \in IF d.stopped THEN {d} ELSE OpenSocket([d EXCEPT !.graduated = FALSE, !.state = "connecting"])
      BY <1>2, <2>1 DEF GraduationWatch
    <2>4. session' \in Sess /\ (d.stopped => session' = d)
      BY <2>2, <2>3, OpenSocketTyped
    <2> QED
      BY <2>1, <2>3, <2>4, SessionMoves DEF Honest
  <1>3. CASE TurnTimer
    <2>1. PICK d \in Sess : d = Disarm(r, {"turn"}) /\ d.sock = r.sock /\ d.stopped = r.stopped
      BY DisarmTyped
    <2>2. PICK w \in Sess : w = Disarm(d, {"watch"})
      BY DisarmTyped
    <2>3. PICK only \in BOOLEAN : only = (d.graduated /\ bsMesh >= MeshFloor)
      BY DEF Sess
    <2>4. "turn" \in session.timers /\ UNCHANGED <<hellos, request, phase, bsMesh>>
      BY <1>3 DEF TurnTimer
    <2>5. \/ d.stopped /\ session' = d
          \/ ~d.stopped /\ d.sock = "open" /\ session' = [d EXCEPT !.tries = 1, !.timers = @ \cup {"reply"}]
          \/ ~d.stopped /\ session' \in OpenSocket([w EXCEPT !.turnOnly = only, !.graduated = FALSE, !.state = "connecting"])
      BY <1>3, <2>1, <2>2, <2>3 DEF TurnTimer
    <2>6. [d EXCEPT !.tries = 1, !.timers = @ \cup {"reply"}] \in Sess
      <3>1. 1 \in 0..TurnMaxTries
        BY SessionAssumption
      <3> QED
        BY <2>1, <3>1 DEF Sess, Timer
    <2>7. [w EXCEPT !.turnOnly = only, !.graduated = FALSE, !.state = "connecting"] \in Sess
      BY <2>2, <2>3, CredentialDial
    <2>8. session' \in Sess /\ (d.stopped => session' = d)
      BY <2>5, <2>6, <2>7, OpenSocketTyped
    <2> QED
      BY <2>1, <2>4, <2>8, SessionMoves DEF Honest
  <1>4. CASE ReplyTimer
    <2>1. PICK d \in Sess : d = Disarm(r, {"reply"}) /\ d.sock = r.sock /\ d.stopped = r.stopped
      BY DisarmTyped
    <2>2. /\ "reply" \in session.timers /\ UNCHANGED <<hellos, request, phase, bsMesh>>
          /\ session' = IF d.stopped \/ d.sock # "open" \/ d.tries >= TurnMaxTries THEN d
                        ELSE [d EXCEPT !.tries = @ + 1, !.timers = @ \cup {"reply"}]
      BY <1>4, <2>1 DEF ReplyTimer
    <2>3. d.tries \in 0..TurnMaxTries
      BY DEF Sess
    <2>4. d.tries < TurnMaxTries => d.tries + 1 \in 0..TurnMaxTries
      BY <2>3, SessionAssumption
    <2>5. CASE session' = d
      BY <2>1, <2>2, <2>5, SessionMoves DEF Honest
    <2>6. CASE session' # d
      <3>1. d.tries + 1 \in 0..TurnMaxTries /\ session' = [d EXCEPT !.tries = @ + 1, !.timers = @ \cup {"reply"}]
        BY <2>2, <2>3, <2>4, <2>6, SessionAssumption
      <3>2. session' \in Sess /\ session'.sock = d.sock
        BY <3>1 DEF Sess, Timer
      <3> QED
        BY <2>1, <2>2, <3>2, SessionMoves DEF Honest
    <2> QED
      BY <2>5, <2>6
  <1>5. CASE ReconnectNow
    BY <1>5, ReconnectNowKeeps
  <1> QED
    BY <1>1, <1>2, <1>3, <1>4, <1>5

LEMMA StopEndCloses == BsInv /\ StopEnd /\ session.sock # "none" => BsInv' /\ Honest
  <1> SUFFICES ASSUME BsInv, StopEnd, session.sock # "none" PROVE BsInv' /\ Honest
    OBVIOUS
  <1> PICK r \in Sess : r = session
    BY BsFacts
  <1>1. ClosedWith(r, 1005) /\ phase' = "down" /\ bsMesh' = 0
    BY DEF StopEnd
  <1>2. 0 \in 0..MeshFloor
    BY SessionAssumption
  <1>3. session' \in Sess /\ session'.sock = "none" /\ hellos' \subseteq Hello /\ request' = FALSE
    BY <1>1, ClosedTypedWith DEF BsInv
  <1> QED
    BY <1>1, <1>2, <1>3, Begun, BsFacts DEF Honest

LEMMA ConnectKeeps ==
  ASSUME BsInv, Handshaken \/ HandshakeTimeout \/ MeshGate \/ Disconnect \/ StopEnd \/ MeshChange
  PROVE  BsInv' /\ Honest
  <1> PICK r \in Sess : r = session
    BY BsFacts
  <1>0. StopBegun(r) \in Sess /\ StopBegun(r).sock = r.sock
    BY DEF StopBegun, Sess
  <1>1. CASE Handshaken
    <2>1. PICK d \in Sess : d = Disarm(r, {"handshake"}) /\ d.sock = r.sock
      BY DisarmTyped
    <2>2. session' = d /\ phase' = "mesh" /\ Dull
      BY <1>1, <2>1 DEF Handshaken, Dull
    <2> QED
      BY <2>1, <2>2, Begun, BsFacts DEF Dull, Honest
  <1>2. CASE HandshakeTimeout
    <2>1. PICK d \in Sess : d = Disarm(r, {"handshake"}) /\ d.sock = r.sock
      BY DisarmTyped
    <2>2. session' = [d EXCEPT !.ready = "rejected"] /\ phase' \in {phase, "threw"} /\ Dull /\ "handshake" \in session.timers
      BY <1>2, <2>1 DEF HandshakeTimeout, Dull
    <2>3. session' \in Sess /\ session'.sock = r.sock
      BY <2>1, <2>2 DEF Sess
    <2>4. phase # "idle"
      BY <2>2 DEF BsInv
    <2> QED
      BY <2>2, <2>3, <2>4, Begun, BsFacts DEF Dull, Phases, Honest
  <1>3. CASE MeshGate \/ Disconnect
    <2>1. phase' \in {"up", "stopping"} /\ (session' = r \/ session' = StopBegun(r)) /\ Dull
      BY <1>3 DEF MeshGate, Disconnect, Dull
    <2> QED
      BY <1>0, <2>1, Begun, BsFacts DEF Dull, Honest
  <1>4. CASE StopEnd
    <2>1. phase' = "down" /\ bsMesh' = 0
      BY <1>4 DEF StopEnd
    <2>2. 0 \in 0..MeshFloor
      BY SessionAssumption
    <2>3. CASE session.sock = "none"
      <3>1. session' = [r EXCEPT !.state = "disconnected"] /\ UNCHANGED <<hellos, request>>
        BY <1>4, <2>3 DEF StopEnd
      <3>2. session' \in Sess /\ session'.sock = r.sock
        BY <3>1 DEF Sess
      <3> QED
        BY <2>1, <2>2, <3>1, <3>2, Begun, BsFacts DEF Honest
    <2>4. CASE session.sock # "none"
      BY <1>4, <2>4, StopEndCloses
    <2> QED
      BY <2>3, <2>4
  <1>5. CASE MeshChange
    BY <1>5 DEF MeshChange, BsInv, BsTypeOK, Honest
  <1> QED
    BY <1>1, <1>2, <1>3, <1>4, <1>5

LEMMA BsStep == BsInv /\ [BsNext]_bsVars => BsInv' /\ Honest
  <1> SUFFICES ASSUME BsInv, [BsNext]_bsVars PROVE BsInv' /\ Honest
    OBVIOUS
  <1>1. CASE UNCHANGED bsVars
    BY <1>1 DEF bsVars, BsInv, BsTypeOK, Honest
  <1> QED
    BY <1>1, SocketKeeps, FramesKeep, BridgeHelloKeeps, TimersKeep, ConnectKeeps DEF BsNext

\* The session keeps its types, whatever fails or closes when.
THEOREM SessionTypesAlways == BsSpec => []BsTypeOK
  <1>1. BsInv => BsTypeOK
    BY DEF BsInv
  <1> QED
    BY <1>1, BsInitHolds, BsStep, PTL DEF BsSpec

\* A stopped transport never dials again, although timers armed before, or during
\* the awaited stop, still fire (_scheduleReconnect, openSocket, stop).
THEOREM NoDialAfterStopAlways == BsSpec => NoDialAfterStop
  <1>1. BsInv /\ [BsNext]_bsVars => (session.stopped => ~(session.sock = "none" /\ session'.sock = "connecting"))
    BY BsStep DEF Honest
  <1>2. BsInv /\ [BsNext]_bsVars => BsInv'
    BY BsStep
  <1> QED
    BY <1>1, <1>2, BsInitHolds, PTL DEF BsSpec, NoDialAfterStop

-----------------------------------------------------------------------------
(***************************************************************************)
(* The compositions: a step of one is a step of a component or of none.     *)
(***************************************************************************)
\* Every variable of the merge and of the channel stays in its type, whichever
\* of the two moves (RootMerge, MeshManager).
THEOREM PairsTypes == PairsSpec => []PairsTypeOK
  <1>1. PairsInit => Init /\ MpInit
    BY DEF PairsInit
  <1>2. [PairsNext]_pairsVars => [Next]_vars /\ [MpNext]_mpVars
    BY DEF PairsNext, pairsVars
  <1>3. TypeOK /\ MpTypeOK => PairsTypeOK
    BY DEF PairsTypeOK
  <1> QED
    BY <1>1, <1>2, <1>3, MergeTypes, PairTypesAlways, PTL DEF PairsSpec, Spec, MpSpec

\* Every variable of the merge, the heartbeat, the bridge's session and the kills
\* stays in its type, whichever of them moves and whatever the scheduler favours.
THEOREM LiveTypes == LiveSpec => []LiveTypeOK
  <1>1. LiveInit => Init /\ HbInit /\ BsInit /\ KiInit
    BY DEF LiveInit
  <1>2. [LiveNext]_liveVars => [Next]_vars /\ [HbNext]_hbVars /\ [BsNext]_bsVars /\ [KiNext]_kiVars
    BY DEF LiveNext, liveVars
  <1>3. TypeOK /\ HbTypeOK /\ BsTypeOK /\ KiTypeOK => LiveTypeOK
    BY DEF LiveTypeOK
  <1> QED
    BY <1>1, <1>2, <1>3, MergeTypes, HeartbeatTypesAlways, SessionTypesAlways, KillTypesAlways, PTL
       DEF LiveSpec, Spec, HbSpec, BsSpec, KiSpec
=============================================================================
