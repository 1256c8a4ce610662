--------------------------- MODULE PeerDialProofs ---------------------------
(***************************************************************************)
(* One channel per identity, the table of marks and the attempt guard, for   *)
(* every number of identities, channels and dials and every setting.        *)
(***************************************************************************)
EXTENDS PeerDial, TLAPS, SequenceTheorems, WellFoundedInduction

ChanType == [id : Id, handle : Handle, role : {"offerer", "answerer"}, st : {"negotiating", "open", "gone"}]

\* What is known of the channels and the dials under way.
LinkType ==
    /\ chan \in [Chan -> ChanType \cup {NoChan}]
    /\ route \in [Id -> Chan \cup {0}]
    /\ \A o \in opening : o.id \in Id

LinkInv == LinkType /\ OneChannel

\* A channel that has been used keeps its identity and its type when its state
\* changes; one that has not been used is not open.
LEMMA ChanFacts ==
  ASSUME LinkType, NEW c \in Chan
  PROVE  /\ chan[c].st # "free" => chan[c] \in ChanType /\ chan[c].id \in Id
         /\ chan[c].st \in {"free", "negotiating", "open", "gone"}
  BY DEF LinkType, ChanType, NoChan

LEMMA LinkInit == Init => LinkInv
  BY DialAssumption DEF Init, LinkInv, LinkType, OneChannel, NoChan, Chan

\* A new channel takes the place of a free one and binds nothing.
LEMMA StartedKeeps ==
  ASSUME LinkInv, NEW d \in NextChan, NEW i \in Id, NEW h \in Handle, NEW r \in {"offerer", "answerer"},
         chan' = Started(d, i, h, r), route' = route, \A o \in opening' : o \in opening \/ o.id \in Id
  PROVE  LinkInv'
  <1>1. d \in Chan /\ chan[d].st = "free"
    BY DEF NextChan
  <1>2. chan' = [chan EXCEPT ![d] = [id |-> i, handle |-> h, role |-> r, st |-> "negotiating"]]
    BY DEF Started
  <1>3. LinkType'
    BY <1>1, <1>2 DEF LinkInv, LinkType, ChanType
  <1>4. \A j \in Id : route[j] # 0 => route[j] # d
    BY <1>1 DEF LinkInv, OneChannel, LinkType
  <1>5. OneChannel'
    BY <1>1, <1>2, <1>4 DEF LinkInv, LinkType, OneChannel, Chan
  <1> QED
    BY <1>3, <1>5 DEF LinkInv

\* Retiring a channel that is not bound leaves every binding as it was.
LEMMA RetiredKeeps ==
  ASSUME LinkInv, NEW c \in Chan, chan[c].st = "negotiating",
         chan' = Retired(c), route' = route, opening' = opening
  PROVE  LinkInv'
  <1>1. chan' = [chan EXCEPT ![c] = [chan[c] EXCEPT !.st = "gone"]] /\ chan[c] \in ChanType
    BY ChanFacts DEF LinkInv, LinkType, Retired
  <1>2. LinkType'
    BY <1>1 DEF LinkInv, LinkType, ChanType
  <1>3. OneChannel'
    BY <1>1 DEF LinkInv, LinkType, OneChannel, ChanType, Chan
  <1> QED
    BY <1>2, <1>3 DEF LinkInv

\* The bound channel of an identity goes, and its binding with it.
LEMMA UnboundKeeps ==
  ASSUME LinkInv, NEW i \in Id, route[i] # 0,
         chan' = Retired(route[i]), route' = [route EXCEPT ![i] = 0], opening' = opening
  PROVE  LinkInv'
  <1> DEFINE c == route[i]
  <1>1. c \in Chan /\ chan[c].id = i /\ chan[c].st = "open" /\ chan[c] \in ChanType
    BY ChanFacts DEF LinkInv, LinkType, OneChannel
  <1>2. chan' = [chan EXCEPT ![c] = [chan[c] EXCEPT !.st = "gone"]]
    BY <1>1 DEF LinkInv, LinkType, Retired
  <1>3. LinkType'
    BY <1>1, <1>2 DEF LinkInv, LinkType, ChanType
  <1>4. \A j \in Id : j # i => route[j] # c \/ route[j] = 0
    BY <1>1 DEF LinkInv, OneChannel
  <1>5. OneChannel'
    BY <1>1, <1>2, <1>4 DEF LinkInv, LinkType, OneChannel, ChanType, Chan
  <1> QED
    BY <1>3, <1>5 DEF LinkInv

LEMMA LinkStep == LinkInv /\ [Next]_vars => LinkInv'
  <1> SUFFICES ASSUME LinkInv, [Next]_vars PROVE LinkInv'
    OBVIOUS
  <1>1. ASSUME UNCHANGED <<chan, route>>, \A o \in opening' : o \in opening \/ o.id \in Id
        PROVE  LinkInv'
    BY <1>1 DEF LinkInv, LinkType, OneChannel
  <1>2. ASSUME NEW i \in Id, ConsiderBound(i) \/ Consider(i) PROVE LinkInv'
    BY <1>1, <1>2 DEF ConsiderBound, Consider, linkVars
  <1>3. ASSUME NEW o \in opening, OpenEnd(o) PROVE LinkInv'
    BY <1>1, <1>3 DEF OpenEnd, linkVars
  <1>4. ASSUME NEW o \in opening, Issue(o) PROVE LinkInv'
    <2>1. o.id \in Id
      BY DEF LinkInv, LinkType
    <2>2. PICK d \in NextChan : chan' = Started(d, o.id, "hex", "offerer")
      BY <1>4 DEF Issue
    <2> QED
      BY <1>4, <2>1, <2>2, StartedKeeps DEF Issue, Handle
  <1>5. ASSUME NEW i \in Id, NEW h \in Handle, Inbound(i, h) PROVE LinkInv'
    <2>1. PICK d \in NextChan : chan' = Started(d, i, h, "answerer")
      BY <1>5 DEF Inbound
    <2> QED
      BY <1>5, <2>1, StartedKeeps DEF Inbound, kernelVars
  <1>6. ASSUME NEW c \in Chan, Retry(c) PROVE LinkInv'
    <2>1. chan[c].st = "negotiating" /\ chan[c] \in ChanType
      BY <1>6, ChanFacts DEF Retry, LinkInv
    <2>2. PICK d \in NextChan :
             chan' = [Started(d, chan[c].id, chan[c].handle, "offerer") EXCEPT ![c].st = "gone"]
      BY <1>6 DEF Retry
    <2>3. d \in Chan /\ chan[d].st = "free" /\ d # c
      BY <2>1, <2>2 DEF NextChan
    <2>4. chan' = [x \in Chan |-> IF x = c THEN [chan[c] EXCEPT !.st = "gone"]
                                  ELSE IF x = d THEN [id |-> chan[c].id, handle |-> chan[c].handle,
                                                      role |-> "offerer", st |-> "negotiating"]
                                  ELSE chan[x]]
      BY <2>2, <2>3 DEF Started, LinkInv, LinkType
    <2>5. route' = route /\ opening' = opening
      BY <1>6 DEF Retry, kernelVars
    <2>6. LinkType'
      BY <2>1, <2>3, <2>4, <2>5 DEF LinkInv, LinkType, ChanType
    <2>7. \A j \in Id : route[j] # 0 => route[j] \notin {c, d} /\ route[j] \in Chan
      BY <2>1, <2>3 DEF LinkInv, LinkType, OneChannel
    <2>8. OneChannel'
      BY <2>1, <2>3, <2>4, <2>5, <2>7 DEF LinkInv, OneChannel
    <2> QED
      BY <2>6, <2>8 DEF LinkInv
  <1>7. ASSUME NEW c \in Chan, NegotiationFailed(c) \/ Rejected(c) PROVE LinkInv'
    BY <1>7, RetiredKeeps DEF NegotiationFailed, Rejected
  <1>8. ASSUME NEW c \in Chan, OfferDelivered(c) PROVE LinkInv'
    BY <1>1, <1>8 DEF OfferDelivered
  <1>9. ASSUME NEW c \in Chan, NoPath(c) PROVE LinkInv'
    <2>1. route' = route /\ opening' = opening
      BY <1>9 DEF NoPath
    <2>2. CASE chan[c].st = "negotiating"
      BY <1>9, <2>1, <2>2, RetiredKeeps DEF NoPath
    <2>3. CASE chan[c].st # "negotiating"
      BY <1>1, <1>9, <2>1, <2>3 DEF NoPath
    <2> QED
      BY <2>2, <2>3
  <1>10. ASSUME NEW c \in Chan, Bind(c) PROVE LinkInv'
    <2> DEFINE i == chan[c].id
    <2>1. chan[c].st = "negotiating" /\ chan[c] \in ChanType /\ i \in Id /\ route[i] = 0
      BY <1>10, ChanFacts DEF Bind, LinkInv
    <2>2. chan' = [chan EXCEPT ![c] = [chan[c] EXCEPT !.st = "open"]] /\ route' = [route EXCEPT ![i] = c]
          /\ opening' = opening
      BY <1>10 DEF Bind, LinkInv, LinkType
    <2>3. LinkType'
      BY <2>1, <2>2 DEF LinkInv, LinkType, ChanType
    <2>4. OneChannel'
      BY <2>1, <2>2, ChanFacts DEF LinkInv, LinkType, OneChannel, ChanType, Chan
    <2> QED
      BY <2>3, <2>4 DEF LinkInv
  <1>11. ASSUME NEW c \in Chan, BindDuplicate(c) PROVE LinkInv'
    <2> DEFINE i == chan[c].id
               d == route[i]
    <2>1. chan[c].st = "negotiating" /\ chan[c] \in ChanType /\ i \in Id /\ d # 0
      BY <1>11, ChanFacts DEF BindDuplicate, LinkInv
    <2>2. d \in Chan /\ chan[d].st = "open" /\ chan[d].id = i /\ chan[d] \in ChanType /\ d # c
      BY <2>1, ChanFacts DEF LinkInv, LinkType, OneChannel
    <2>3. PICK w \in {c, d} : chan' = AfterDuplicate(c, d, w) /\ route' = [route EXCEPT ![i] = w]
      BY <1>11 DEF BindDuplicate
    <2>4. opening' = opening
      BY <1>11 DEF BindDuplicate, kernelVars
    <2>5. LinkType'
      BY <2>1, <2>2, <2>3, <2>4 DEF LinkInv, LinkType, ChanType, AfterDuplicate
    <2>6. \A j \in Id : j # i /\ route[j] # 0 => route[j] \notin {c, d} /\ route[j] \in Chan
      BY <2>1, <2>2 DEF LinkInv, LinkType, OneChannel
    <2>7. OneChannel'
      <3>1. \A j \in Id : route'[j] # 0 => chan'[route'[j]].id = j /\ chan'[route'[j]].st = "open"
        BY <2>1, <2>2, <2>3, <2>6 DEF LinkInv, LinkType, OneChannel, AfterDuplicate, ChanType
      <3>2. \A x \in Chan : chan'[x].st = "open" => route'[chan'[x].id] = x
        BY <2>1, <2>2, <2>3, ChanFacts DEF LinkInv, LinkType, OneChannel, AfterDuplicate, ChanType
      <3> QED
        BY <3>1, <3>2 DEF OneChannel
    <2> QED
      BY <2>5, <2>7 DEF LinkInv
  <1>12. ASSUME NEW c \in Chan, Died(c) PROVE LinkInv'
    <2>1. chan[c].st = "open" /\ chan[c].id \in Id /\ route[chan[c].id] = c /\ c # 0
      BY <1>12, ChanFacts, DialAssumption DEF Died, LinkInv, Chan
    <2> QED
      BY <1>12, <2>1, UnboundKeeps DEF Died
  <1>13. ASSUME NEW i \in Id, Close(i) PROVE LinkInv'
    BY <1>13, UnboundKeeps DEF Close
  <1>14. ASSUME (\E i \in Id : FreshRecord(i)) \/ Maintain \/ Tick PROVE LinkInv'
    BY <1>1, <1>14 DEF FreshRecord, Maintain, Tick, linkVars
  <1>15. CASE UNCHANGED vars
    BY <1>1, <1>15 DEF vars, kernelVars, linkVars
  <1> QED
    BY <1>2, <1>3, <1>4, <1>5, <1>6, <1>7, <1>8, <1>9, <1>10, <1>11, <1>12, <1>13, <1>14, <1>15 DEF Next

-----------------------------------------------------------------------------
\* "Keep exactly one and tear the other down": whatever the number of channels
\* that negotiate, glare, fail, are retried, rejected or closed, an identity is
\* bound to one open channel of its own and to no other (bindPeer, unbindPeer).
THEOREM OneChannelAlways == Spec => []OneChannel
  <1>1. LinkInv => OneChannel
    BY DEF LinkInv
  <1> QED
    BY LinkInit, LinkStep, <1>1, PTL DEF Spec

-----------------------------------------------------------------------------
(***************************************************************************)
(* The table of marks: lemmas about the values that DeadPeers computes.      *)
(***************************************************************************)
Mark == [attempts : 0..AMax, due : Nat, token : BOOLEAN]

\* The bounds of the table, and its latch.
MarksLatch(M) ==
    /\ Len(M.order) <= MMarks
    /\ Len(M.order) = MMarks => M.full
    /\ M.full => Len(M.order) + MHyst >= MMarks

MarksInv(M) == MarksType(M) /\ MarksLatch(M)

LEMMA MarkNumbers ==
    /\ Backoff \in Nat /\ RRefill \in Nat /\ MHyst \in Nat /\ AMax \in Nat \ {0} /\ MMarks \in Nat \ {0}
    /\ \A n \in 1..AMax : Schedule(n) \in Nat
    /\ Schedule(AMax) = RRefill
  <1>1. AMax >= AMax
    BY MarksAssumption
  <1>2. Schedule(AMax) = RRefill
    BY <1>1, Zenon DEF Schedule
  <1> QED
    BY <1>2, MarksAssumption, ScheduleAssumption

LEMMA ConcatLen ==
  ASSUME NEW S, NEW a \in Seq(S), NEW b \in Seq(S)
  PROVE  Len(a \o b) = Len(a) + Len(b)
  OBVIOUS

LEMMA ConcatAt ==
  ASSUME NEW S, NEW a \in Seq(S), NEW b \in Seq(S), NEW j \in 1..(Len(a) + Len(b))
  PROVE  (a \o b)[j] = IF j <= Len(a) THEN a[j] ELSE b[j - Len(a)]
  OBVIOUS

\* A sequence with its k-th element taken out.
LEMMA RemoveAtFacts ==
  ASSUME NEW S, NEW s \in Seq(S), NEW k \in 1..Len(s)
  PROVE  /\ RemoveAt(s, k) \in Seq(S) /\ Len(RemoveAt(s, k)) = Len(s) - 1
         /\ \A j \in 1..(Len(s) - 1) : RemoveAt(s, k)[j] = IF j < k THEN s[j] ELSE s[j + 1]
  <1> DEFINE a == SubSeq(s, 1, k - 1)
             b == SubSeq(s, k + 1, Len(s))
  <1>0. Len(s) \in Nat /\ k \in Int
    OBVIOUS
  <1>1. a \in Seq(S) /\ Len(a) = k - 1 /\ \A j \in 1..(k - 1) : a[j] = s[j]
    BY <1>0, SubSeqProperties
  <1>2. b \in Seq(S) /\ Len(b) = Len(s) - k /\ \A j \in 1..(Len(s) - k) : b[j] = s[k + j]
    BY <1>0, SubSeqProperties
  <1>3. RemoveAt(s, k) = a \o b
    BY DEF RemoveAt
  <1> HIDE DEF a, b
  <1>4. a \o b \in Seq(S)
    BY <1>1, <1>2
  <1>5. Len(a) + Len(b) = Len(s) - 1
    BY <1>0, <1>1, <1>2
  <1>7. Len(a \o b) = Len(a) + Len(b)
    <2>1. a \in Seq(S) /\ b \in Seq(S)
      BY <1>1, <1>2
    <2> QED
      BY <2>1, ConcatLen
  <1>6. ASSUME NEW j \in 1..(Len(s) - 1)
        PROVE  RemoveAt(s, k)[j] = IF j < k THEN s[j] ELSE s[j + 1]
    <2>1. (a \o b)[j] = IF j <= Len(a) THEN a[j] ELSE b[j - Len(a)]
      BY <1>1, <1>2, <1>5, ConcatAt
    <2>2. CASE j < k
      BY <1>0, <1>1, <1>3, <2>1, <2>2
    <2>3. CASE ~(j < k)
      <3>1. j - (k - 1) \in 1..(Len(s) - k) /\ k + (j - (k - 1)) = j + 1
        BY <1>0, <2>3
      <3>2. b[j - (k - 1)] = s[j + 1]
        BY <1>2, <3>1
      <3> QED
        BY <1>0, <1>1, <1>3, <2>1, <2>3, <3>2
    <2> QED
      BY <2>2, <2>3
  <1> QED
    BY <1>3, <1>4, <1>5, <1>6, <1>7

\* Of a sequence without repetitions the rest has none either, and lacks
\* exactly the element taken out.
LEMMA RemoveAtInjective ==
  ASSUME NEW S, NEW s \in Seq(S), IsInjective(s), NEW k \in 1..Len(s)
  PROVE  /\ IsInjective(RemoveAt(s, k))
         /\ \A x : x \in Range(RemoveAt(s, k)) <=> x \in Range(s) /\ x # s[k]
  <1> DEFINE t == RemoveAt(s, k)
  <1>1. /\ t \in Seq(S) /\ Len(t) = Len(s) - 1
        /\ \A j \in 1..(Len(s) - 1) : t[j] = IF j < k THEN s[j] ELSE s[j + 1]
    BY RemoveAtFacts
  <1> HIDE DEF t
  <1>2. Len(s) \in Nat /\ DOMAIN s = 1..Len(s) /\ DOMAIN t = 1..(Len(s) - 1)
    BY <1>1
  <1>3. \A i, j \in 1..Len(s) : s[i] = s[j] => i = j
    BY <1>2 DEF IsInjective
  <1>4. ASSUME NEW i \in 1..(Len(s) - 1), NEW j \in 1..(Len(s) - 1), t[i] = t[j] PROVE i = j
    <2> DEFINE u(n) == IF n < k THEN n ELSE n + 1
    <2>1. \A n \in 1..(Len(s) - 1) : u(n) \in 1..Len(s) /\ t[n] = s[u(n)]
      BY <1>1, <1>2
    <2>2. u(i) = u(j)
      BY <1>3, <1>4, <2>1
    <2> QED
      BY <1>2, <2>2
  <1>5. ASSUME NEW x \in Range(t) PROVE x \in Range(s) /\ x # s[k]
    <2>1. PICK j \in 1..(Len(s) - 1) : x = t[j]
      BY <1>2 DEF Range
    <2>2. (IF j < k THEN j ELSE j + 1) \in 1..Len(s) /\ (IF j < k THEN j ELSE j + 1) # k
          /\ x = s[IF j < k THEN j ELSE j + 1]
      BY <1>1, <1>2, <2>1
    <2> QED
      BY <1>2, <1>3, <2>2 DEF Range
  <1>6. ASSUME NEW x \in Range(s), x # s[k] PROVE x \in Range(t)
    <2>1. PICK j \in 1..Len(s) : x = s[j] /\ j # k
      BY <1>2, <1>6 DEF Range
    <2>2. CASE j < k
      <3>1. j \in 1..(Len(s) - 1) /\ t[j] = x
        BY <1>1, <1>2, <2>1, <2>2
      <3> QED
        BY <1>2, <3>1 DEF Range
    <2>3. CASE ~(j < k)
      <3>1. j - 1 \in 1..(Len(s) - 1) /\ t[j - 1] = x
        BY <1>1, <1>2, <2>1, <2>3
      <3> QED
        BY <1>2, <3>1 DEF Range
    <2> QED
      BY <2>2, <2>3
  <1>7. IsInjective(t)
    BY <1>2, <1>4 DEF IsInjective
  <1> QED
    BY <1>5, <1>6, <1>7 DEF t

LEMMA MinFacts ==
  ASSUME NEW S \in SUBSET Nat, S # {}
  PROVE  Min(S) \in S
  <1>1. PICK x \in S : \A y \in S : ~(<<y, x>> \in OpToRel(<, Nat))
    BY NatLessThanWellFounded, WFMin
  <1>2. \A y \in S : <<y, x>> \in OpToRel(<, Nat) <=> y < x
    BY Zenon DEF OpToRel
  <1>3. \A y \in S : ~(y < x)
    BY <1>1, <1>2, Zenon
  <1>4. \A y \in S : x <= y
    BY <1>3
  <1> QED
    BY <1>4 DEF Min

\* Taking a mark out of the table.
LEMMA UnmarkedFacts ==
  ASSUME NEW M, MarksType(M), NEW i \in Id
  PROVE  /\ MarksType(Unmarked(M, i)) /\ i \notin Marked(Unmarked(M, i))
         /\ i \in Marked(M) => Len(Unmarked(M, i).order) = Len(M.order) - 1
         /\ i \notin Marked(M) => Unmarked(M, i) = M
         /\ \A j \in Id : j # i => Unmarked(M, i).at[j] = M.at[j]
         /\ \A j \in Id : j # i => (j \in Marked(Unmarked(M, i)) <=> j \in Marked(M))
  <1>1. CASE i \notin Marked(M)
    BY <1>1 DEF Unmarked
  <1>2. CASE i \in Marked(M)
    <2> DEFINE s == M.order
               k == Place(s, i)
               U == Unmarked(M, i)
    <2>1. s \in Seq(Id) /\ IsInjective(s) /\ M.at \in [Id -> Mark] /\ M.full \in BOOLEAN
      BY DEF MarksType, Mark
    <2>2. k \in 1..Len(s) /\ s[k] = i
      <3>1. \E n \in 1..Len(s) : s[n] = i
        BY <1>2, <2>1 DEF Marked, Range
      <3> QED
        BY <3>1 DEF Place
    <2>3. U = [M EXCEPT !.at[i] = NoMark, !.order = RemoveAt(s, k)]
      BY <1>2 DEF Unmarked
    <2> HIDE DEF s, k, U
    <2>4. U.at = [M.at EXCEPT ![i] = NoMark] /\ U.order = RemoveAt(s, k) /\ U.full = M.full
      BY <2>3 DEF MarksType, s
    <2>5. RemoveAt(s, k) \in Seq(Id) /\ Len(RemoveAt(s, k)) = Len(s) - 1
      BY <2>1, <2>2, RemoveAtFacts
    <2>6. IsInjective(RemoveAt(s, k)) /\ \A x : x \in Range(RemoveAt(s, k)) <=> x \in Range(s) /\ x # i
      BY <2>1, <2>2, RemoveAtInjective
    <2>7. NoMark \in Mark /\ NoMark.attempts = 0
      BY MarkNumbers DEF NoMark, Mark
    <2>8. U \in [at : [Id -> Mark], order : Seq(Id), full : BOOLEAN]
      <3>1. U.at \in [Id -> Mark]
        BY <2>1, <2>4, <2>7
      <3>2. U = [at |-> U.at, order |-> U.order, full |-> U.full]
        BY <2>3 DEF MarksType
      <3> QED
        BY <2>1, <2>4, <2>5, <3>1, <3>2
    <2>9. \A j \in Id : j \in Marked(U) <=> j \in Marked(M) /\ j # i
      BY <2>4, <2>6 DEF Marked, s
    <2>10. \A j \in Id : U.at[j].attempts > 0 <=> j \in Marked(U)
      BY <2>1, <2>4, <2>7, <2>9 DEF MarksType
    <2>11. MarksType(U)
      BY <2>4, <2>6, <2>8, <2>10 DEF MarksType, Mark
    <2> QED
      BY <1>2, <2>1, <2>4, <2>5, <2>9, <2>11 DEF U, s
  <1> QED
    BY <1>1, <1>2

\* The latch puts a table within its bound in order again.
LEMMA LatchFacts ==
  ASSUME NEW M, MarksType(M), Len(M.order) <= MMarks
  PROVE  MarksInv(Latch(M)) /\ Latch(M).at = M.at /\ Latch(M).order = M.order
  <1> DEFINE L == Latch(M)
             n == Len(M.order)
  <1>1. n \in Nat /\ M.full \in BOOLEAN /\ MMarks \in Nat /\ MHyst \in Nat
    BY MarkNumbers DEF MarksType
  <1>2. L = [M EXCEPT !.full = IF n >= MMarks THEN TRUE ELSE IF n + MHyst < MMarks THEN FALSE ELSE M.full]
    BY DEF Latch
  <1>3. L.at = M.at /\ L.order = M.order
        /\ L.full = IF n >= MMarks THEN TRUE ELSE IF n + MHyst < MMarks THEN FALSE ELSE M.full
    BY <1>2 DEF MarksType
  <1>4. MarksType(L)
    BY <1>1, <1>2, <1>3 DEF MarksType, Marked
  <1>5. n = MMarks => L.full
    BY <1>1, <1>3
  <1> HIDE DEF L
  <1>6. L.full => n + MHyst >= MMarks
    <2>1. CASE n >= MMarks
      BY <1>1, <2>1
    <2>2. CASE ~(n >= MMarks) /\ n + MHyst < MMarks
      <3>1. L.full = FALSE
        BY <1>3, <2>2, Zenon
      <3> QED
        BY <3>1
    <2>3. CASE ~(n >= MMarks) /\ ~(n + MHyst < MMarks)
      BY <1>1, <2>3
    <2> QED
      BY <2>1, <2>2, <2>3
  <1>7. MarksLatch(L)
    BY <1>1, <1>3, <1>5, <1>6 DEF MarksLatch
  <1> QED
    BY <1>3, <1>4, <1>7 DEF MarksInv, L

\* A mark of i is written: its record changes, the order does not.
Written(M, i, m) == [M EXCEPT !.at[i] = m]

LEMMA WrittenFacts ==
  ASSUME NEW M, MarksType(M), NEW i \in Id, i \in Marked(M), NEW m \in Mark, m.attempts > 0
  PROVE  LET W == Written(M, i, m)
         IN  MarksType(W) /\ W.order = M.order /\ W.full = M.full /\ W.at = [M.at EXCEPT ![i] = m]
  <1> DEFINE W == Written(M, i, m)
  <1>0. W = [M EXCEPT !.at[i] = m]
    BY DEF Written
  <1> HIDE DEF W
  <1>1. W.order = M.order /\ W.full = M.full /\ W.at = [M.at EXCEPT ![i] = m]
    BY <1>0 DEF MarksType
  <1>2. M.at \in [Id -> Mark]
    BY DEF MarksType, Mark
  <1>3. W \in [at : [Id -> Mark], order : Seq(Id), full : BOOLEAN]
    BY <1>0, <1>2 DEF MarksType
  <1>4. \A j \in Id : W.at[j].attempts > 0 <=> j \in Marked(W)
    BY <1>1, <1>2 DEF MarksType, Marked
  <1> QED
    BY <1>1, <1>3, <1>4 DEF MarksType, Mark, W

\* The tables that have room for one mark more.
LEMMA AdmitWriteFacts ==
  ASSUME NEW M, MarksInv(M), NEW R \in AdmitWrite(M)
  PROVE  /\ MarksType(R) /\ Len(R.order) < MMarks
         /\ \A j \in Id : j \in Marked(R) => j \in Marked(M) /\ R.at[j] = M.at[j]
  <1> DEFINE waiting == {k \in 1..Len(M.order) : M.at[M.order[k]].attempts >= AMax /\ ~M.at[M.order[k]].token}
             v == M.order[Min(waiting)]
  <1>1. MarksType(M) /\ Len(M.order) \in Nat /\ Len(M.order) <= MMarks /\ MMarks \in Nat
    BY MarkNumbers DEF MarksInv, MarksType, MarksLatch
  <1>2. CASE Len(M.order) < MMarks
    BY <1>1, <1>2 DEF AdmitWrite
  <1>3. CASE ~(Len(M.order) < MMarks)
    <2>1. waiting # {} /\ R = Unmarked(M, v)
      BY <1>3 DEF AdmitWrite
    <2>2. Min(waiting) \in 1..Len(M.order)
      <3>1. waiting \in SUBSET Nat
        BY <1>1
      <3> HIDE DEF waiting
      <3>2. Min(waiting) \in waiting
        BY <2>1, <3>1, MinFacts
      <3> QED
        BY <3>2 DEF waiting
    <2> HIDE DEF waiting
    <2>3. v \in Id /\ v \in Marked(M)
      BY <1>1, <2>2 DEF MarksType, Marked, Range
    <2> HIDE DEF v
    <2>4. MarksType(R) /\ Len(R.order) = Len(M.order) - 1 /\ v \notin Marked(R)
          /\ \A j \in Id : j # v => R.at[j] = M.at[j] /\ (j \in Marked(R) <=> j \in Marked(M))
      BY <1>1, <2>1, <2>3, UnmarkedFacts
    <2> QED
      BY <1>1, <2>4
  <1> QED
    BY <1>2, <1>3

\* The marks that are exhausted after a step were so before, with what is left
\* of their wait, apart from i, whose wait starts anew.
WaitsKept(M, N, i) ==
    \A j \in Id : Exhausted(N, j) =>
        IF j = i THEN N.at[j].due = RRefill
        ELSE Exhausted(M, j) /\ N.at[j].due = M.at[j].due

\* The record of the n-th failure.
FailMark(n) == [attempts |-> n, due |-> Schedule(n), token |-> FALSE]

LEMMA FailMarkFacts ==
  ASSUME NEW n \in 1..AMax
  PROVE  /\ FailMark(n) \in Mark /\ FailMark(n).attempts = n /\ n > 0
         /\ n >= AMax => FailMark(n).due = RRefill
  <1>1. Schedule(n) \in Nat /\ AMax \in Nat
    BY MarkNumbers
  <1>2. n >= AMax => n = AMax
    BY <1>1
  <1> QED
    BY <1>1, <1>2, MarkNumbers DEF FailMark, Mark

LEMMA FailKeeps ==
  ASSUME NEW M, MarksInv(M), NEW i \in Id
  PROVE  MarksInv(Fail(M, i)) /\ WaitsKept(M, Fail(M, i), i)
  <1> DEFINE n == IF M.at[i].attempts < AMax THEN M.at[i].attempts + 1 ELSE AMax
  <1>0. MarksType(M) /\ M.at \in [Id -> Mark] /\ MarksLatch(M) /\ AMax \in Nat \ {0}
    BY MarkNumbers DEF MarksInv, MarksType, Mark
  <1>1. CASE i \in Marked(M)
    <2>1. n \in 1..AMax
      BY <1>0 DEF Mark
    <2> DEFINE W == Written(M, i, FailMark(n))
    <2>2. Fail(M, i) = W
      BY <1>1 DEF Fail, FailMark, Written
    <2> HIDE DEF n
    <2>3. FailMark(n) \in Mark /\ FailMark(n).attempts = n /\ n > 0 /\ (n >= AMax => FailMark(n).due = RRefill)
      BY <2>1, FailMarkFacts
    <2>4. MarksType(W) /\ W.order = M.order /\ W.full = M.full /\ W.at = [M.at EXCEPT ![i] = FailMark(n)]
      <3>2. FailMark(n).attempts > 0
        BY <2>1, <2>3
      <3> QED
        BY <1>0, <1>1, <2>3, <3>2, WrittenFacts
    <2> HIDE DEF W
    <2>5. MarksInv(W)
      BY <1>0, <2>4 DEF MarksInv, MarksLatch
    <2>6. WaitsKept(M, W, i)
      BY <1>0, <2>3, <2>4 DEF WaitsKept, Exhausted, Marked
    <2> QED
      BY <2>2, <2>5, <2>6
  <1>2. CASE i \notin Marked(M) /\ AdmitWrite(M) = {}
    BY <1>2 DEF Fail, WaitsKept, Exhausted
  <1>3. CASE i \notin Marked(M) /\ AdmitWrite(M) # {}
    <2> DEFINE R == CHOOSE T \in AdmitWrite(M) : TRUE
               A == [R EXCEPT !.order = Append(R.order, i)]
               W == [A EXCEPT !.at[i] = FailMark(1)]
    <2>1. Fail(M, i) = Latch(W)
      BY <1>3 DEF Fail, FailMark
    <2>2. R \in AdmitWrite(M)
      BY <1>3
    <2> HIDE DEF R
    <2>3. /\ MarksType(R) /\ Len(R.order) < MMarks
          /\ \A j \in Id : j \in Marked(R) => j \in Marked(M) /\ R.at[j] = M.at[j]
      BY <2>2, AdmitWriteFacts
    <2>4. i \notin Marked(R)
      BY <1>3, <2>3
    <2>5. R.order \in Seq(Id) /\ IsInjective(R.order) /\ R.at \in [Id -> Mark] /\ Len(R.order) \in Nat
      BY <2>3 DEF MarksType, Mark
    <2>6. FailMark(1) \in Mark /\ FailMark(1).attempts = 1 /\ (1 >= AMax => FailMark(1).due = RRefill)
      <3>1. 1 \in 1..AMax
        BY <1>0
      <3> QED
        BY <3>1, FailMarkFacts
    <2>7. W.order = Append(R.order, i) /\ W.at = [R.at EXCEPT ![i] = FailMark(1)] /\ W.full = R.full
          /\ W = [at |-> W.at, order |-> W.order, full |-> W.full]
      <3>1. R = [at |-> R.at, order |-> R.order, full |-> R.full]
        BY <2>3 DEF MarksType
      <3>2. A = [at |-> R.at, order |-> Append(R.order, i), full |-> R.full]
        BY <3>1
      <3>3. A.at = R.at /\ A.order = Append(R.order, i) /\ A.full = R.full
        BY <3>2
      <3>4. W = [A EXCEPT !.at = [A.at EXCEPT ![i] = FailMark(1)]]
        OBVIOUS
      <3> HIDE DEF A, W
      <3>5. W = [at |-> [R.at EXCEPT ![i] = FailMark(1)], order |-> Append(R.order, i), full |-> R.full]
        BY <3>2, <3>3, <3>4
      <3> QED
        BY <3>5
    <2> HIDE DEF W
    <2>8. /\ W.order \in Seq(Id) /\ Len(W.order) = Len(R.order) + 1
          /\ \A k \in 1..Len(R.order) : W.order[k] = R.order[k]
          /\ W.order[Len(R.order) + 1] = i
      BY <2>5, <2>7
    <2>9. \A j : j \in Range(W.order) <=> j \in Range(R.order) \/ j = i
      BY <2>5, <2>8 DEF Range
    <2>10. IsInjective(W.order)
      <3>1. \A k \in 1..Len(R.order) : R.order[k] # i
        BY <2>4, <2>5 DEF Marked, Range
      <3>2. \A k, l \in 1..Len(R.order) : R.order[k] = R.order[l] => k = l
        BY <2>5 DEF IsInjective
      <3>3. ASSUME NEW k \in 1..Len(W.order), NEW l \in 1..Len(W.order), W.order[k] = W.order[l] PROVE k = l
        <4> DEFINE m == Len(R.order)
        <4>1. (k \in 1..m \/ k = m + 1) /\ (l \in 1..m \/ l = m + 1)
          BY <2>5, <2>8
        <4> QED
          BY <2>8, <3>1, <3>2, <3>3, <4>1
      <3>4. DOMAIN W.order = 1..Len(W.order)
        BY <2>8
      <3> QED
        BY <3>3, <3>4 DEF IsInjective
    <2>11. W.at \in [Id -> Mark]
      BY <2>5, <2>6, <2>7
    <2>12. \A j \in Id : W.at[j].attempts > 0 <=> j \in Marked(W)
      BY <2>3, <2>5, <2>6, <2>7, <2>9 DEF MarksType, Marked
    <2>13. W \in [at : [Id -> Mark], order : Seq(Id), full : BOOLEAN]
      <3>1. W.full \in BOOLEAN
        BY <2>3, <2>7 DEF MarksType
      <3> QED
        BY <2>7, <2>8, <2>11, <3>1
    <2>14. MarksType(W)
      BY <2>10, <2>12, <2>13 DEF MarksType, Mark
    <2>15. Len(W.order) <= MMarks
      BY <2>3, <2>5, <2>8, MarkNumbers
    <2>16. MarksInv(Latch(W)) /\ Latch(W).at = W.at /\ Latch(W).order = W.order
      BY <2>14, <2>15, LatchFacts
    <2>17. WaitsKept(M, Latch(W), i)
      <3> SUFFICES ASSUME NEW j \in Id, Exhausted(Latch(W), j)
                   PROVE  IF j = i THEN Latch(W).at[j].due = RRefill
                          ELSE Exhausted(M, j) /\ Latch(W).at[j].due = M.at[j].due
        BY DEF WaitsKept
      <3>1. j \in Range(W.order) /\ W.at[j].attempts >= AMax
        BY <2>16 DEF Exhausted, Marked
      <3>2. CASE j = i
        BY <2>5, <2>6, <2>7, <2>16, <3>1, <3>2
      <3>3. CASE j # i
        BY <2>3, <2>5, <2>7, <2>9, <2>16, <3>1, <3>3 DEF Exhausted, Marked
      <3> QED
        BY <3>2, <3>3
    <2> QED
      BY <2>1, <2>16, <2>17
  <1> QED
    BY <1>1, <1>2, <1>3

\* The other inputs of the table: what they do to the marks and to the waits of
\* those that are exhausted.
Unhurried(M, N) == \A j \in Id : Exhausted(N, j) => Exhausted(M, j) /\ N.at[j].due = M.at[j].due

LEMMA DeleteKeeps ==
  ASSUME NEW M, MarksInv(M), NEW i \in Id
  PROVE  MarksInv(Delete(M, i)) /\ Unhurried(M, Delete(M, i))
  <1> DEFINE U == Unmarked(M, i)
  <1>0. MarksType(M) /\ Len(M.order) \in Nat /\ Len(M.order) <= MMarks /\ MMarks \in Nat
    BY MarkNumbers DEF MarksInv, MarksType, MarksLatch
  <1>1. /\ MarksType(U) /\ i \notin Marked(U)
        /\ i \in Marked(M) => Len(U.order) = Len(M.order) - 1
        /\ i \notin Marked(M) => U = M
        /\ \A j \in Id : j # i => U.at[j] = M.at[j]
        /\ \A j \in Id : j # i => (j \in Marked(U) <=> j \in Marked(M))
    BY <1>0, UnmarkedFacts
  <1>2. Delete(M, i) = Latch(U)
    BY DEF Delete
  <1> HIDE DEF U
  <1>3. Len(U.order) <= MMarks
    BY <1>0, <1>1
  <1>4. MarksInv(Latch(U)) /\ Latch(U).at = U.at /\ Latch(U).order = U.order
    BY <1>1, <1>3, LatchFacts
  <1>5. Unhurried(M, Latch(U))
    <2> SUFFICES ASSUME NEW j \in Id, Exhausted(Latch(U), j)
                 PROVE  Exhausted(M, j) /\ Latch(U).at[j].due = M.at[j].due
      BY DEF Unhurried
    <2>1. j \in Marked(U) /\ U.at[j].attempts >= AMax
      BY <1>4 DEF Exhausted, Marked
    <2>2. j # i
      BY <1>1, <2>1
    <2> QED
      BY <1>1, <1>4, <2>1, <2>2 DEF Exhausted
  <1> QED
    BY <1>2, <1>4, <1>5

\* The record of a mark changes and its failures do not.
LEMMA TouchedFacts ==
  ASSUME NEW M, MarksInv(M), NEW i \in Id, Exhausted(M, i), NEW m \in Mark, m.attempts = M.at[i].attempts
  PROVE  /\ MarksInv(Written(M, i, m)) /\ Written(M, i, m).at = [M.at EXCEPT ![i] = m]
         /\ \A j \in Id : Exhausted(Written(M, i, m), j) <=> Exhausted(M, j)
  <1>0. MarksType(M) /\ MarksLatch(M) /\ i \in Marked(M) /\ M.at \in [Id -> Mark]
    BY DEF MarksInv, MarksType, Exhausted, Mark
  <1>1. m.attempts > 0
    BY <1>0 DEF MarksType
  <1> DEFINE W == Written(M, i, m)
  <1>2. MarksType(W) /\ W.order = M.order /\ W.full = M.full /\ W.at = [M.at EXCEPT ![i] = m]
    BY <1>0, <1>1, WrittenFacts
  <1> HIDE DEF W
  <1>3. MarksInv(W)
    BY <1>0, <1>2 DEF MarksInv, MarksLatch
  <1>4. \A j \in Id : Exhausted(W, j) <=> Exhausted(M, j)
    BY <1>0, <1>2 DEF Exhausted, Marked
  <1> QED
    BY <1>2, <1>3, <1>4 DEF W

LEMMA AskedKeeps ==
  ASSUME NEW M, MarksInv(M), NEW i \in Id
  PROVE  MarksInv(Asked(M, i)) /\ Unhurried(M, Asked(M, i))
  <1>1. CASE Exhausted(M, i) /\ M.at[i].due = 0
    <2> DEFINE m == [M.at[i] EXCEPT !.token = TRUE]
    <2>0. M.at[i] \in Mark /\ M.at \in [Id -> Mark]
      BY DEF MarksInv, MarksType, Mark
    <2>1. m \in Mark /\ m.attempts = M.at[i].attempts /\ m.due = M.at[i].due
      BY <2>0 DEF Mark
    <2>2. Asked(M, i) = Written(M, i, m)
      BY <1>1 DEF Asked, Written, MarksInv, MarksType
    <2> HIDE DEF m
    <2>3. /\ MarksInv(Written(M, i, m)) /\ Written(M, i, m).at = [M.at EXCEPT ![i] = m]
          /\ \A j \in Id : Exhausted(Written(M, i, m), j) <=> Exhausted(M, j)
      BY <1>1, <2>1, TouchedFacts
    <2> QED
      BY <2>0, <2>1, <2>2, <2>3 DEF Unhurried
  <1>2. CASE ~(Exhausted(M, i) /\ M.at[i].due = 0)
    BY <1>2 DEF Asked, Unhurried
  <1> QED
    BY <1>1, <1>2

LEMMA ConsumeKeeps ==
  ASSUME NEW M, MarksInv(M), NEW i \in Id
  PROVE  MarksInv(Consume(M, i)) /\ WaitsKept(M, Consume(M, i), i)
  <1>1. CASE Exhausted(M, i)
    <2> DEFINE m == [M.at[i] EXCEPT !.token = FALSE, !.due = RRefill]
    <2>0. M.at[i] \in Mark /\ M.at \in [Id -> Mark]
      BY DEF MarksInv, MarksType, Mark
    <2>1. m \in Mark /\ m.attempts = M.at[i].attempts /\ m.due = RRefill
      BY <2>0, MarkNumbers DEF Mark
    <2>2. Consume(M, i) = Written(M, i, m)
      BY <1>1 DEF Consume, Written, MarksInv, MarksType
    <2> HIDE DEF m
    <2>3. /\ MarksInv(Written(M, i, m)) /\ Written(M, i, m).at = [M.at EXCEPT ![i] = m]
          /\ \A j \in Id : Exhausted(Written(M, i, m), j) <=> Exhausted(M, j)
      BY <1>1, <2>1, TouchedFacts
    <2> QED
      BY <2>0, <2>1, <2>2, <2>3 DEF WaitsKept
  <1>2. CASE ~Exhausted(M, i)
    BY <1>2 DEF Consume, WaitsKept
  <1> QED
    BY <1>1, <1>2

\* Time passes: every wait is shorter by one tick, and nothing else changes.
LEMMA LaterKeeps ==
  ASSUME NEW M, MarksInv(M)
  PROVE  /\ MarksInv(MarksLater(M))
         /\ \A j \in Id : /\ Exhausted(MarksLater(M), j) <=> Exhausted(M, j)
                         /\ MarksLater(M).at[j].due = IF M.at[j].due > 0 THEN M.at[j].due - 1 ELSE 0
  <1> DEFINE L == MarksLater(M)
             at == [i \in Id |-> [M.at[i] EXCEPT !.due = IF @ > 0 THEN @ - 1 ELSE 0]]
  <1>0. M.at \in [Id -> Mark] /\ MarksType(M)
    BY DEF MarksInv, MarksType, Mark
  <1>1. L = [M EXCEPT !.at = at]
    BY DEF MarksLater
  <1>2. \A j \in Id : /\ at[j] \in Mark /\ at[j].attempts = M.at[j].attempts
                      /\ at[j].due = IF M.at[j].due > 0 THEN M.at[j].due - 1 ELSE 0
    BY <1>0 DEF Mark
  <1>3. at \in [Id -> Mark]
    BY <1>2
  <1> HIDE DEF at, L
  <1>4. L.at = at /\ L.order = M.order /\ L.full = M.full /\ L = [at |-> at, order |-> M.order, full |-> M.full]
    BY <1>0, <1>1 DEF MarksType
  <1>5. MarksType(L)
    <2>1. L \in [at : [Id -> Mark], order : Seq(Id), full : BOOLEAN]
      BY <1>0, <1>3, <1>4 DEF MarksType
    <2>2. \A j \in Id : L.at[j].attempts > 0 <=> j \in Marked(L)
      BY <1>0, <1>2, <1>4 DEF MarksType, Marked
    <2> QED
      BY <1>0, <1>4, <2>1, <2>2 DEF MarksType, Mark
  <1>6. MarksInv(L)
    BY <1>4, <1>5 DEF MarksInv, MarksLatch
  <1>7. \A j \in Id : Exhausted(L, j) <=> Exhausted(M, j)
    BY <1>2, <1>4 DEF Exhausted, Marked
  <1> QED
    BY <1>2, <1>4, <1>6, <1>7 DEF L

-----------------------------------------------------------------------------
(***************************************************************************)
(* What a step does to the marks and to the waits of the exhausted ones.     *)
(***************************************************************************)
Stays     == marks' = marks /\ (window' = window \/ window' = Waits(marks, {}))
Asks      == window' = window /\ \E i \in Id : marks' = Asked(marks, i)
Dials     == \E i \in Id : marks' = Consume(Asked(marks, i), i) /\ window' = Waits(marks', {i})
Fails     == \E i \in Id : marks' = Fail(marks, i) /\ window' = Waits(marks', {i})
Binds     == window' = Waits(marks', {}) /\ \E i \in Id : marks' = Delete(marks, i)
TimePasses == /\ marks' = MarksLater(marks)
              /\ window' = [i \in Id |-> IF window[i] > 0 THEN window[i] - 1 ELSE 0]

LEMMA MarksMoves ==
  ASSUME LinkType, [Next]_vars
  PROVE  Stays \/ Asks \/ Dials \/ Fails \/ Binds \/ TimePasses
  <1>1. ASSUME marks' = marks, window' = window PROVE Stays
    BY <1>1 DEF Stays
  <1>2. ASSUME NEW i \in Id, ConsiderBound(i) \/ Consider(i) PROVE Asks
    BY <1>2 DEF ConsiderBound, Consider, ghostVars, Asks
  <1>3. ASSUME NEW o \in opening, OpenEnd(o) PROVE Asks
    BY <1>3 DEF OpenEnd, ghostVars, Asks, LinkType
  <1>4. ASSUME NEW o \in opening, Issue(o) PROVE Dials
    BY <1>4 DEF Issue, Dials, LinkType
  <1>5. ASSUME NEW c \in Chan, NegotiationFailed(c) PROVE Stays \/ Fails
    <2> DEFINE i == chan[c].id
    <2>1. i \in Id
      BY <1>5, ChanFacts DEF NegotiationFailed
    <2>2. (marks' = marks \/ marks' = Fail(marks, i)) /\ window' = Waits(marks', IF marks' # marks THEN {i} ELSE {})
      BY <1>5 DEF NegotiationFailed
    <2> QED
      BY <2>1, <2>2 DEF Stays, Fails
  <1>6. ASSUME NEW c \in Chan, Bind(c) PROVE Stays \/ Binds
    <2> DEFINE i == chan[c].id
    <2>1. i \in Id
      BY <1>6, ChanFacts DEF Bind
    <2>2. (marks' = marks \/ marks' = Delete(marks, i)) /\ window' = Waits(marks', {})
      BY <1>6 DEF Bind, KernelBound
    <2> QED
      BY <2>1, <2>2 DEF Stays, Binds
  <1>7. ASSUME NEW c \in Chan, Died(c) PROVE Stays \/ Fails
    <2>1. chan[c].id \in Id
      BY <1>7, ChanFacts DEF Died
    <2> QED
      BY <1>7, <2>1 DEF Died, Stays, Fails
  <1>8. ASSUME NEW c \in Chan, Retry(c) \/ Rejected(c) \/ OfferDelivered(c) \/ NoPath(c) \/ BindDuplicate(c)
        PROVE  Stays
    BY <1>1, <1>8 DEF Retry, Rejected, OfferDelivered, NoPath, BindDuplicate, kernelVars, ghostVars
  <1>9. ASSUME NEW i \in Id, Close(i) \/ FreshRecord(i) \/ (\E h \in Handle : Inbound(i, h)) PROVE Stays
    BY <1>1, <1>9 DEF Close, FreshRecord, Inbound, kernelVars, ghostVars
  <1>10. CASE Maintain
    BY <1>1, <1>10 DEF Maintain, ghostVars
  <1>11. CASE Tick
    BY <1>11 DEF Tick, TimePasses
  <1>12. CASE UNCHANGED vars
    BY <1>1, <1>12 DEF vars, kernelVars, ghostVars
  <1> QED
    BY <1>2, <1>3, <1>4, <1>5, <1>6, <1>7, <1>8, <1>9, <1>10, <1>11, <1>12 DEF Next

\* The table within its bounds, and every exhausted mark due no sooner than the
\* window of its last failure or dial is over.
WaitInv ==
    /\ MarksInv(marks)
    /\ window \in [Id -> Nat]
    /\ \A i \in Id : Exhausted(marks, i) => window[i] <= marks.at[i].due

LEMMA WaitInit == Init => WaitInv
  <1> SUFFICES ASSUME Init PROVE WaitInv
    OBVIOUS
  <1>1. marks = [at |-> [i \in Id |-> NoMark], order |-> <<>>, full |-> FALSE]
    BY DEF Init, NoMarks
  <1>2. NoMark \in Mark /\ NoMark.attempts = 0
    BY MarkNumbers DEF NoMark, Mark
  <1>3. marks.order = <<>> /\ marks.full = FALSE /\ marks.at \in [Id -> Mark]
        /\ \A i \in Id : marks.at[i].attempts = 0
    BY <1>1, <1>2
  <1>4. Marked(marks) = {} /\ IsInjective(marks.order) /\ marks.order \in Seq(Id) /\ Len(marks.order) = 0
    BY <1>3 DEF Marked, Range, IsInjective
  <1>5. MarksType(marks)
    <2>1. marks \in [at : [Id -> Mark], order : Seq(Id), full : BOOLEAN]
      <3>1. marks = [at |-> marks.at, order |-> marks.order, full |-> marks.full]
        BY <1>1
      <3> QED
        BY <1>3, <1>4, <3>1
    <2>2. \A i \in Id : marks.at[i].attempts > 0 <=> i \in Marked(marks)
      BY <1>3, <1>4
    <2> QED
      BY <1>4, <2>1, <2>2 DEF MarksType, Mark
  <1>6. MarksLatch(marks)
    BY <1>3, <1>4, MarkNumbers DEF MarksLatch
  <1> QED
    BY <1>4, <1>5, <1>6 DEF Init, WaitInv, MarksInv, Exhausted

LEMMA WaitStep == LinkType /\ WaitInv /\ [Next]_vars => WaitInv'
  <1> SUFFICES ASSUME LinkType, WaitInv, [Next]_vars PROVE WaitInv'
    OBVIOUS
  <1>0. MarksInv(marks) /\ window \in [Id -> Nat] /\ RRefill \in Nat /\ marks.at \in [Id -> Mark]
        /\ \A i \in Id : Exhausted(marks, i) => window[i] <= marks.at[i].due
    BY MarkNumbers DEF WaitInv, MarksInv, MarksType, Mark
  <1>1. ASSUME MarksInv(marks'), Unhurried(marks, marks'), window' = window \/ window' = Waits(marks', {})
        PROVE  WaitInv'
    <2>1. window' \in [Id -> Nat]
      BY <1>0, <1>1 DEF Waits
    <2>2. \A i \in Id : Exhausted(marks', i) => window'[i] <= marks'.at[i].due
      BY <1>0, <1>1 DEF Waits, Unhurried
    <2> QED
      BY <1>1, <2>1, <2>2 DEF WaitInv
  <1>2. ASSUME NEW i \in Id, MarksInv(marks'), WaitsKept(marks, marks', i), window' = Waits(marks', {i})
        PROVE  WaitInv'
    <2>1. window' \in [Id -> Nat]
      BY <1>0, <1>2 DEF Waits
    <2>2. \A j \in Id : Exhausted(marks', j) => window'[j] <= marks'.at[j].due
      BY <1>0, <1>2 DEF Waits, WaitsKept
    <2> QED
      BY <1>2, <2>1, <2>2 DEF WaitInv
  <1>3. CASE Stays
    <2>1. Unhurried(marks, marks') /\ MarksInv(marks')
      BY <1>0, <1>3 DEF Stays, Unhurried
    <2> QED
      BY <1>1, <1>3, <2>1 DEF Stays
  <1>4. CASE Asks
    BY <1>0, <1>1, <1>4, AskedKeeps DEF Asks
  <1>5. CASE Dials
    <2>1. PICK i \in Id : marks' = Consume(Asked(marks, i), i) /\ window' = Waits(marks', {i})
      BY <1>5 DEF Dials
    <2> DEFINE A == Asked(marks, i)
    <2>2. MarksInv(A) /\ Unhurried(marks, A)
      BY <1>0, AskedKeeps
    <2> HIDE DEF A
    <2>3. MarksInv(Consume(A, i)) /\ WaitsKept(A, Consume(A, i), i)
      BY <2>2, ConsumeKeeps
    <2>4. WaitsKept(marks, Consume(A, i), i)
      BY <2>2, <2>3 DEF WaitsKept, Unhurried
    <2> QED
      BY <1>2, <2>1, <2>3, <2>4 DEF A
  <1>6. CASE Fails
    BY <1>0, <1>2, <1>6, FailKeeps DEF Fails
  <1>7. CASE Binds
    BY <1>0, <1>1, <1>7, DeleteKeeps DEF Binds
  <1>8. CASE TimePasses
    <2>1. /\ MarksInv(marks')
          /\ \A j \in Id : /\ Exhausted(marks', j) <=> Exhausted(marks, j)
                          /\ marks'.at[j].due = IF marks.at[j].due > 0 THEN marks.at[j].due - 1 ELSE 0
      BY <1>0, <1>8, LaterKeeps DEF TimePasses
    <2>2. window' \in [Id -> Nat]
      BY <1>0, <1>8 DEF TimePasses
    <2>3. ASSUME NEW j \in Id, Exhausted(marks', j) PROVE window'[j] <= marks'.at[j].due
      <3>1. window[j] \in Nat /\ marks.at[j].due \in Nat /\ window[j] <= marks.at[j].due
        BY <1>0, <2>1, <2>3 DEF Mark
      <3>2. window'[j] = IF window[j] > 0 THEN window[j] - 1 ELSE 0
        BY <1>8 DEF TimePasses
      <3>3. marks'.at[j].due = IF marks.at[j].due > 0 THEN marks.at[j].due - 1 ELSE 0
        BY <2>1
      <3> QED
        BY <3>1, <3>2, <3>3
    <2> QED
      BY <2>1, <2>2, <2>3 DEF WaitInv
  <1> QED
    BY <1>3, <1>4, <1>5, <1>6, <1>7, <1>8, MarksMoves

\* The table of marks stays within M_marks and its latch within the hysteresis,
\* whatever order deaths, failed dials, evictions and binds come in.
THEOREM MarksBoundedAlways == Spec => []MarksBounded
  <1>1. LinkInv => LinkType
    BY DEF LinkInv
  <1>2. WaitInv => MarksBounded
    BY DEF WaitInv, MarksInv, MarksLatch, MarksBounded
  <1> QED
    BY LinkInit, LinkStep, WaitInit, WaitStep, <1>1, <1>2, PTL DEF Spec

\* Between two dials of an exhausted identity, or its failure and the next dial,
\* a whole window passes: the mark is read again after the awaited open.
THEOREM ExhaustedPacedAlways == Spec => ExhaustedPaced
  <1>1. ASSUME WaitInv, LinkType, [Next]_vars, NEW o \in opening \ opening', Exhausted(marks, o.id), chan' # chan
        PROVE  window[o.id] = 0
    <2>0. o.id \in Id /\ window[o.id] \in Nat /\ window[o.id] <= marks.at[o.id].due
      BY <1>1 DEF LinkType, WaitInv
    <2>1. ASSUME NEW p \in opening, Issue(p) PROVE window[o.id] = 0
      <3>1. p = o
        BY <1>1, <2>1 DEF Issue
      <3>2. marks.at[o.id].due = 0
        BY <1>1, <2>1, <3>1 DEF Issue, StillEligible, Eligible, Exhausted
      <3> QED
        BY <2>0, <3>2
    <2>2. ASSUME NEW i \in Id, ConsiderBound(i) \/ Consider(i) \/ Close(i) \/ FreshRecord(i) PROVE FALSE
      BY <1>1, <2>2 DEF ConsiderBound, Consider, Close, FreshRecord, linkVars
    <2>3. ASSUME NEW p \in opening, OpenEnd(p) PROVE FALSE
      BY <1>1, <2>3 DEF OpenEnd, linkVars
    <2>4. ASSUME NEW i \in Id, NEW h \in Handle, Inbound(i, h) PROVE FALSE
      BY <1>1, <2>4 DEF Inbound, kernelVars
    <2>5. ASSUME NEW c \in Chan, Retry(c) \/ NegotiationFailed(c) \/ Rejected(c) PROVE FALSE
      BY <1>1, <2>5 DEF Retry, NegotiationFailed, Rejected, kernelVars
    <2>6. ASSUME NEW c \in Chan, OfferDelivered(c) \/ NoPath(c) PROVE FALSE
      BY <1>1, <2>6 DEF OfferDelivered, NoPath
    <2>7. ASSUME NEW c \in Chan, Bind(c) \/ BindDuplicate(c) \/ Died(c) PROVE FALSE
      BY <1>1, <2>7 DEF Bind, BindDuplicate, Died, kernelVars
    <2>8. CASE Maintain \/ Tick \/ UNCHANGED vars
      BY <1>1, <2>8 DEF Maintain, Tick, vars, kernelVars
    <2> QED
      BY <1>1, <2>1, <2>2, <2>3, <2>4, <2>5, <2>6, <2>7, <2>8 DEF Next
  <1>2. WaitInv /\ LinkType /\ [Next]_vars =>
           [\A o \in opening \ opening' : Exhausted(marks, o.id) /\ chan' # chan => window[o.id] = 0]_vars
    BY <1>1
  <1>3. LinkInv => LinkType
    BY DEF LinkInv
  <1> QED
    BY LinkInit, LinkStep, WaitInit, WaitStep, <1>2, <1>3, PTL DEF Spec, ExhaustedPaced

-----------------------------------------------------------------------------
(***************************************************************************)
(* The attempt guard: lemmas about the values that AttemptGuard computes.    *)
(***************************************************************************)
Attempt == [attempts : Nat, k : Nat, age : 0..(InflightMaxMs + 1), next : Nat, expired : BOOLEAN,
            path : Nat, noPath : BOOLEAN, inc : Nat]

\* No failure is counted.
NoneFailed(G, H) == \A j \in Peer : H[j].attempts <= G[j].attempts

LEMMA GuardNumbers ==
  /\ InflightMaxMs \in Nat /\ RefillMs \in Nat /\ MaxAttempts \in Nat \ {0}
  /\ NoAttempt \in Attempt /\ NoAttempt.attempts = 0
  <1>1. InflightMaxMs \in Nat /\ RefillMs \in Nat /\ MaxAttempts \in Nat \ {0}
    BY GuardAssumption
  <1> QED
    BY <1>1 DEF NoAttempt, Attempt

LEMMA AgeNumbers == 0 \in 0..(InflightMaxMs + 1) /\ RefillMs \in Nat
  BY GuardNumbers

LEMMA WindowNat == \A n \in Nat \ {0} : Window(n) \in Nat
  <1> SUFFICES ASSUME NEW n \in Nat \ {0} PROVE Window(n) \in Nat
    OBVIOUS
  <1>1. CASE n >= MaxAttempts
    <2>1. Window(n) = RefillMs
      BY <1>1, Zenon DEF Window
    <2> QED
      BY <2>1, GuardNumbers
  <1>2. CASE ~(n >= MaxAttempts)
    BY <1>2, GuardNumbers, WindowAssumption
  <1> QED
    BY <1>1, <1>2

\* An entry that changes, and the guard it leaves.
LEMMA EntryFacts ==
  ASSUME NEW G \in [Peer -> Attempt], NEW i \in Peer, NEW a \in Attempt, NEW H, H = [G EXCEPT ![i] = a]
  PROVE  /\ GuardType(H) /\ H[i] = a /\ \A j \in Peer : j # i => H[j] = G[j]
         /\ a.attempts <= G[i].attempts => NoneFailed(G, H)
  <1>1. H \in [Peer -> Attempt]
    OBVIOUS
  <1>2. \A j \in Peer : G[j].attempts \in Nat
    BY DEF Attempt
  <1> QED
    BY <1>1, <1>2 DEF GuardType, Attempt, NoneFailed

LEMMA EndBoundFacts ==
  ASSUME NEW G, GuardType(G), NEW i \in Peer
  PROVE  GuardType(EndBound(G, i)) /\ NoneFailed(G, EndBound(G, i))
  <1>1. G \in [Peer -> Attempt] /\ EndBound(G, i) = [G EXCEPT ![i] = NoAttempt]
    BY DEF GuardType, Attempt, EndBound
  <1>2. \A j \in Peer : G[j].attempts \in Nat
    BY <1>1 DEF Attempt
  <1>3. EndBound(G, i) \in [Peer -> Attempt]
    BY <1>1, GuardNumbers
  <1> QED
    BY <1>1, <1>2, <1>3, GuardNumbers DEF GuardType, Attempt, NoneFailed

LEMMA EndFailedFacts ==
  ASSUME NEW G, GuardType(G), NEW i \in Peer
  PROVE  GuardType(EndFailed(G, i)) /\ \A j \in Peer : j # i => EndFailed(G, i)[j] = G[j]
  <1> DEFINE n == G[i].attempts + 1
             a == [G[i] EXCEPT !.k = 0, !.inc = 0, !.age = 0, !.attempts = n,
                               !.expired = @ \/ n >= MaxAttempts, !.next = Window(n)]
  <1>1. G \in [Peer -> Attempt] /\ G[i] \in Attempt
    BY DEF GuardType, Attempt
  <1>2. n \in Nat \ {0}
    BY <1>1 DEF Attempt
  <1> HIDE DEF n
  <1>3. Window(n) \in Nat /\ (n >= MaxAttempts) \in BOOLEAN
    BY <1>2, WindowNat
  <1>4. a \in Attempt
    <2> DEFINE e == G[i].expired \/ n >= MaxAttempts
               w == Window(n)
    <2>1. e \in BOOLEAN /\ w \in Nat /\ n \in Nat
      BY <1>2, <1>3
    <2>2. a = [G[i] EXCEPT !.k = 0, !.inc = 0, !.age = 0, !.attempts = n, !.expired = e, !.next = w]
      BY Zenon
    <2> HIDE DEF e, w, a
    <2> QED
      BY <1>1, <2>1, <2>2, AgeNumbers DEF Attempt
  <1>5. EndFailed(G, i) = [G EXCEPT ![i] = a]
    BY <1>1 DEF EndFailed, n
  <1> HIDE DEF a
  <1> QED
    BY <1>1, <1>4, <1>5 DEF GuardType, Attempt

LEMMA BeginFacts ==
  ASSUME NEW G, GuardType(G), NEW i \in Peer, NEW k \in Nat
  PROVE  GuardType(BeginAttempt(G, i, k)) /\ NoneFailed(G, BeginAttempt(G, i, k))
  <1> DEFINE a == [G[i] EXCEPT !.k = k, !.age = 0, !.next = IF G[i].expired THEN RefillMs ELSE @]
  <1>1. G \in [Peer -> Attempt] /\ G[i] \in Attempt
    BY DEF GuardType, Attempt
  <1>2. a \in Attempt /\ a.attempts = G[i].attempts
    <2> DEFINE m == IF G[i].expired THEN RefillMs ELSE G[i].next
    <2>1. m \in Nat /\ a = [G[i] EXCEPT !.k = k, !.age = 0, !.next = m]
      BY <1>1, AgeNumbers DEF Attempt
    <2> HIDE DEF m, a
    <2> QED
      BY <1>1, <2>1, AgeNumbers DEF Attempt
  <1>3. BeginAttempt(G, i, k) = [G EXCEPT ![i] = a]
    BY <1>1 DEF BeginAttempt
  <1>4. \A j \in Peer : G[j].attempts \in Nat
    BY <1>1 DEF Attempt
  <1> HIDE DEF a
  <1> QED
    BY <1>1, <1>2, <1>3, <1>4 DEF GuardType, Attempt, NoneFailed

LEMMA ReleaseFacts ==
  ASSUME NEW G, GuardType(G), NEW i \in Peer, NEW k \in Nat
  PROVE  GuardType(ReleaseAttempt(G, i, k)) /\ NoneFailed(G, ReleaseAttempt(G, i, k))
  <1>0. \A j \in Peer : G[j].attempts \in Nat /\ G[j].attempts <= G[j].attempts
    BY DEF GuardType
  <1>1. CASE ReleaseAttempt(G, i, k) = G
    BY <1>0, <1>1 DEF NoneFailed
  <1>2. CASE ReleaseAttempt(G, i, k) = [G EXCEPT ![i] = NoAttempt]
    BY <1>2, EndBoundFacts DEF EndBound
  <1>3. CASE ReleaseAttempt(G, i, k) = [G EXCEPT ![i].k = 0, ![i].age = 0]
    <2> DEFINE a == [G[i] EXCEPT !.k = 0, !.age = 0]
    <2>1. G \in [Peer -> Attempt] /\ G[i] \in Attempt
      BY DEF GuardType, Attempt
    <2>2. a \in Attempt /\ a.attempts = G[i].attempts
      BY <2>1, AgeNumbers DEF Attempt
    <2>3. ReleaseAttempt(G, i, k) = [G EXCEPT ![i] = a]
      BY <1>3, <2>1
    <2> HIDE DEF a
    <2> QED
      BY <1>0, <2>1, <2>2, <2>3 DEF GuardType, Attempt, NoneFailed
  <1> QED
    BY <1>1, <1>2, <1>3 DEF ReleaseAttempt

LEMMA AttachFacts ==
  ASSUME NEW G, GuardType(G), NEW i \in Peer, NEW k \in Nat, NEW c \in Nat
  PROVE  GuardType(Attach(G, i, k, c)) /\ NoneFailed(G, Attach(G, i, k, c))
  <1> DEFINE a == [G[i] EXCEPT !.inc = c]
  <1>0. \A j \in Peer : G[j].attempts \in Nat /\ G[j].attempts <= G[j].attempts
    BY DEF GuardType
  <1>1. G \in [Peer -> Attempt] /\ G[i] \in Attempt
    BY DEF GuardType, Attempt
  <1>2. a \in Attempt /\ a.attempts = G[i].attempts
    BY <1>1 DEF Attempt
  <1>3. Attach(G, i, k, c) = G \/ Attach(G, i, k, c) = [G EXCEPT ![i] = a]
    BY <1>1 DEF Attach
  <1> HIDE DEF a
  <1> QED
    BY <1>0, <1>1, <1>2, <1>3 DEF GuardType, Attempt, NoneFailed

\* A sweep ends exactly the attempts that are older than the fail-safe.
LEMMA SweepFacts ==
  ASSUME NEW G, GuardType(G)
  PROVE  /\ GuardType(SweepAttempts(G))
         /\ \A j \in Peer : SweepAttempts(G)[j] = G[j] \/ G[j].age > InflightMaxMs
  <1>1. \A j \in Peer : SweepAttempts(G)[j] = (IF Inflight(G, j) /\ G[j].age > InflightMaxMs
                                              THEN EndFailed(G, j)[j] ELSE G[j])
    BY DEF SweepAttempts
  <1>2. \A j \in Peer : EndFailed(G, j)[j] \in Attempt /\ G[j] \in Attempt
    BY EndFailedFacts DEF GuardType, Attempt
  <1>3. SweepAttempts(G) \in [Peer -> Attempt]
    BY <1>2 DEF SweepAttempts
  <1> QED
    BY <1>1, <1>3 DEF GuardType, Attempt

LEMMA RefreshedFacts ==
  ASSUME NEW G, GuardType(G), NEW i \in Peer
  PROVE  GuardType(Refreshed(G, i)) /\ NoneFailed(G, Refreshed(G, i))
  <1> DEFINE a == [G[i] EXCEPT !.attempts = 0, !.expired = FALSE, !.next = 0, !.path = 0, !.noPath = FALSE]
  <1>0. \A j \in Peer : G[j].attempts \in Nat /\ G[j].attempts <= G[j].attempts
    BY DEF GuardType
  <1>1. G \in [Peer -> Attempt] /\ G[i] \in Attempt
    BY DEF GuardType, Attempt
  <1>2. a \in Attempt /\ a.attempts = 0
    BY <1>1 DEF Attempt
  <1>3. Refreshed(G, i) = EndBound(G, i) \/ Refreshed(G, i) = [G EXCEPT ![i] = a]
    BY <1>1 DEF Refreshed, EndBound
  <1> HIDE DEF a
  <1>4. CASE Refreshed(G, i) = [G EXCEPT ![i] = a]
    BY <1>0, <1>1, <1>2, <1>4 DEF GuardType, Attempt, NoneFailed
  <1> QED
    BY <1>3, <1>4, EndBoundFacts

LEMMA PathFacts ==
  ASSUME NEW G, GuardType(G), NEW i \in Peer, NEW ms \in Nat
  PROVE  /\ GuardType(DeferPath(G, i, ms)) /\ NoneFailed(G, DeferPath(G, i, ms))
         /\ GuardType(PathDelivered(G, i)) /\ NoneFailed(G, PathDelivered(G, i))
  <1>0. \A j \in Peer : G[j].attempts \in Nat /\ G[j].attempts <= G[j].attempts
    BY DEF GuardType
  <1>1. G \in [Peer -> Attempt] /\ G[i] \in Attempt
    BY DEF GuardType, Attempt
  <1>2. ASSUME NEW m \in Nat, NEW b \in BOOLEAN, NEW H, H = [G EXCEPT ![i].path = m, ![i].noPath = b]
        PROVE  GuardType(H) /\ NoneFailed(G, H)
    <2> DEFINE a == [G[i] EXCEPT !.path = m, !.noPath = b]
    <2>1. a \in Attempt /\ a.attempts = G[i].attempts
      BY <1>1 DEF Attempt
    <2>2. H = [G EXCEPT ![i] = a]
      BY <1>1, <1>2
    <2> HIDE DEF a
    <2> QED
      BY <1>0, <1>1, <2>1, <2>2 DEF GuardType, Attempt, NoneFailed
  <1>3. PathDelivered(G, i) = EndBound(G, i) \/ PathDelivered(G, i) = [G EXCEPT ![i].path = 0, ![i].noPath = FALSE]
    BY DEF PathDelivered, EndBound
  <1> QED
    BY <1>2, <1>3, EndBoundFacts DEF DeferPath

LEMMA LaterFacts ==
  ASSUME NEW G, GuardType(G)
  PROVE  GuardType(GuardLater(G)) /\ NoneFailed(G, GuardLater(G))
  <1> DEFINE down(n) == IF n > 0 THEN n - 1 ELSE 0
             a(i) == [G[i] EXCEPT !.next = down(@), !.path = down(@),
                                  !.age = IF Inflight(G, i) /\ @ <= InflightMaxMs THEN @ + 1 ELSE @]
  <1>1. G \in [Peer -> Attempt]
    BY DEF GuardType, Attempt
  <1>2. GuardLater(G) = [i \in Peer |-> a(i)]
    BY DEF GuardLater
  <1>3. ASSUME NEW i \in Peer PROVE a(i) \in Attempt /\ a(i).attempts = G[i].attempts
    <2> DEFINE x == down(G[i].next)
               y == down(G[i].path)
               z == IF Inflight(G, i) /\ G[i].age <= InflightMaxMs THEN G[i].age + 1 ELSE G[i].age
    <2>0. G[i] \in Attempt
      BY <1>1
    <2>1. x \in Nat /\ y \in Nat
      BY <2>0 DEF Attempt
    <2>2. z \in 0..(InflightMaxMs + 1)
      BY <2>0, GuardNumbers DEF Attempt
    <2>3. a(i) = [G[i] EXCEPT !.next = x, !.path = y, !.age = z]
      BY Zenon
    <2> HIDE DEF x, y, z, a
    <2> QED
      BY <2>0, <2>1, <2>2, <2>3 DEF Attempt
  <1> HIDE DEF a
  <1>4. \A j \in Peer : G[j].attempts \in Nat
    BY <1>1 DEF Attempt
  <1> QED
    BY <1>2, <1>3, <1>4 DEF GuardType, Attempt, NoneFailed

-----------------------------------------------------------------------------
(***************************************************************************)
(* What a step does to the guard, the dials and the offers.                  *)
(***************************************************************************)
GuardInv ==
    /\ GuardType(guard)
    /\ opening \subseteq [id : Id, k : 1..MaxDial] /\ begun \in 0..MaxDial
    /\ \A c \in offers : c \in Chan /\ chan[c].st # "free"

\* A failure that a step counts is one of the attempt's own.
FailureIsOwn ==
    \A i \in Id : guard'[i].attempts > guard[i].attempts =>
        \/ guard[i].age > InflightMaxMs
        \/ opening' # opening
        \/ \E c \in Chan : chan[c].st = "negotiating" /\ chan'[c].st = "gone" /\ guard[i].inc \in {0, c}

LEMMA GuardInit == Init => GuardInv
  <1> SUFFICES ASSUME Init PROVE GuardInv
    OBVIOUS
  <1>1. guard \in [Peer -> Attempt]
    BY GuardNumbers, DialAssumption DEF Init
  <1>2. begun \in 0..MaxDial
    BY DialAssumption DEF Init
  <1> QED
    BY <1>1, <1>2 DEF Init, GuardInv, GuardType, Attempt

\* No channel becomes free again.
LEMMA UsedStaysUsed ==
  ASSUME LinkInv, [Next]_vars, NEW x \in Chan, chan[x].st # "free"
  PROVE  chan'[x].st # "free"
  <1>0. chan \in [Chan -> ChanType \cup {NoChan}] /\ chan[x] \in ChanType /\ \A o \in opening : o.id \in Id
    BY ChanFacts DEF LinkInv, LinkType
  <1>1. ASSUME chan' = chan PROVE chan'[x].st # "free"
    BY <1>1
  <1>2. ASSUME NEW c \in Chan, chan' = Retired(c) \/ chan' = [chan EXCEPT ![c].st = "open"]
        PROVE  chan'[x].st # "free"
    BY <1>0, <1>2 DEF Retired, ChanType
  <1>3. ASSUME NEW i, NEW h, NEW r, NEW d \in NextChan, chan' = Started(d, i, h, r)
        PROVE  chan'[x].st # "free"
    BY <1>0, <1>3 DEF Started, NextChan
  <1>4. ASSUME NEW o \in opening, Issue(o) PROVE chan'[x].st # "free"
    BY <1>3, <1>4 DEF Issue
  <1>5. ASSUME NEW i \in Id, NEW h \in Handle, Inbound(i, h) PROVE chan'[x].st # "free"
    BY <1>3, <1>5 DEF Inbound
  <1>6. ASSUME NEW c \in Chan, Retry(c) PROVE chan'[x].st # "free"
    <2>1. PICK d \in NextChan :
             chan' = [Started(d, chan[c].id, chan[c].handle, "offerer") EXCEPT ![c].st = "gone"]
      BY <1>6 DEF Retry
    <2>2. d \in Chan /\ d # x
      BY DEF NextChan
    <2>3. Started(d, chan[c].id, chan[c].handle, "offerer")[x] = chan[x]
      BY <1>0, <2>2 DEF Started
    <2> QED
      BY <1>0, <2>1, <2>2, <2>3 DEF Started, ChanType
  <1>7. ASSUME NEW c \in Chan, NegotiationFailed(c) \/ Rejected(c) \/ NoPath(c) \/ Bind(c) \/ Died(c)
        PROVE  chan'[x].st # "free"
    BY <1>1, <1>2, <1>7 DEF NegotiationFailed, Rejected, NoPath, Bind, Died
  <1>8. ASSUME NEW c \in Chan, BindDuplicate(c) PROVE chan'[x].st # "free"
    BY <1>0, <1>8 DEF BindDuplicate, AfterDuplicate, ChanType
  <1>9. ASSUME NEW i \in Id, Close(i) PROVE chan'[x].st # "free"
    <2>1. route[i] \in Chan /\ chan' = Retired(route[i])
      BY <1>9 DEF Close, LinkInv, LinkType
    <2> QED
      BY <1>2, <2>1
  <1>10. ASSUME NEW c \in Chan, OfferDelivered(c) PROVE chan'[x].st # "free"
    BY <1>1, <1>10 DEF OfferDelivered
  <1>11. ASSUME NEW i \in Id, ConsiderBound(i) \/ Consider(i) \/ FreshRecord(i) PROVE chan'[x].st # "free"
    BY <1>1, <1>11 DEF ConsiderBound, Consider, FreshRecord, linkVars
  <1>12. ASSUME NEW o \in opening, OpenEnd(o) PROVE chan'[x].st # "free"
    BY <1>1, <1>12 DEF OpenEnd, linkVars
  <1>13. CASE Maintain \/ Tick \/ UNCHANGED vars
    BY <1>1, <1>13 DEF Maintain, Tick, vars, linkVars
  <1> QED
    BY <1>4, <1>5, <1>6, <1>7, <1>8, <1>9, <1>10, <1>11, <1>12, <1>13 DEF Next

\* The offers that are out are of channels in use.
LEMMA OffersStep == LinkInv /\ GuardInv /\ [Next]_vars => \A c \in offers' : c \in Chan /\ chan'[c].st # "free"
  <1> SUFFICES ASSUME LinkInv, GuardInv, [Next]_vars, NEW x \in offers' PROVE x \in Chan /\ chan'[x].st # "free"
    OBVIOUS
  <1>1. CASE x \in offers
    BY <1>1, UsedStaysUsed DEF GuardInv
  <1>2. ASSUME NEW o \in opening, Issue(o), x \notin offers PROVE x \in Chan /\ chan'[x].st # "free"
    <2>1. PICK c \in NextChan : chan' = Started(c, o.id, "hex", "offerer") /\ offers' = offers \cup {c}
      BY <1>2 DEF Issue
    <2> QED
      BY <1>2, <2>1 DEF NextChan, Started, LinkInv, LinkType
  <1>3. ASSUME NEW c \in Chan, Retry(c), x \notin offers PROVE x \in Chan /\ chan'[x].st # "free"
    <2>1. PICK d \in NextChan :
             /\ chan' = [Started(d, chan[c].id, chan[c].handle, "offerer") EXCEPT ![c].st = "gone"]
             /\ offers' = offers \cup {d}
      BY <1>3 DEF Retry
    <2>2. x = d /\ d \in Chan /\ d # c
      BY <1>3, <2>1 DEF NextChan, Retry
    <2> QED
      BY <2>1, <2>2 DEF Started, LinkInv, LinkType
  <1>4. ASSUME offers' \subseteq offers PROVE x \in Chan /\ chan'[x].st # "free"
    BY <1>1, <1>4
  <1>5. ASSUME NEW i \in Id, \/ ConsiderBound(i) \/ Consider(i) \/ Close(i) \/ FreshRecord(i)
                             \/ \E h \in Handle : Inbound(i, h)
        PROVE  offers' \subseteq offers
    BY <1>5 DEF ConsiderBound, Consider, Close, FreshRecord, Inbound, linkVars
  <1>6. ASSUME NEW c \in Chan, \/ NegotiationFailed(c) \/ Rejected(c) \/ OfferDelivered(c) \/ NoPath(c)
                               \/ Bind(c) \/ BindDuplicate(c) \/ Died(c)
        PROVE  offers' \subseteq offers
    BY <1>6 DEF NegotiationFailed, Rejected, OfferDelivered, NoPath, Bind, BindDuplicate, Died
  <1>7. ASSUME NEW o \in opening, OpenEnd(o) PROVE offers' \subseteq offers
    BY <1>7 DEF OpenEnd, linkVars
  <1>8. CASE Maintain \/ Tick \/ UNCHANGED vars
    BY <1>4, <1>8 DEF Maintain, Tick, vars, linkVars
  <1> QED
    BY <1>1, <1>2, <1>3, <1>4, <1>5, <1>6, <1>7, <1>8 DEF Next

\* The dials under way and their numbers.
DialsType(op, n) == op \subseteq [id : Id, k : 1..MaxDial] /\ n \in 0..MaxDial

LEMMA GuardStep == LinkInv /\ GuardInv /\ [Next]_vars => GuardInv' /\ FailureIsOwn
  <1> SUFFICES ASSUME LinkInv, GuardInv, [Next]_vars PROVE GuardInv' /\ FailureIsOwn
    OBVIOUS
  <1> DEFINE Goal == GuardType(guard') /\ DialsType(opening', begun') /\ FailureIsOwn
  <1> SUFFICES Goal
    BY OffersStep DEF GuardInv, DialsType
  <1>0. /\ GuardType(guard) /\ DialsType(opening, begun) /\ Peer = Id /\ MaxDial \in Nat
        /\ \A i \in Id : guard[i].attempts \in Nat /\ guard[i].k \in Nat
        /\ \A c \in Chan : c \in Nat
    BY DialAssumption DEF GuardInv, DialsType, GuardType, Chan
  <1>1. ASSUME GuardType(guard'), NoneFailed(guard, guard'), DialsType(opening', begun') PROVE Goal
    <2>1. \A i \in Id : guard'[i].attempts \in Nat /\ ~(guard'[i].attempts > guard[i].attempts)
      BY <1>0, <1>1 DEF NoneFailed, GuardType
    <2> QED
      BY <1>1, <2>1 DEF FailureIsOwn
  <1>2. ASSUME UNCHANGED <<guard, opening, begun>> PROVE Goal
    <2>1. NoneFailed(guard, guard')
      BY <1>0, <1>2 DEF NoneFailed
    <2> QED
      BY <1>0, <1>1, <1>2, <2>1
  <1>3. ASSUME NEW i \in Id, ConsiderBound(i) PROVE Goal
    BY <1>2, <1>3 DEF ConsiderBound
  <1>4. ASSUME NEW i \in Id, Consider(i) PROVE Goal
    <2> DEFINE G == SweepAttempts(guard)
               B == BeginAttempt(G, i, begun + 1)
    <2>1. /\ begun < MaxDial /\ begun' = begun + 1
          /\ \/ guard' = B /\ opening' = opening \cup {[id |-> i, k |-> begun + 1]}
             \/ guard' = ReleaseAttempt(B, i, begun + 1) /\ opening' = opening
      BY <1>4 DEF Consider
    <2>2. begun + 1 \in 1..MaxDial
      BY <1>0, <2>1 DEF DialsType
    <2>3. DialsType(opening', begun')
      BY <1>0, <2>1, <2>2 DEF DialsType
    <2>4. GuardType(G) /\ \A j \in Peer : G[j] = guard[j] \/ guard[j].age > InflightMaxMs
      BY <1>0, SweepFacts
    <2> HIDE DEF G
    <2>5. GuardType(B) /\ NoneFailed(G, B)
      BY <1>0, <2>2, <2>4, BeginFacts
    <2> HIDE DEF B
    <2>6. GuardType(ReleaseAttempt(B, i, begun + 1)) /\ NoneFailed(B, ReleaseAttempt(B, i, begun + 1))
      BY <1>0, <2>2, <2>5, ReleaseFacts
    <2>7. GuardType(guard') /\ NoneFailed(G, guard')
      BY <2>1, <2>4, <2>5, <2>6 DEF NoneFailed, GuardType
    <2>8. FailureIsOwn
      <3> SUFFICES ASSUME NEW j \in Id, guard'[j].attempts > guard[j].attempts
                   PROVE  guard[j].age > InflightMaxMs
        BY DEF FailureIsOwn
      <3>1. guard'[j].attempts <= G[j].attempts /\ guard'[j].attempts \in Nat
        BY <1>0, <2>7 DEF NoneFailed, GuardType
      <3> QED
        BY <1>0, <2>4, <3>1
    <2> QED
      BY <2>3, <2>7, <2>8
  <1>5. ASSUME NEW o \in opening, OpenEnd(o) PROVE Goal
    <2>1. o.id \in Id /\ o.k \in Nat
      BY <1>0 DEF DialsType
    <2>2. opening' = opening \ {o} /\ begun' = begun
          /\ (\/ guard' = ReleaseAttempt(guard, o.id, o.k) \/ guard' = EndFailed(guard, o.id)
              \/ guard' = guard)
      BY <1>5 DEF OpenEnd
    <2>3. GuardType(guard')
      BY <1>0, <2>1, <2>2, ReleaseFacts, EndFailedFacts
    <2>4. DialsType(opening', begun') /\ opening' # opening
      BY <1>0, <2>2 DEF DialsType
    <2> QED
      BY <2>3, <2>4 DEF FailureIsOwn
  <1>6. ASSUME NEW o \in opening, Issue(o) PROVE Goal
    <2>1. o.id \in Id /\ o.k \in Nat
      BY <1>0 DEF DialsType
    <2>2. PICK c \in NextChan : guard' = Attach(guard, o.id, o.k, c)
      BY <1>6 DEF Issue
    <2>3. GuardType(guard') /\ NoneFailed(guard, guard')
      BY <1>0, <2>1, <2>2, AttachFacts DEF NextChan
    <2>4. DialsType(opening', begun')
      BY <1>0, <1>6 DEF DialsType, Issue
    <2> QED
      BY <1>1, <2>3, <2>4
  <1>7. ASSUME NEW c \in Chan, NegotiationFailed(c) PROVE Goal
    <2> DEFINE i == chan[c].id
    <2>1. /\ chan[c].st = "negotiating" /\ chan' = Retired(c) /\ opening' = opening /\ begun' = begun
          /\ \/ guard' = guard \/ guard' = EndBound(guard, i)
             \/ guard' = EndFailed(guard, i) /\ Own(guard, i, 0, c)
      BY <1>7 DEF NegotiationFailed
    <2>2. i \in Id
      BY <1>7, ChanFacts DEF NegotiationFailed, LinkInv
    <2>3. CASE guard' = guard
      BY <1>2, <2>1, <2>3
    <2>4. CASE guard' = EndBound(guard, i)
      BY <1>0, <1>1, <2>1, <2>2, <2>4, EndBoundFacts
    <2>5. CASE guard' = EndFailed(guard, i) /\ Own(guard, i, 0, c)
      <3>1. GuardType(guard') /\ \A j \in Id : j # i => guard'[j] = guard[j]
        BY <1>0, <2>2, <2>5, EndFailedFacts
      <3>2. guard[i].inc \in {0, c}
        BY <2>5, DialAssumption DEF Own, Chan
      <3>3. chan'[c].st = "gone"
        BY <2>1, ChanFacts DEF Retired, LinkInv, LinkType, ChanType
      <3>4. FailureIsOwn
        <4> SUFFICES ASSUME NEW j \in Id, guard'[j].attempts > guard[j].attempts
                     PROVE  \E d \in Chan : chan[d].st = "negotiating" /\ chan'[d].st = "gone" /\ guard[j].inc \in {0, d}
          BY DEF FailureIsOwn
        <4>1. j = i
          BY <1>0, <3>1
        <4> QED
          BY <2>1, <3>2, <3>3, <4>1
      <3> QED
        BY <1>0, <2>1, <3>1, <3>4
    <2> QED
      BY <2>1, <2>3, <2>4, <2>5
  <1>8. ASSUME NEW c \in Chan, Rejected(c) PROVE Goal
    <2> DEFINE i == chan[c].id
    <2>1. /\ opening' = opening /\ begun' = begun
          /\ \/ guard' = ReleaseAttempt(guard, i, 0) \/ guard' = EndBound(guard, i) \/ guard' = guard
      BY <1>8 DEF Rejected
    <2>2. i \in Id
      BY <1>8, ChanFacts DEF Rejected, LinkInv
    <2> QED
      BY <1>0, <1>1, <1>2, <2>1, <2>2, ReleaseFacts, EndBoundFacts
  <1>9. ASSUME NEW c \in Chan, OfferDelivered(c) \/ NoPath(c) PROVE Goal
    <2> DEFINE i == chan[c].id
    <2>1. i \in Id /\ opening' = opening /\ begun' = begun
      BY <1>9, ChanFacts DEF OfferDelivered, NoPath, LinkInv, GuardInv
    <2>2. CASE OfferDelivered(c)
      BY <1>0, <1>1, <2>1, <2>2, PathFacts DEF OfferDelivered
    <2>3. CASE NoPath(c)
      <3>1. PICK ms \in 1..PathMs : guard' = DeferPath(ReleaseAttempt(guard, i, 0), i, ms)
        BY <2>3 DEF NoPath
      <3> DEFINE R == ReleaseAttempt(guard, i, 0)
      <3>2. GuardType(R) /\ NoneFailed(guard, R)
        BY <1>0, <2>1, ReleaseFacts
      <3> HIDE DEF R
      <3>3. ms \in Nat
        BY DialAssumption
      <3>4. GuardType(DeferPath(R, i, ms)) /\ NoneFailed(R, DeferPath(R, i, ms))
        BY <1>0, <2>1, <3>2, <3>3, PathFacts
      <3>5. NoneFailed(guard, DeferPath(R, i, ms))
        BY <1>0, <3>2, <3>4 DEF NoneFailed, GuardType
      <3> QED
        BY <1>0, <1>1, <2>1, <3>1, <3>4, <3>5 DEF R
    <2> QED
      BY <1>9, <2>2, <2>3
  <1>10. ASSUME NEW c \in Chan, Bind(c) PROVE Goal
    <2> DEFINE i == chan[c].id
    <2>1. /\ opening' = opening /\ begun' = begun /\ (guard' = EndBound(guard, i) \/ guard' = guard)
      BY <1>10 DEF Bind, KernelBound
    <2>2. i \in Id
      BY <1>10, ChanFacts DEF Bind, LinkInv
    <2> QED
      BY <1>0, <1>1, <1>2, <2>1, <2>2, EndBoundFacts
  <1>11. ASSUME NEW c \in Chan, Retry(c) \/ BindDuplicate(c) \/ Died(c) PROVE Goal
    BY <1>2, <1>11 DEF Retry, BindDuplicate, Died, kernelVars
  <1>12. ASSUME NEW i \in Id, Close(i) \/ (\E h \in Handle : Inbound(i, h)) PROVE Goal
    BY <1>2, <1>12 DEF Close, Inbound, kernelVars
  <1>13. ASSUME NEW i \in Id, FreshRecord(i) PROVE Goal
    BY <1>0, <1>1, <1>13, RefreshedFacts DEF FreshRecord
  <1>14. CASE Maintain
    <2>1. guard' = SweepAttempts(guard) /\ opening' = opening /\ begun' = begun
      BY <1>14 DEF Maintain
    <2>2. GuardType(guard') /\ \A j \in Id : guard'[j] = guard[j] \/ guard[j].age > InflightMaxMs
      BY <1>0, <2>1, SweepFacts
    <2>3. FailureIsOwn
      BY <1>0, <2>2 DEF FailureIsOwn
    <2> QED
      BY <1>0, <2>1, <2>2, <2>3
  <1>15. CASE Tick
    BY <1>0, <1>1, <1>15, LaterFacts DEF Tick
  <1>16. CASE UNCHANGED vars
    BY <1>2, <1>16 DEF vars, kernelVars
  <1> QED
    BY <1>3, <1>4, <1>5, <1>6, <1>7, <1>8, <1>9, <1>10, <1>11, <1>12, <1>13, <1>14, <1>15, <1>16 DEF Next

\* An event of an older channel ends no attempt: a failure is counted only by
\* the channel that the attempt named, by its dialer, or after the fail-safe.
THEOREM OwnFailureOnlyAlways == Spec => OwnFailureOnly
  <1>1. LinkInv /\ GuardInv /\ [Next]_vars =>
           [\A i \in Id : guard'[i].attempts > guard[i].attempts =>
              \/ guard[i].age > InflightMaxMs
              \/ opening' # opening
              \/ \E c \in Chan : chan[c].st = "negotiating" /\ chan'[c].st = "gone" /\ guard[i].inc \in {0, c}]_vars
    BY GuardStep DEF FailureIsOwn
  <1> QED
    BY LinkInit, LinkStep, GuardInit, GuardStep, <1>1, PTL DEF Spec, OwnFailureOnly

-----------------------------------------------------------------------------
(***************************************************************************)
(* Type correctness.                                                         *)
(***************************************************************************)
KernelType ==
    /\ paced \in [Id -> Nat] /\ synaptome \subseteq Id /\ seen \subseteq Id
    /\ admitted \in [Id -> Handle \cup {None}]

LEMMA KernelInit == Init => KernelType
  BY DEF Init, KernelType

LEMMA KernelStep == LinkInv /\ GuardInv /\ KernelType /\ [Next]_vars => KernelType'
  <1> SUFFICES ASSUME LinkInv, GuardInv, KernelType, [Next]_vars PROVE KernelType'
    OBVIOUS
  <1>0. RefillMs \in Nat /\ LinkType
    BY GuardNumbers DEF LinkInv
  <1>1. ASSUME paced' = paced, synaptome' \subseteq synaptome, seen' \subseteq seen, admitted' = admitted
        PROVE  KernelType'
    BY <1>1 DEF KernelType
  <1>2. ASSUME NEW i \in Id, ConsiderBound(i) \/ Consider(i) PROVE KernelType'
    BY <1>2 DEF ConsiderBound, Consider, linkVars, KernelType
  <1>3. ASSUME NEW o \in opening, OpenEnd(o) \/ Issue(o) PROVE KernelType'
    BY <1>1, <1>3 DEF OpenEnd, Issue, linkVars
  <1>4. ASSUME NEW i \in Id, NEW h \in Handle, Inbound(i, h) PROVE KernelType'
    BY <1>1, <1>4 DEF Inbound, kernelVars
  <1>5. ASSUME NEW c \in Chan, \/ Retry(c) \/ NegotiationFailed(c) \/ Rejected(c) \/ OfferDelivered(c)
                               \/ NoPath(c) \/ BindDuplicate(c)
        PROVE  KernelType'
    BY <1>1, <1>5 DEF Retry, NegotiationFailed, Rejected, OfferDelivered, NoPath, BindDuplicate, kernelVars
  <1>6. ASSUME NEW c \in Chan, Bind(c) PROVE KernelType'
    <2>1. chan[c].id \in Id /\ chan[c].handle \in Handle
      BY <1>0, <1>6, ChanFacts DEF Bind, ChanType
    <2>2. /\ paced' = paced /\ admitted' = [admitted EXCEPT ![chan[c].id] = chan[c].handle]
          /\ synaptome' \subseteq synaptome \cup {chan[c].id} /\ seen' \subseteq seen \cup {chan[c].id}
      BY <1>6 DEF Bind, KernelBound
    <2> QED
      BY <2>1, <2>2 DEF KernelType
  <1>7. ASSUME NEW c \in Chan, Died(c) PROVE KernelType'
    <2>1. chan[c].id \in Id
      BY <1>0, <1>7, ChanFacts DEF Died
    <2> QED
      BY <1>7, <2>1 DEF Died, KernelType
  <1>8. ASSUME NEW i \in Id, Close(i) \/ FreshRecord(i) PROVE KernelType'
    BY <1>0, <1>8 DEF Close, FreshRecord, linkVars, KernelType
  <1>9. CASE Maintain
    BY <1>9 DEF Maintain, Reconciled, linkVars, KernelType
  <1>10. CASE Tick
    BY <1>10 DEF Tick, linkVars, KernelType
  <1>11. CASE UNCHANGED vars
    BY <1>1, <1>11 DEF vars, kernelVars, linkVars
  <1> QED
    BY <1>2, <1>3, <1>4, <1>5, <1>6, <1>7, <1>8, <1>9, <1>10, <1>11 DEF Next

\* Every variable of the kernel, the marks, the guard and the links stays in its
\* type, for every number of identities, channels and dials.
THEOREM DialTypes == Spec => []TypeOK
  <1>1. LinkInv /\ WaitInv /\ GuardInv /\ KernelType => TypeOK
    <2> SUFFICES ASSUME LinkInv, WaitInv, GuardInv, KernelType PROVE TypeOK
      OBVIOUS
    <2>1. \A c \in Chan : chan[c] = NoChan \/ chan[c] \in ChanType
      BY DEF LinkInv, LinkType
    <2>2. MarksType(marks) /\ window \in [Id -> Nat]
      BY DEF WaitInv, MarksInv
    <2>3. offers \subseteq Chan
      BY DEF GuardInv
    <2> QED
      BY <2>1, <2>2, <2>3 DEF TypeOK, LinkInv, LinkType, GuardInv, KernelType, ChanType
  <1>2. LinkInv => LinkType
    BY DEF LinkInv
  <1> QED
    BY LinkInit, LinkStep, WaitInit, WaitStep, GuardInit, GuardStep, KernelInit, KernelStep, <1>1, <1>2, PTL DEF Spec

=============================================================================
