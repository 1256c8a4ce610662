------------------------- MODULE WriteFlightProofs -------------------------
(***************************************************************************)
(* What a completed flight proves, and how far a write is promoted, for     *)
(* every set of roots and writes and every bound.                           *)
(***************************************************************************)
EXTENDS WriteFlight, FiniteSetTheorems, WellFoundedInduction, TLAPS

\* An ack on its way, and one whose signer is being checked, is the word of a
\* root that has ingested the write; a root never forgets one.
AckHonest ==
    /\ DOMAIN held = Root
    /\ \A a \in acks \cup verifying : a.from \in Root /\ a.w \in held[a.from]
    /\ \A a \in acked : a.root \in Root /\ a.w \in held[a.root]

LEMMA AckInit == Init => AckHonest
  BY DEF Init, AckHonest

\* Steps that send and complete no ack.
LEMMA NoNewAck ==
  ASSUME AckHonest, held' = held, acked' = acked, acks' \subseteq acks, verifying' \subseteq verifying \cup acks
  PROVE  AckHonest'
  BY DEF AckHonest

LEMMA AckStep == AckHonest /\ [Next]_vars => AckHonest'
  <1> SUFFICES ASSUME AckHonest, [Next]_vars PROVE AckHonest'
    OBVIOUS
  <1>1. ASSUME NEW w \in Write, Forward(w) \/ SelfHandle(w) PROVE AckHonest'
    BY <1>1, NoNewAck DEF Forward, SelfHandle, rootVars
  <1>2. ASSUME NEW r \in Root, NEW c \in sent, Ingest(r, c) PROVE AckHonest'
    <2>1. held' = [held EXCEPT ![r] = @ \cup {c[2]}] /\ acked' = acked /\ verifying' = verifying
      BY <1>2 DEF Ingest, flightVars, ghostVars
    <2>2. \A x \in Root : held[x] \subseteq held'[x]
      BY <2>1 DEF AckHonest
    <2>3. PICK b : acks' = acks \cup {b} /\ b.from = r /\ b.w = c[2]
      <3> DEFINE ack == [w |-> c[2], from |-> r, epoch |-> epochOf[r], gen |-> c[1]]
                 b   == IF r \in Signer THEN ack ELSE [ack EXCEPT !.gen = 0]
      <3>1. acks' = acks \cup {b}
        BY <1>2 DEF Ingest
      <3>2. b.from = r /\ b.w = c[2]
        OBVIOUS
      <3> QED
        BY <3>1, <3>2
    <2>4. c[2] \in held'[r]
      BY <2>1 DEF AckHonest
    <2> QED
      BY <2>1, <2>2, <2>3, <2>4 DEF AckHonest
  <1>3. ASSUME NEW r \in Root, NEW g \in Gen, AnswerProbe(r, g) PROVE AckHonest'
    <2>1. held' = held /\ acked' = acked /\ verifying' = verifying
      BY <1>3 DEF AnswerProbe, flightVars, rootVars, ghostVars
    <2>2. \A a \in acks' : a \in acks \/ (a.from = r /\ a.w \in held[r])
      BY <1>3 DEF AnswerProbe
    <2> QED
      BY <2>1, <2>2 DEF AckHonest
  <1>4. ASSUME NEW r \in Root, ReMint(r) \/ OnRootBeacon(r) PROVE AckHonest'
    BY <1>4, NoNewAck DEF ReMint, OnRootBeacon, flightVars, rootVars, ghostVars
  <1>5. ASSUME BeaconGone \/ HoldEnds \/ OnReceiptNack PROVE AckHonest'
    BY <1>5, NoNewAck DEF BeaconGone, HoldEnds, OnReceiptNack, rootVars, ghostVars
  <1>6. ASSUME NEW a \in acks, OnAck(a) PROVE AckHonest'
    <2>1. held' = held /\ acks' \subseteq acks /\ verifying' = verifying
      BY <1>6 DEF OnAck, rootVars
    <2>2. \A b \in acked' : b \in acked \/ (b.w = a.w /\ b.root = a.from)
      BY <1>6 DEF OnAck, Binds
    <2> QED
      BY <2>1, <2>2 DEF AckHonest
  <1>7. ASSUME NEW a \in acks, VerifyBegin(a) PROVE AckHonest'
    BY <1>7, NoNewAck DEF VerifyBegin, rootVars, ghostVars
  <1>8. ASSUME NEW a \in verifying, VerifyEnd(a) PROVE AckHonest'
    <2>1. held' = held /\ acks' = acks /\ verifying' \subseteq verifying
      BY <1>8 DEF VerifyEnd, rootVars
    <2>2. \A b \in acked' : b \in acked \/ (b.w = a.w /\ b.root = a.from)
      BY <1>8 DEF VerifyEnd
    <2> QED
      BY <2>1, <2>2 DEF AckHonest
  <1>9. ASSUME NEW g \in Gen, Probe(g) \/ Evict(g) PROVE AckHonest'
    BY <1>9, NoNewAck DEF Probe, Evict, rootVars, ghostVars
  <1>10. CASE UNCHANGED vars
    BY <1>10, NoNewAck DEF vars, flightVars, rootVars, ghostVars
  <1> QED
    BY <1>1, <1>2, <1>3, <1>4, <1>5, <1>6, <1>7, <1>8, <1>9, <1>10 DEF Next

-----------------------------------------------------------------------------
\* "The ack is the ONLY terminal success, and it must BIND": whichever roots
\* ack, late, twice, or for another root's flight, a flight's entry completes
\* only when the root it was sent to has ingested the write (_flightComplete,
\* _flightCompleteSigned).
THEOREM AcksProve == Spec => []AckProves
  <1>1. AckHonest => AckProves
    BY DEF AckHonest, AckProves
  <1> QED
    BY AckInit, AckStep, <1>1, PTL DEF Spec

-----------------------------------------------------------------------------
(***************************************************************************)
(* The chain of promotions of a write.                                       *)
(***************************************************************************)
Entries == UNION {[S -> Entry] : S \in SUBSET Write}
Stage == {"none", "await-ack", "probing", "retrying"}
FlightType == [root : Root \cup {None}, epoch : Epoch, stage : Stage, rounds : 0..MaxRounds, entries : Entries]

\* A key names a flight that is toward its root under its epoch, and every flight has
\* a root.
Coherent(fl, ix) ==
    /\ \A k \in Key : ix[k] # 0 => fl[ix[k]].stage # "none" /\ <<fl[ix[k]].root, fl[ix[k]].epoch>> = k
    /\ \A g \in Gen : fl[g].stage # "none" => fl[g].root \in Root

FlightsTyped == flight \in [Gen -> FlightType] /\ index \in [Key -> 0..MaxFlight] /\ Coherent(flight, index)
LedgerTyped  == /\ DOMAIN chain \subseteq Write /\ (\A w \in DOMAIN chain : chain[w] \in Entry)
                /\ age \in [DOMAIN chain -> Nat] /\ Cardinality(DOMAIN chain) <= ChainMax
OthersTyped  == /\ beacon \in Claim \cup {None} /\ tomb \in Claim \cup {None} /\ hold \in Root \cup {None}
                /\ handling \subseteq Write /\ nack \in BOOLEAN /\ epochOf \in [Root -> Epoch]
                /\ forwards \in [Write -> Nat] /\ evictions \in [Write -> Seq(Root)]
FlightTypes  == FlightsTyped /\ LedgerTyped /\ OthersTyped

\* An open flight has the write.
Carries(fl, ix, g, w) ==
    fl[g].stage # "none" /\ ix[<<fl[g].root, fl[g].epoch>>] = g /\ w \in DOMAIN fl[g].entries

\* An entry inherits from another.
Over(e, d) == d.promotions <= e.promotions /\ d.tried \subseteq e.tried

\* An entry knows of every eviction of the write.
Covers(e, w) == Len(evictions[w]) <= e.promotions /\ Range(evictions[w]) \subseteq e.tried

\* A write that came in once is in one place, and what is kept of it there covers its
\* evictions.
ChainOf(w) ==
    forwards[w] <= 1 =>
      /\ \A g \in Gen : Carries(flight, index, g, w) =>
            /\ forwards[w] = 1 /\ w \notin handling /\ Covers(flight[g].entries[w], w)
            /\ Len(evictions[w]) <= MaxPromotions
            /\ \A h \in Gen : Carries(flight, index, h, w) => h = g
      /\ w \in handling => /\ forwards[w] = 1 /\ w \in DOMAIN chain /\ Covers(chain[w], w)
                           /\ Len(evictions[w]) <= MaxPromotions
      /\ forwards[w] = 0 => evictions[w] = <<>>
      /\ Len(evictions[w]) <= MaxPromotions + 1

ChainInv == \A w \in Write : ChainOf(w)

\* The chain ledger can hold a record of every write.
ChainSuffices == Cardinality(Write) <= ChainMax

LEMMA FlightNumbers ==
  /\ Root \subseteq Nat /\ SelfDist \in Nat /\ IsFiniteSet(Write) /\ None \notin Root
  /\ MaxRounds \in Nat /\ MaxPromotions \in Nat /\ ChainMax \in Nat /\ MaxEpoch \in Nat /\ MaxEpoch # 0 /\ MaxFlight \in Nat
  /\ Held \subseteq Root
  BY FlightAssumption

\* Some natural numbers have a least one among them.
LEMMA LeastNumber ==
  ASSUME NEW T \in SUBSET Nat, T # {}
  PROVE  \E x \in T : \A y \in T : x <= y
  <1>1. PICK x \in T : \A y \in T : <<y, x>> \notin OpToRel(<, Nat)
    BY NatLessThanWellFounded, WFMin
  <1>2. \A y \in T : ~(y < x)
    BY <1>1, Zenon DEF OpToRel
  <1> QED
    BY <1>2

\* The pick is this node, or a neighbour that is not excluded.
LEMMA PickIs ==
  ASSUME NEW N \in SUBSET Root, NEW excluded, Pick(N, excluded) # SelfDist
  PROVE  Pick(N, excluded) \in Root \ excluded
  <1> DEFINE T == (N \ excluded) \cup {SelfDist}
  <1>1. T \in SUBSET Nat /\ T # {}
    BY FlightNumbers
  <1>2. \E x \in T : \A y \in T : x <= y
    BY <1>1, LeastNumber
  <1>3. Min(T) \in T
    BY <1>2 DEF Min
  <1> QED
    BY <1>3 DEF Pick

LEMMA MergedIs ==
  ASSUME NEW a \in Entry, NEW b \in Entry
  PROVE  Merged(a, b) \in Entry /\ Over(Merged(a, b), a) /\ Over(Merged(a, b), b)
  <1>1. Larger(a.promotions, b.promotions) \in Nat /\ Larger(a.promotions, b.promotions) >= a.promotions
        /\ Larger(a.promotions, b.promotions) >= b.promotions
    BY DEF Larger, Entry
  <1>2. PICK n \in Nat : n = Larger(a.promotions, b.promotions)
    BY <1>1
  <1>3. Merged(a, b) = [promotions |-> n, tried |-> a.tried \cup b.tried]
    BY <1>2 DEF Merged
  <1> QED
    BY <1>1, <1>2, <1>3 DEF Entry, Over

LEMMA OverTransitive ==
  ASSUME NEW a \in Entry, NEW b \in Entry, NEW c \in Entry, Over(a, b), Over(b, c) PROVE Over(a, c)
  BY DEF Over, Entry

LEMMA EntriesAre ==
  ASSUME NEW f
  PROVE  f \in Entries <=> (f = [x \in DOMAIN f |-> f[x]] /\ DOMAIN f \subseteq Write /\ \A x \in DOMAIN f : f[x] \in Entry)
  BY DEF Entries

LEMMA NoneAre == NoEntry \in Entry /\ NoFlight \in FlightType /\ NoFlight.stage = "none" /\ NoFlight.entries = <<>>
  <1>1. NoEntry \in Entry
    BY DEF NoEntry, Entry
  <1>2. DOMAIN <<>> = {} /\ <<>> = [x \in {} |-> 0]
    OBVIOUS
  <1>3. <<>> \in Entries
    BY <1>2, EntriesAre
  <1>4. PICK es : es = <<>>
    OBVIOUS
  <1>5. NoFlight = [root |-> None, epoch |-> 0, stage |-> "none", rounds |-> 0, entries |-> es]
    BY <1>4 DEF NoFlight
  <1>6. NoFlight \in FlightType
    BY <1>3, <1>4, <1>5, FlightNumbers DEF FlightType, Stage, Epoch
  <1> QED
    BY <1>1, <1>4, <1>5, <1>6

(***************************************************************************)
(* Opening a flight.                                                         *)
(***************************************************************************)
\* The entries of a flight that is opened or joined.
LEMMA JoinedEntries ==
  ASSUME NEW m \in Entries, NEW have \in Entries, NEW ch, \A w \in DOMAIN ch : ch[w] \in Entry,
         NEW es, es = [w \in DOMAIN have \cup DOMAIN m |->
                         IF w \in DOMAIN m
                         THEN Merged(IF w \in DOMAIN have THEN have[w] ELSE NoEntry, Merged(m[w], ChainGet(w, ch)))
                         ELSE have[w]]
  PROVE  /\ es \in Entries /\ DOMAIN es = DOMAIN have \cup DOMAIN m
         /\ \A w \in DOMAIN m : Over(es[w], m[w]) /\ (w \in DOMAIN ch => Over(es[w], ch[w]))
         /\ \A w \in DOMAIN have \ DOMAIN m : es[w] = have[w]
  <1>1. /\ DOMAIN m \subseteq Write /\ \A x \in DOMAIN m : m[x] \in Entry
        /\ DOMAIN have \subseteq Write /\ \A x \in DOMAIN have : have[x] \in Entry
    BY EntriesAre
  <1>2. DOMAIN es = DOMAIN have \cup DOMAIN m
    OBVIOUS
  <1>3. ASSUME NEW w \in DOMAIN m
        PROVE  es[w] \in Entry /\ Over(es[w], m[w]) /\ (w \in DOMAIN ch => Over(es[w], ch[w]))
    <2>1. PICK a \in Entry : a = IF w \in DOMAIN have THEN have[w] ELSE NoEntry
      BY <1>1, NoneAre
    <2>2. PICK b \in Entry : b = ChainGet(w, ch)
      BY NoneAre DEF ChainGet
    <2>3. PICK c \in Entry : c = Merged(m[w], b) /\ Over(c, m[w]) /\ Over(c, b)
      BY <1>1, MergedIs
    <2>4. es[w] = Merged(a, c)
      BY <1>2, <2>1, <2>2, <2>3
    <2>5. es[w] \in Entry /\ Over(es[w], c)
      BY <2>4, MergedIs
    <2>6. Over(es[w], m[w]) /\ Over(es[w], b)
      BY <1>1, <2>3, <2>5, OverTransitive
    <2>7. w \in DOMAIN ch => b = ch[w]
      BY <2>2 DEF ChainGet
    <2> QED
      BY <2>5, <2>6, <2>7
  <1>4. \A w \in DOMAIN have \ DOMAIN m : es[w] = have[w] /\ es[w] \in Entry
    BY <1>1
  <1>5. es = [x \in DOMAIN es |-> es[x]]
    OBVIOUS
  <1>6. es \in Entries
    BY <1>1, <1>2, <1>3, <1>4, <1>5, EntriesAre
  <1> QED
    BY <1>2, <1>3, <1>4, <1>6

\* Object g, once f, is opened toward r under key k, or joined if the key names it.
OpenedAs(g, k, f, have, r, m, fl, ix, ch) ==
    /\ flight' = [fl EXCEPT ![g] = f] /\ index' = [ix EXCEPT ![k] = g] /\ sent' = sent \cup {<<g, w>> : w \in DOMAIN m}
    /\ f.root = r /\ <<f.root, f.epoch>> = k /\ f.stage # "none"
    /\ \/ ix[k] = g /\ have = fl[g].entries
       \/ ix[k] = 0 /\ fl[g].stage = "none" /\ have = <<>>
    /\ DOMAIN f.entries = DOMAIN have \cup DOMAIN m
    /\ \A w \in DOMAIN m : Over(f.entries[w], m[w]) /\ (w \in DOMAIN ch => Over(f.entries[w], ch[w]))
    /\ \A w \in DOMAIN have \ DOMAIN m : f.entries[w] = have[w]

\* The flight that is opened toward r.
LEMMA OpenIs ==
  ASSUME NEW r \in Root, NEW m \in Entries, NEW fl \in [Gen -> FlightType], NEW ix \in [Key -> 0..MaxFlight], Coherent(fl, ix),
         NEW ch, \A w \in DOMAIN ch : ch[w] \in Entry, NEW b \in Claim \cup {None}, OpenFlight(r, m, fl, ix, ch, b)
  PROVE  \E g \in Gen, k \in Key, f \in FlightType, have \in Entries :
            OpenedAs(g, k, f, have, r, m, fl, ix, ch)
  <1> DEFINE e0 == IF b = None THEN 0 ELSE b.epoch
             k0 == <<r, e0>>
             spare(x) == fl[x].stage = "none" /\ \A y \in Gen : y < x => fl[y].stage # "none"
             g0  == IF ix[k0] # 0 THEN ix[k0] ELSE CHOOSE x \in Gen : spare(x)
             old == IF ix[k0] # 0 THEN fl[g0] ELSE [NoFlight EXCEPT !.root = r, !.epoch = e0, !.stage = "await-ack"]
             es  == [w \in DOMAIN old.entries \cup DOMAIN m |->
                         IF w \in DOMAIN m
                         THEN Merged(IF w \in DOMAIN old.entries THEN old.entries[w] ELSE NoEntry, Merged(m[w], ChainGet(w, ch)))
                         ELSE old.entries[w]]
  <1>1. e0 \in Epoch /\ k0 \in Key
    BY FlightNumbers DEF Epoch, Claim, Key
  <1>2. /\ \E x \in Gen : ix[k0] # 0 \/ fl[x].stage = "none"
        /\ flight' = [fl EXCEPT ![g0] = [old EXCEPT !.entries = es]]
        /\ index' = [ix EXCEPT ![k0] = g0]
        /\ sent' = sent \cup {<<g0, w>> : w \in DOMAIN m}
    BY DEF OpenFlight
  <1> HIDE DEF es
  <1>3. ix[k0] # 0 => g0 \in Gen /\ ix[k0] = g0
    BY <1>1 DEF Gen
  <1>4. ix[k0] = 0 => g0 \in Gen /\ fl[g0].stage = "none"
    <2> SUFFICES ASSUME ix[k0] = 0 PROVE g0 \in Gen /\ fl[g0].stage = "none"
      OBVIOUS
    <2>1. {x \in Gen : fl[x].stage = "none"} # {} /\ {x \in Gen : fl[x].stage = "none"} \in SUBSET Nat
      BY <1>2 DEF Gen
    <2>2. PICK x \in {x \in Gen : fl[x].stage = "none"} : \A y \in {z \in Gen : fl[z].stage = "none"} : x <= y
      BY <2>1, LeastNumber
    <2>3. spare(x) /\ x \in Gen
      BY <2>2 DEF Gen
    <2>4. g0 = CHOOSE z \in Gen : spare(z)
      OBVIOUS
    <2>5. spare(g0) /\ g0 \in Gen
      <3> HIDE DEF spare, g0
      <3> QED
        BY <2>3, <2>4
    <2> QED
      BY <2>5
  <1>5. /\ old \in FlightType /\ old.root = r /\ old.epoch = e0 /\ old.stage # "none"
        /\ ix[k0] # 0 => old.entries = fl[g0].entries
        /\ ix[k0] = 0 => old.entries = <<>>
    <2>1. CASE ix[k0] # 0
      BY <1>1, <1>3, <2>1 DEF Coherent
    <2>2. CASE ix[k0] = 0
      <3>1. old = [NoFlight EXCEPT !.root = r, !.epoch = e0, !.stage = "await-ack"]
        BY <2>2
      <3>2. "await-ack" \in Stage
        BY DEF Stage
      <3> HIDE DEF old, e0
      <3> QED
        BY <1>1, <2>2, <3>1, <3>2, NoneAre DEF FlightType
    <2> QED
      BY <2>1, <2>2
  <1>6. PICK g \in Gen, k \in Key : g = g0 /\ k = k0
    BY <1>1, <1>3, <1>4
  <1>7. PICK have \in Entries : have = old.entries
    BY <1>5 DEF FlightType
  <1>8. /\ es \in Entries /\ DOMAIN es = DOMAIN have \cup DOMAIN m
        /\ \A w \in DOMAIN m : Over(es[w], m[w]) /\ (w \in DOMAIN ch => Over(es[w], ch[w]))
        /\ \A w \in DOMAIN have \ DOMAIN m : es[w] = have[w]
    <2> HIDE DEF old
    <2>1. es = [w \in DOMAIN have \cup DOMAIN m |->
                  IF w \in DOMAIN m
                  THEN Merged(IF w \in DOMAIN have THEN have[w] ELSE NoEntry, Merged(m[w], ChainGet(w, ch)))
                  ELSE have[w]]
      BY <1>7 DEF es
    <2>2. PICK e : e = es
      OBVIOUS
    <2>3. /\ e \in Entries /\ DOMAIN e = DOMAIN have \cup DOMAIN m
          /\ \A w \in DOMAIN m : Over(e[w], m[w]) /\ (w \in DOMAIN ch => Over(e[w], ch[w]))
          /\ \A w \in DOMAIN have \ DOMAIN m : e[w] = have[w]
      BY <2>1, <2>2, JoinedEntries
    <2> QED
      BY <2>2, <2>3
  <1>9. PICK f : f = [old EXCEPT !.entries = es]
    OBVIOUS
  <1> HIDE DEF old, g0, k0, e0
  <1>10. f \in FlightType /\ f.root = r /\ f.epoch = e0 /\ f.stage # "none" /\ f.entries = es
    BY <1>5, <1>8, <1>9 DEF FlightType
  <1>11. k = <<f.root, f.epoch>>
    BY <1>6, <1>10 DEF k0
  <1>12. \/ ix[k] = g /\ have = fl[g].entries
         \/ ix[k] = 0 /\ fl[g].stage = "none" /\ have = <<>>
    BY <1>3, <1>4, <1>5, <1>6, <1>7
  <1>13. flight' = [fl EXCEPT ![g] = f] /\ index' = [ix EXCEPT ![k] = g] /\ sent' = sent \cup {<<g, w>> : w \in DOMAIN m}
    BY <1>2, <1>6, <1>9
  <1>14. OpenedAs(g, k, f, have, r, m, fl, ix, ch)
    BY <1>8, <1>10, <1>11, <1>12, <1>13 DEF OpenedAs
  <1> QED
    BY <1>10, <1>14

\* What the flights carry once one is opened.
LEMMA OpenCarries ==
  ASSUME NEW r \in Root, NEW m \in Entries, NEW fl \in [Gen -> FlightType], NEW ix \in [Key -> 0..MaxFlight], Coherent(fl, ix),
         NEW ch, \A w \in DOMAIN ch : ch[w] \in Entry, NEW b \in Claim \cup {None}, OpenFlight(r, m, fl, ix, ch, b)
  PROVE  /\ flight' \in [Gen -> FlightType] /\ index' \in [Key -> 0..MaxFlight] /\ Coherent(flight', index')
         /\ \E g \in Gen :
              /\ flight'[g].root = r /\ sent' = sent \cup {<<g, w>> : w \in DOMAIN m}
              /\ \A h \in Gen : \A w : Carries(flight', index', h, w) =>
                   \/ /\ w \in DOMAIN m /\ h = g /\ Over(flight'[h].entries[w], m[w])
                      /\ w \in DOMAIN ch => Over(flight'[h].entries[w], ch[w])
                   \/ Carries(fl, ix, h, w) /\ flight'[h].entries[w] = fl[h].entries[w]
  <1>1. PICK g \in Gen, k \in Key, f \in FlightType, have \in Entries :
            OpenedAs(g, k, f, have, r, m, fl, ix, ch)
    BY OpenIs
  <1> USE DEF OpenedAs
  <1>2. g \in 0..MaxFlight /\ g # 0
    BY FlightNumbers DEF Gen
  <1>3. PICK fl2, ix2 : fl2 = flight' /\ ix2 = index'
    OBVIOUS
  <1>4. /\ fl2 \in [Gen -> FlightType] /\ ix2 \in [Key -> 0..MaxFlight] /\ fl2[g] = f /\ ix2[k] = g
        /\ \A h \in Gen : h # g => fl2[h] = fl[h]
        /\ \A j \in Key : j # k => ix2[j] = ix[j]
    BY <1>1, <1>2, <1>3
  <1>5. Coherent(fl2, ix2)
    <2>0. \A h \in Gen : fl2[h].stage # "none" => fl2[h].root \in Root
      BY <1>1, <1>4 DEF Coherent
    <2> SUFFICES ASSUME NEW j \in Key, ix2[j] # 0
                 PROVE  fl2[ix2[j]].stage # "none" /\ <<fl2[ix2[j]].root, fl2[ix2[j]].epoch>> = j
      BY <2>0 DEF Coherent
    <2>1. CASE j = k
      BY <1>1, <1>4, <2>1
    <2>2. CASE j # k
      <3>1. ix2[j] = ix[j] /\ ix[j] # 0 /\ ix[j] \in Gen
        BY <1>4, <2>2, FlightNumbers DEF Gen
      <3>2. fl[ix[j]].stage # "none" /\ <<fl[ix[j]].root, fl[ix[j]].epoch>> = j
        BY <3>1 DEF Coherent
      <3>3. ix[j] # g
        <4>1. CASE ix[k] = g
          <5>1. <<fl[g].root, fl[g].epoch>> = k
            BY <1>2, <4>1 DEF Coherent
          <5> QED
            BY <2>2, <3>2, <5>1
        <4>2. CASE ix[k] = 0 /\ fl[g].stage = "none"
          BY <3>2, <4>2
        <4> QED
          BY <1>1, <4>1, <4>2
      <3> QED
        BY <1>4, <3>1, <3>2, <3>3
    <2> QED
      BY <2>1, <2>2
  <1>6. ASSUME NEW h \in Gen, NEW w, Carries(fl2, ix2, h, w)
        PROVE  \/ /\ w \in DOMAIN m /\ h = g /\ Over(fl2[h].entries[w], m[w])
                  /\ w \in DOMAIN ch => Over(fl2[h].entries[w], ch[w])
               \/ Carries(fl, ix, h, w) /\ fl2[h].entries[w] = fl[h].entries[w]
    <2>1. CASE h = g /\ w \in DOMAIN m
      BY <1>1, <1>4, <2>1
    <2>2. CASE h = g /\ w \notin DOMAIN m
      <3>1. w \in DOMAIN have /\ f.entries[w] = have[w]
        BY <1>1, <1>4, <1>6, <2>2 DEF Carries
      <3>2. have # <<>>
        BY <3>1
      <3>3. ix[k] = g /\ have = fl[g].entries
        BY <1>1, <3>2
      <3>4. fl[g].stage # "none" /\ <<fl[g].root, fl[g].epoch>> = k
        BY <1>2, <3>3 DEF Coherent
      <3>5. Carries(fl, ix, g, w)
        BY <3>1, <3>3, <3>4 DEF Carries
      <3> QED
        BY <1>4, <2>2, <3>1, <3>3, <3>5
    <2>3. CASE h # g
      <3>1. fl2[h] = fl[h] /\ ix2[<<fl[h].root, fl[h].epoch>>] = h /\ fl[h].stage # "none" /\ w \in DOMAIN fl[h].entries
        BY <1>4, <1>6, <2>3 DEF Carries
      <3>2. <<fl[h].root, fl[h].epoch>> # k
        BY <1>4, <2>3, <3>1
      <3>3. ix2 = [ix EXCEPT ![k] = g]
        BY <1>1, <1>3
      <3>4. ix[<<fl[h].root, fl[h].epoch>>] = h
        <4>1. CASE <<fl[h].root, fl[h].epoch>> \in Key
          BY <1>4, <3>1, <3>2, <4>1
        <4>2. CASE <<fl[h].root, fl[h].epoch>> \notin Key
          BY <3>1, <3>2, <3>3, <4>2
        <4> QED
          BY <4>1, <4>2
      <3> QED
        BY <3>1, <3>4 DEF Carries
    <2> QED
      BY <2>1, <2>2, <2>3
  <1>7. /\ flight'[g].root = r
        /\ \A h \in Gen : \A w : Carries(flight', index', h, w) =>
             \/ /\ w \in DOMAIN m /\ h = g /\ Over(flight'[h].entries[w], m[w])
                /\ w \in DOMAIN ch => Over(flight'[h].entries[w], ch[w])
             \/ Carries(fl, ix, h, w) /\ flight'[h].entries[w] = fl[h].entries[w]
    BY <1>1, <1>3, <1>4, <1>6
  <1> QED
    BY <1>1, <1>3, <1>4, <1>5, <1>7

(***************************************************************************)
(* The types.                                                                *)
(***************************************************************************)
LEMMA FlightInit == Init => FlightTypes
  <1> SUFFICES ASSUME Init PROVE FlightTypes
    OBVIOUS
  <1>1. flight \in [Gen -> FlightType] /\ index \in [Key -> 0..MaxFlight] /\ Coherent(flight, index)
    BY NoneAre, FlightNumbers DEF Init, Coherent
  <1>2. DOMAIN chain = {} /\ DOMAIN age = {} /\ age = [w \in {} |-> 0]
    BY DEF Init
  <1>3. Cardinality(DOMAIN chain) <= ChainMax
    BY <1>2, FS_EmptySet, FlightNumbers
  <1>4. epochOf \in [Root -> Epoch] /\ hold \in Root \cup {None}
    BY FlightNumbers DEF Init, Epoch
  <1>5. forwards \in [Write -> Nat] /\ evictions \in [Write -> Seq(Root)]
    BY DEF Init
  <1>6. beacon = None /\ tomb = None /\ handling = {} /\ nack = FALSE
    BY DEF Init
  <1> QED
    BY <1>1, <1>2, <1>3, <1>4, <1>5, <1>6 DEF FlightTypes, FlightsTyped, LedgerTyped, OthersTyped

\* The ledger after a note.
LEMMA Noted ==
  ASSUME FlightTypes, NEW m \in Entries, NoteAll(m)
  PROVE  /\ DOMAIN chain' \subseteq Write /\ (\A w \in DOMAIN chain' : chain'[w] \in Entry)
         /\ age' \in [DOMAIN chain' -> Nat] /\ Cardinality(DOMAIN chain') <= ChainMax
         /\ \A w \in DOMAIN chain' : chain'[w] = IF w \in DOMAIN m THEN m[w] ELSE chain[w]
         /\ ChainSuffices => DOMAIN chain' = DOMAIN chain \cup DOMAIN m
  <1> DEFINE noted  == DOMAIN chain \cup DOMAIN m
             since  == [w \in noted |-> IF w \in DOMAIN m THEN 0 ELSE age[w] + 1]
             record == [w \in noted |-> IF w \in DOMAIN m THEN m[w] ELSE chain[w]]
  <1>1. DOMAIN m \subseteq Write /\ (\A w \in DOMAIN m : m[w] \in Entry) /\ noted \subseteq Write
    BY EntriesAre DEF FlightTypes, FlightsTyped, LedgerTyped, OthersTyped
  <1>2. PICK kept \in SUBSET noted :
          /\ IF Cardinality(noted) <= ChainMax THEN kept = noted ELSE Cardinality(kept) = ChainMax
          /\ age' = [w \in kept |-> since[w]]
          /\ chain' = [w \in kept |-> record[w]]
    BY DEF NoteAll
  <1>3. DOMAIN chain' = kept
    BY <1>2
  <1>4. \A w \in kept : chain'[w] = (IF w \in DOMAIN m THEN m[w] ELSE chain[w]) /\ chain'[w] \in Entry
    BY <1>1, <1>2 DEF FlightTypes, FlightsTyped, LedgerTyped, OthersTyped
  <1>5. age' \in [kept -> Nat]
    BY <1>2 DEF FlightTypes, FlightsTyped, LedgerTyped, OthersTyped
  <1>6. IsFiniteSet(noted) /\ Cardinality(noted) \in Nat /\ Cardinality(noted) <= Cardinality(Write)
    BY <1>1, FlightNumbers, FS_Subset, FS_CardinalityType
  <1>7. Cardinality(kept) <= ChainMax
    BY <1>2, FlightNumbers
  <1>8. ChainSuffices => kept = noted
    <2>1. Cardinality(Write) \in Nat
      BY FlightNumbers, FS_CardinalityType
    <2> QED
      BY <1>2, <1>6, <2>1, FlightNumbers DEF ChainSuffices
  <1> QED
    BY <1>1, <1>3, <1>4, <1>5, <1>7, <1>8

\* An open flight is closed with what is left of its entries.
Gone(g, m) == [flight EXCEPT ![g].entries = m]
Rest(g)    == [index EXCEPT ![KeyOf(g)] = 0]

LEMMA ClosedIs ==
  ASSUME FlightTypes, NEW g \in Gen, Open(g), NEW m \in Entries
  PROVE  /\ Gone(g, m) \in [Gen -> FlightType] /\ Rest(g) \in [Key -> 0..MaxFlight] /\ Coherent(Gone(g, m), Rest(g))
         /\ \A h \in Gen : \A w : Carries(Gone(g, m), Rest(g), h, w) =>
               h # g /\ Carries(flight, index, h, w) /\ Gone(g, m)[h].entries[w] = flight[h].entries[w]
  <1> DEFINE fl == Gone(g, m)  ix == Rest(g)
  <1>1. flight[g] \in FlightType /\ flight \in [Gen -> FlightType] /\ index \in [Key -> 0..MaxFlight]
    BY DEF FlightTypes, FlightsTyped, LedgerTyped, OthersTyped
  <1>2. PICK f : f = [flight[g] EXCEPT !.entries = m]
    OBVIOUS
  <1>3. f \in FlightType /\ f.root = flight[g].root /\ f.epoch = flight[g].epoch /\ f.stage = flight[g].stage
    BY <1>1, <1>2 DEF FlightType
  <1>4. fl = [flight EXCEPT ![g] = f]
    BY <1>2 DEF Gone
  <1>5. fl \in [Gen -> FlightType] /\ fl[g] = f /\ \A h \in Gen : h # g => fl[h] = flight[h]
    BY <1>1, <1>3, <1>4
  <1>6. \A h \in Gen : fl[h].root = flight[h].root /\ fl[h].epoch = flight[h].epoch /\ fl[h].stage = flight[h].stage
    BY <1>3, <1>5
  <1>7. PICK k \in Key : k = KeyOf(g)
    BY <1>1 DEF Open, KeyOf, Key, FlightTypes, FlightsTyped, Coherent, FlightType
  <1>8. ix = [index EXCEPT ![k] = 0] /\ ix \in [Key -> 0..MaxFlight] /\ ix[k] = 0 /\ \A j \in Key : j # k => ix[j] = index[j]
    BY <1>1, <1>7, FlightNumbers DEF Rest
  <1> HIDE DEF ix
  <1> HIDE DEF fl
  <1>9. Coherent(fl, ix)
    <2>0. \A h \in Gen : fl[h].stage # "none" => fl[h].root \in Root
      BY <1>6 DEF FlightTypes, FlightsTyped, LedgerTyped, OthersTyped, Coherent
    <2> SUFFICES ASSUME NEW j \in Key, ix[j] # 0
                 PROVE  fl[ix[j]].stage # "none" /\ <<fl[ix[j]].root, fl[ix[j]].epoch>> = j
      BY <2>0 DEF Coherent
    <2>1. ix[j] = index[j] /\ index[j] \in Gen
      BY <1>1, <1>8, FlightNumbers DEF Gen
    <2>2. flight[index[j]].stage # "none" /\ <<flight[index[j]].root, flight[index[j]].epoch>> = j
      BY <2>1 DEF FlightTypes, FlightsTyped, LedgerTyped, OthersTyped, Coherent
    <2>3. PICK h \in Gen : h = index[j]
      BY <2>1
    <2> QED
      BY <1>6, <2>1, <2>2, <2>3
  <1>10. ASSUME NEW h \in Gen, NEW w, Carries(fl, ix, h, w)
         PROVE  h # g /\ Carries(flight, index, h, w) /\ fl[h].entries[w] = flight[h].entries[w]
    <2>1. ix[<<flight[h].root, flight[h].epoch>>] = h /\ h # 0 /\ fl[h].stage # "none" /\ w \in DOMAIN fl[h].entries
      BY <1>6, <1>10 DEF Carries, Gen
    <2>2. <<flight[h].root, flight[h].epoch>> # k
      BY <1>8, <2>1
    <2>3. h # g
      BY <1>7, <2>2 DEF KeyOf
    <2>4. index[<<flight[h].root, flight[h].epoch>>] = h
      BY <1>8, <2>1, <2>2
    <2> QED
      BY <1>5, <2>1, <2>3, <2>4 DEF Carries
  <1> QED
    BY <1>5, <1>8, <1>9, <1>10 DEF fl, ix

-----------------------------------------------------------------------------
(***************************************************************************)
(* The handlers.                                                             *)
(***************************************************************************)
\* Writes that no step of the promotion touches.
LEMMA QuietOf ==
  ASSUME NEW w \in Write, ChainOf(w), evictions'[w] = evictions[w], forwards'[w] = forwards[w],
         w \in handling' => w \in handling /\ (w \in DOMAIN chain => w \in DOMAIN chain' /\ chain'[w] = chain[w]),
         \A h \in Gen : Carries(flight', index', h, w) =>
            Carries(flight, index, h, w) /\ flight'[h].entries[w] = flight[h].entries[w]
  PROVE  ChainOf(w)'
  BY DEF ChainOf, Covers

\* A step that leaves writes, evictions and the ledger alone, and opens no flight.
LEMMA QuietStep ==
  ASSUME ChainInv, evictions' = evictions, forwards' = forwards, handling' = handling, chain' = chain,
         \A h \in Gen : \A w : Carries(flight', index', h, w) =>
            Carries(flight, index, h, w) /\ flight'[h].entries[w] = flight[h].entries[w]
  PROVE  ChainInv'
  <1>1. ASSUME NEW w \in Write PROVE ChainOf(w)'
    BY QuietOf DEF ChainInv
  <1> QED
    BY <1>1 DEF ChainInv

\* What the flights carry after this node's own handler.
LEMMA HandledIs ==
  ASSUME FlightTypes, NEW w \in Write, Handle(w)
  PROVE  /\ FlightsTyped'
         /\ \A h \in Gen : \A v : Carries(flight', index', h, v) =>
              \/ /\ v = w /\ (w \in DOMAIN chain => Over(flight'[h].entries[v], chain[v]))
                 /\ flight'[h].entries[v] \in Entry
                 /\ \A j \in Gen : Carries(flight', index', j, v) => j = h \/ Carries(flight, index, j, v)
              \/ Carries(flight, index, h, v) /\ flight'[h].entries[v] = flight[h].entries[v]
  <1>1. CASE UNCHANGED <<flight, index>>
    BY <1>1 DEF FlightTypes, FlightsTyped
  <1>2. ASSUME NEW r \in Root, OpenFlight(r, [x \in {w} |-> NoEntry], flight, index, chain, beacon)
        PROVE  /\ FlightsTyped'
               /\ \A h \in Gen : \A v : Carries(flight', index', h, v) =>
                    \/ /\ v = w /\ (w \in DOMAIN chain => Over(flight'[h].entries[v], chain[v]))
                       /\ flight'[h].entries[v] \in Entry
                       /\ \A j \in Gen : Carries(flight', index', j, v) => j = h \/ Carries(flight, index, j, v)
                    \/ Carries(flight, index, h, v) /\ flight'[h].entries[v] = flight[h].entries[v]
    <2>1. PICK m : m = [x \in {w} |-> NoEntry]
      OBVIOUS
    <2>2. m \in Entries /\ DOMAIN m = {w}
      BY <2>1, NoneAre, EntriesAre
    <2>3. /\ flight' \in [Gen -> FlightType] /\ index' \in [Key -> 0..MaxFlight] /\ Coherent(flight', index')
          /\ \E g \in Gen :
               /\ flight'[g].root = r /\ sent' = sent \cup {<<g, v>> : v \in DOMAIN m}
               /\ \A h \in Gen : \A v : Carries(flight', index', h, v) =>
                    \/ /\ v \in DOMAIN m /\ h = g /\ Over(flight'[h].entries[v], m[v])
                       /\ v \in DOMAIN chain => Over(flight'[h].entries[v], chain[v])
                    \/ Carries(flight, index, h, v) /\ flight'[h].entries[v] = flight[h].entries[v]
      <3>1. PICK fl, ix, ch, b : fl = flight /\ ix = index /\ ch = chain /\ b = beacon
        OBVIOUS
      <3>2. OpenFlight(r, m, fl, ix, ch, b)
        BY <1>2, <2>1, <3>1
      <3>3. fl \in [Gen -> FlightType] /\ ix \in [Key -> 0..MaxFlight] /\ Coherent(fl, ix) /\ b \in Claim \cup {None}
            /\ \A v \in DOMAIN ch : ch[v] \in Entry
        BY <3>1 DEF FlightTypes, FlightsTyped, LedgerTyped, OthersTyped
      <3>4. /\ flight' \in [Gen -> FlightType] /\ index' \in [Key -> 0..MaxFlight] /\ Coherent(flight', index')
            /\ \E g \in Gen :
               /\ flight'[g].root = r /\ sent' = sent \cup {<<g, v>> : v \in DOMAIN m}
               /\ \A h \in Gen : \A v : Carries(flight', index', h, v) =>
                    \/ /\ v \in DOMAIN m /\ h = g /\ Over(flight'[h].entries[v], m[v])
                       /\ v \in DOMAIN ch => Over(flight'[h].entries[v], ch[v])
                    \/ Carries(fl, ix, h, v) /\ flight'[h].entries[v] = fl[h].entries[v]
        BY <2>2, <3>2, <3>3, OpenCarries
      <3> QED
        BY <3>1, <3>4
    <2>4. FlightsTyped'
      BY <2>3 DEF FlightsTyped
    <2>5. PICK g \in Gen :
               \A h \in Gen : \A v : Carries(flight', index', h, v) =>
                    \/ /\ v \in DOMAIN m /\ h = g
                       /\ v \in DOMAIN chain => Over(flight'[h].entries[v], chain[v])
                    \/ Carries(flight, index, h, v) /\ flight'[h].entries[v] = flight[h].entries[v]
      BY <2>3
    <2>6. ASSUME NEW h \in Gen, NEW v, Carries(flight', index', h, v) PROVE flight'[h].entries[v] \in Entry
      BY <2>3, <2>6, EntriesAre DEF Carries, FlightType
    <2>7. ASSUME NEW h \in Gen, NEW v, Carries(flight', index', h, v)
          PROVE  \/ /\ v = w /\ (w \in DOMAIN chain => Over(flight'[h].entries[v], chain[v]))
                    /\ flight'[h].entries[v] \in Entry
                    /\ \A j \in Gen : Carries(flight', index', j, v) => j = h \/ Carries(flight, index, j, v)
                 \/ Carries(flight, index, h, v) /\ flight'[h].entries[v] = flight[h].entries[v]
      BY <2>2, <2>5, <2>6, <2>7
    <2> QED
      BY <2>4, <2>7
  <1>3. hold # None => hold \in Root
    BY DEF FlightTypes, OthersTyped
  <1>4. CloserRoot \subseteq Root
    BY FlightNumbers DEF FlightTypes, OthersTyped, CloserRoot, Claim
  <1>5. \/ \E r \in Root : OpenFlight(r, [x \in {w} |-> NoEntry], flight, index, chain, beacon)
        \/ UNCHANGED <<flight, index>>
    BY <1>3, <1>4 DEF Handle
  <1> QED
    BY <1>1, <1>2, <1>5

LEMMA ForwardStep ==
  ASSUME FlightTypes, NEW w \in Write, Forward(w)
  PROVE  FlightTypes' /\ (ChainInv => ChainInv')
  <1>1. /\ UNCHANGED <<chain, age, beacon, tomb, hold, handling, nack, epochOf, evictions>>
        /\ forwards' = [forwards EXCEPT ![w] = @ + 1]
    BY DEF Forward, rootVars
  <1>2. Handle(w)
    BY DEF Forward
  <1>3. FlightsTyped'
    BY <1>2, HandledIs
  <1>4. LedgerTyped'
    BY <1>1 DEF FlightTypes, LedgerTyped
  <1>5. OthersTyped'
    BY <1>1 DEF FlightTypes, OthersTyped
  <1>6. ASSUME ChainInv, NEW v \in Write PROVE ChainOf(v)'
    <2>1. CASE v # w
      <3>1. forwards'[v] = forwards[v] /\ evictions'[v] = evictions[v]
        BY <1>1, <2>1 DEF FlightTypes, OthersTyped
      <3>2. \A h \in Gen : Carries(flight', index', h, v) =>
               Carries(flight, index, h, v) /\ flight'[h].entries[v] = flight[h].entries[v]
        BY <1>2, <2>1, HandledIs
      <3>3. ChainOf(v)
        BY <1>6 DEF ChainInv
      <3> QED
        BY <1>1, <3>1, <3>2, <3>3, QuietOf
    <2>2. CASE v = w
      <3> SUFFICES ASSUME forwards'[w] <= 1 PROVE ChainOf(w)'
        BY <2>2 DEF ChainOf
      <3>1. forwards[w] = 0 /\ forwards'[w] = 1
        BY <1>1 DEF FlightTypes, OthersTyped
      <3>2. ChainOf(w)
        BY <1>6 DEF ChainInv
      <3>3. evictions'[w] = <<>> /\ w \notin handling' /\ \A h \in Gen : ~Carries(flight, index, h, w)
        BY <1>1, <3>1, <3>2 DEF ChainOf
      <3>4. \A e \in Entry : Covers(e, w)'
        BY <3>3 DEF Covers, Range, Entry
      <3>5. ASSUME NEW g \in Gen, Carries(flight', index', g, w)
            PROVE  Covers(flight[g].entries[w], w)' /\ \A h \in Gen : Carries(flight', index', h, w) => h = g
        <4>1. flight'[g].entries[w] \in Entry /\ \A h \in Gen : Carries(flight', index', h, w) => h = g
          BY <1>2, <3>3, <3>5, HandledIs
        <4> QED
          BY <3>4, <4>1 DEF Covers
      <3>6. Len(evictions'[w]) = 0
        BY <3>3
      <3> QED
        BY <3>1, <3>3, <3>5, <3>6, FlightNumbers DEF ChainOf, Covers
    <2> QED
      BY <2>1, <2>2
  <1> QED
    BY <1>3, <1>4, <1>5, <1>6 DEF FlightTypes, ChainInv

LEMMA SelfHandleStep ==
  ASSUME FlightTypes, NEW w \in Write, SelfHandle(w)
  PROVE  FlightTypes' /\ (ChainInv => ChainInv')
  <1>1. /\ UNCHANGED <<chain, age, beacon, tomb, hold, nack, epochOf, forwards, evictions>>
        /\ w \in handling /\ handling' = handling \ {w}
    BY DEF SelfHandle, rootVars
  <1>2. Handle(w)
    BY DEF SelfHandle
  <1>3. FlightsTyped'
    BY <1>2, HandledIs
  <1>4. LedgerTyped'
    BY <1>1 DEF FlightTypes, LedgerTyped
  <1>5. OthersTyped'
    BY <1>1 DEF FlightTypes, OthersTyped
  <1>6. ASSUME ChainInv, NEW v \in Write PROVE ChainOf(v)'
    <2>0. ChainOf(v)
      BY <1>6 DEF ChainInv
    <2>1. CASE v # w
      <3>1. \A h \in Gen : Carries(flight', index', h, v) =>
               Carries(flight, index, h, v) /\ flight'[h].entries[v] = flight[h].entries[v]
        BY <1>2, <2>1, HandledIs
      <3> QED
        BY <1>1, <2>0, <3>1, QuietOf
    <2>2. CASE v = w
      <3> SUFFICES ASSUME forwards[w] <= 1 PROVE ChainOf(w)'
        BY <1>1, <2>2 DEF ChainOf
      <3>1. /\ forwards[w] = 1 /\ w \in DOMAIN chain /\ Covers(chain[w], w) /\ Len(evictions[w]) <= MaxPromotions
            /\ Len(evictions[w]) <= MaxPromotions + 1
            /\ \A h \in Gen : ~Carries(flight, index, h, w)
        BY <1>1, <2>0, <2>2 DEF ChainOf
      <3>2. ASSUME NEW g \in Gen, Carries(flight', index', g, w)
            PROVE  Covers(flight[g].entries[w], w)' /\ \A h \in Gen : Carries(flight', index', h, w) => h = g
        <4>1. /\ flight'[g].entries[w] \in Entry /\ Over(flight'[g].entries[w], chain[w])
              /\ \A h \in Gen : Carries(flight', index', h, w) => h = g
          BY <1>2, <3>1, <3>2, HandledIs
        <4>2. chain[w] \in Entry /\ Len(evictions[w]) \in Nat
          BY <3>1 DEF FlightTypes, LedgerTyped, OthersTyped
        <4>3. Len(evictions'[w]) <= flight'[g].entries[w].promotions
          BY <1>1, <3>1, <4>1, <4>2 DEF Over, Covers, Entry
        <4>4. Range(evictions'[w]) \subseteq flight'[g].entries[w].tried
          BY <1>1, <3>1, <4>1 DEF Over, Covers
        <4> QED
          BY <4>1, <4>3, <4>4 DEF Covers
      <3> QED
        BY <1>1, <3>1, <3>2 DEF ChainOf, Covers
    <2> QED
      BY <2>1, <2>2
  <1> QED
    BY <1>3, <1>4, <1>5, <1>6 DEF FlightTypes, ChainInv

(***************************************************************************)
(* Completions.                                                              *)
(***************************************************************************)
\* What the flights carry once a write is completed in some of them.
LEMMA CompletedIs ==
  ASSUME FlightsTyped, NEW x, NEW G, Complete(x, G)
  PROVE  /\ FlightsTyped'
         /\ \A h \in Gen : \A w : Carries(flight', index', h, w) =>
               Carries(flight, index, h, w) /\ flight'[h].entries[w] = flight[h].entries[w]
  <1>1. PICK fl, ix : fl = flight' /\ ix = index'
    OBVIOUS
  <1>2. ASSUME NEW h \in Gen
        PROVE  /\ fl[h] \in FlightType /\ fl[h].root = flight[h].root /\ fl[h].epoch = flight[h].epoch /\ fl[h].stage = flight[h].stage
               /\ \A w \in DOMAIN fl[h].entries : w \in DOMAIN flight[h].entries /\ fl[h].entries[w] = flight[h].entries[w]
    <2>1. PICK r \in FlightType : r = flight[h]
      BY DEF FlightsTyped
    <2>2. PICK es : es = Without(r.entries, {x})
      OBVIOUS
    <2>3. es \in Entries /\ DOMAIN es \subseteq DOMAIN r.entries /\ \A w \in DOMAIN es : es[w] = r.entries[w]
      <3>1. r.entries \in Entries
        BY <2>1 DEF FlightType
      <3>2. DOMAIN r.entries \subseteq Write /\ \A w \in DOMAIN r.entries : r.entries[w] \in Entry
        BY <3>1, EntriesAre
      <3>3. es = [w \in DOMAIN r.entries \ {x} |-> r.entries[w]]
        BY <2>2 DEF Without
      <3> QED
        BY <3>2, <3>3, EntriesAre
    <2>4. fl[h] = IF h \in G THEN [r EXCEPT !.entries = es] ELSE r
      BY <1>1, <2>1, <2>2 DEF Complete
    <2>5. [r EXCEPT !.entries = es] \in FlightType
      BY <2>1, <2>3 DEF FlightType
    <2> QED
      BY <2>1, <2>3, <2>4, <2>5 DEF FlightType
  <1>3. fl \in [Gen -> FlightType]
    <2>1. fl = [h \in Gen |-> fl[h]]
      BY <1>1 DEF Complete
    <2> QED
      BY <1>2, <2>1
  <1>4. ix \in [Key -> 0..MaxFlight] /\ \A k \in Key : ix[k] # 0 => ix[k] = index[k]
    BY <1>1, FlightNumbers DEF Complete, FlightsTyped
  <1>5. Coherent(fl, ix)
    <2>1. \A h \in Gen : fl[h].stage # "none" => fl[h].root \in Root
      BY <1>2 DEF FlightsTyped, Coherent
    <2>2. ASSUME NEW k \in Key, ix[k] # 0
          PROVE  fl[ix[k]].stage # "none" /\ <<fl[ix[k]].root, fl[ix[k]].epoch>> = k
      <3>1. PICK h \in Gen : h = ix[k] /\ h = index[k]
        BY <1>4, <2>2, FlightNumbers DEF Gen
      <3>2. flight[h].stage # "none" /\ <<flight[h].root, flight[h].epoch>> = k
        BY <2>2, <3>1 DEF FlightsTyped, Coherent
      <3> QED
        BY <1>2, <3>1, <3>2
    <2> QED
      BY <2>1, <2>2 DEF Coherent
  <1>6. ASSUME NEW h \in Gen, NEW w, Carries(fl, ix, h, w)
        PROVE  Carries(flight, index, h, w) /\ fl[h].entries[w] = flight[h].entries[w]
    <2>1. flight[h].stage # "none" /\ ix[<<flight[h].root, flight[h].epoch>>] = h
          /\ w \in DOMAIN flight[h].entries /\ fl[h].entries[w] = flight[h].entries[w]
      BY <1>2, <1>6 DEF Carries
    <2>2. <<flight[h].root, flight[h].epoch>> \in Key /\ h # 0
      BY <2>1 DEF FlightsTyped, Coherent, FlightType, Key, Gen
    <2> QED
      BY <1>4, <2>1, <2>2 DEF Carries
  <1> QED
    BY <1>1, <1>3, <1>4, <1>5, <1>6 DEF FlightsTyped

(***************************************************************************)
(* The other steps.                                                          *)
(***************************************************************************)
\* Flights that are only probed or retried.
LEMMA RestagedIs ==
  ASSUME FlightsTyped, index' = index, flight' \in [Gen -> FlightType],
         \A h \in Gen : /\ flight'[h].root = flight[h].root /\ flight'[h].epoch = flight[h].epoch
                        /\ flight'[h].entries = flight[h].entries /\ (flight'[h].stage = "none" <=> flight[h].stage = "none")
  PROVE  /\ FlightsTyped'
         /\ \A h \in Gen : \A w : Carries(flight', index', h, w) =>
               Carries(flight, index, h, w) /\ flight'[h].entries[w] = flight[h].entries[w]
  <1>1. PICK fl : fl = flight'
    OBVIOUS
  <1>2. \A h \in Gen : /\ fl[h].root = flight[h].root /\ fl[h].epoch = flight[h].epoch
                       /\ fl[h].entries = flight[h].entries /\ (fl[h].stage = "none" <=> flight[h].stage = "none")
    BY <1>1
  <1>3. Coherent(fl, index)
    <2>1. \A k \in Key : index[k] # 0 => index[k] \in Gen
      BY FlightNumbers DEF FlightsTyped, Gen
    <2>2. ASSUME NEW k \in Key, index[k] # 0
          PROVE  fl[index[k]].stage # "none" /\ <<fl[index[k]].root, fl[index[k]].epoch>> = k
      <3>1. PICK h \in Gen : h = index[k]
        BY <2>1, <2>2
      <3>2. flight[h].stage # "none" /\ <<flight[h].root, flight[h].epoch>> = k
        BY <2>2, <3>1 DEF FlightsTyped, Coherent
      <3> QED
        BY <1>2, <3>1, <3>2
    <2>3. \A h \in Gen : fl[h].stage # "none" => fl[h].root \in Root
      BY <1>2 DEF FlightsTyped, Coherent
    <2> QED
      BY <2>2, <2>3 DEF Coherent
  <1>4. \A h \in Gen : \A w : Carries(fl, index, h, w) =>
               Carries(flight, index, h, w) /\ fl[h].entries[w] = flight[h].entries[w]
    BY <1>2 DEF Carries
  <1> QED
    BY <1>1, <1>3, <1>4 DEF FlightsTyped

\* What every step but the handlers and the eviction leaves alone.
Quiet ==
    /\ UNCHANGED <<chain, age, handling, forwards, evictions>>
    /\ FlightsTyped'
    /\ \A h \in Gen : \A w : Carries(flight', index', h, w) =>
         Carries(flight, index, h, w) /\ flight'[h].entries[w] = flight[h].entries[w]

LEMMA SameIsQuiet ==
  ASSUME FlightTypes, UNCHANGED <<flight, index, chain, age, handling, forwards, evictions>>
  PROVE  Quiet
  BY DEF FlightTypes, FlightsTyped, Quiet

LEMMA QuietHolds ==
  ASSUME FlightTypes, Quiet, OthersTyped'
  PROVE  FlightTypes' /\ (ChainInv => ChainInv')
  <1>1. LedgerTyped'
    BY DEF Quiet, FlightTypes, LedgerTyped
  <1>2. ChainInv => ChainInv'
    BY QuietStep DEF Quiet
  <1> QED
    BY <1>1, <1>2 DEF Quiet, FlightTypes

LEMMA RootSteps ==
  ASSUME FlightTypes, NEW r \in Root,
         \/ \E c \in sent : Ingest(r, c)
         \/ \E g \in Gen : AnswerProbe(r, g)
         \/ ReMint(r) \/ OnRootBeacon(r)
  PROVE  FlightTypes' /\ (ChainInv => ChainInv')
  <1>1. CASE \E c \in sent : Ingest(r, c)
    <2>1. UNCHANGED <<flightVars, nack, epochOf, forwards, evictions>>
      BY <1>1 DEF Ingest, ghostVars
    <2>2. OthersTyped'
      BY <2>1 DEF FlightTypes, OthersTyped, flightVars
    <2> QED
      BY <2>1, <2>2, SameIsQuiet, QuietHolds DEF flightVars
  <1>2. CASE \E g \in Gen : AnswerProbe(r, g)
    <2>1. UNCHANGED <<flightVars, epochOf, forwards, evictions>> /\ nack' \in {nack, TRUE}
      BY <1>2 DEF AnswerProbe, rootVars, ghostVars
    <2>2. OthersTyped'
      BY <2>1 DEF FlightTypes, OthersTyped, flightVars
    <2> QED
      BY <2>1, <2>2, SameIsQuiet, QuietHolds DEF flightVars
  <1>3. CASE ReMint(r)
    <2>1. UNCHANGED <<flightVars, nack, forwards, evictions>> /\ epochOf' = [epochOf EXCEPT ![r] = @ + 1] /\ epochOf[r] < MaxEpoch
      BY <1>3 DEF ReMint, ghostVars
    <2>2. epochOf' \in [Root -> Epoch]
      BY <2>1, FlightNumbers DEF FlightTypes, OthersTyped, Epoch
    <2>3. OthersTyped'
      BY <2>1, <2>2 DEF FlightTypes, OthersTyped, flightVars
    <2> QED
      BY <2>1, <2>3, SameIsQuiet, QuietHolds DEF flightVars
  <1>4. CASE OnRootBeacon(r)
    <2>1. UNCHANGED <<flight, index, chain, age, tomb, hold, handling, nack, epochOf, forwards, evictions>>
      BY <1>4 DEF OnRootBeacon, rootVars, ghostVars
    <2>2. beacon' \in Claim
      <3>1. epochOf[r] \in Epoch /\ (beacon # None => beacon.epoch \in Epoch)
        BY DEF FlightTypes, OthersTyped, Claim
      <3>2. beacon # None => Larger(epochOf[r], beacon.epoch) \in Epoch
        BY <3>1 DEF Larger
      <3> QED
        BY <1>4, <3>1, <3>2 DEF OnRootBeacon, Claim
    <2>3. OthersTyped'
      BY <2>1, <2>2 DEF FlightTypes, OthersTyped
    <2> QED
      BY <2>1, <2>3, SameIsQuiet, QuietHolds
  <1> QED
    BY <1>1, <1>2, <1>3, <1>4

LEMMA NodeSteps ==
  ASSUME FlightTypes,
         \/ BeaconGone \/ HoldEnds \/ UNCHANGED vars
         \/ \E a \in acks : OnAck(a) \/ VerifyBegin(a)
         \/ \E a \in verifying : VerifyEnd(a)
         \/ OnReceiptNack
         \/ \E g \in Gen : Probe(g)
  PROVE  FlightTypes' /\ (ChainInv => ChainInv')
  <1>1. CASE BeaconGone \/ HoldEnds \/ UNCHANGED vars
    <2>1. /\ UNCHANGED <<flight, index, chain, age, tomb, handling, nack, epochOf, forwards, evictions>>
          /\ beacon' \in {beacon, None} /\ hold' \in {hold, None}
      BY <1>1 DEF BeaconGone, HoldEnds, vars, flightVars, rootVars, ghostVars
    <2>2. OthersTyped'
      BY <2>1 DEF FlightTypes, OthersTyped
    <2> QED
      BY <2>1, <2>2, SameIsQuiet, QuietHolds
  <1>2. ASSUME NEW a \in acks, OnAck(a) PROVE FlightTypes' /\ (ChainInv => ChainInv')
    <2>1. UNCHANGED <<chain, age, beacon, tomb, hold, handling, nack, epochOf, forwards, evictions>>
          /\ \E G : Complete(a.w, G)
      BY <1>2 DEF OnAck, rootVars
    <2>2. Quiet
      <3>1. PICK G : Complete(a.w, G)
        BY <2>1
      <3> QED
        BY <2>1, <3>1, CompletedIs DEF Quiet, FlightTypes
    <2>3. OthersTyped'
      BY <2>1 DEF FlightTypes, OthersTyped
    <2> QED
      BY <2>2, <2>3, QuietHolds
  <1>3. ASSUME NEW a \in acks, VerifyBegin(a) PROVE FlightTypes' /\ (ChainInv => ChainInv')
    <2>1. UNCHANGED <<flight, index, chain, age, beacon, tomb, hold, handling, nack, epochOf, forwards, evictions>>
      BY <1>3 DEF VerifyBegin, rootVars, ghostVars
    <2>2. OthersTyped'
      BY <2>1 DEF FlightTypes, OthersTyped
    <2> QED
      BY <2>1, <2>2, SameIsQuiet, QuietHolds
  <1>4. ASSUME NEW a \in verifying, VerifyEnd(a) PROVE FlightTypes' /\ (ChainInv => ChainInv')
    <2>1. UNCHANGED <<chain, age, beacon, tomb, hold, handling, nack, epochOf, forwards, evictions>>
          /\ (Complete(a.w, {a.gen}) \/ UNCHANGED <<flight, index>>)
      BY <1>4 DEF VerifyEnd, rootVars
    <2>2. Quiet
      <3>1. CASE Complete(a.w, {a.gen})
        BY <2>1, <3>1, CompletedIs DEF Quiet, FlightTypes
      <3>2. CASE UNCHANGED <<flight, index>>
        BY <2>1, <3>2, SameIsQuiet
      <3> QED
        BY <2>1, <3>1, <3>2
    <2>3. OthersTyped'
      BY <2>1 DEF FlightTypes, OthersTyped
    <2> QED
      BY <2>2, <2>3, QuietHolds
  <1>5. CASE OnReceiptNack
    <2>1. UNCHANGED <<index, chain, age, beacon, tomb, hold, handling, epochOf, forwards, evictions>> /\ nack' = FALSE
      BY <1>5 DEF OnReceiptNack, rootVars, ghostVars
    <2>2. \A h \in Gen : flight'[h] = IF Open(h) /\ flight[h].stage = "probing"
                                      THEN [flight[h] EXCEPT !.stage = "retrying"] ELSE flight[h]
      BY <1>5 DEF OnReceiptNack
    <2>3. ASSUME NEW h \in Gen
          PROVE  /\ flight'[h].root = flight[h].root /\ flight'[h].epoch = flight[h].epoch
                 /\ flight'[h].entries = flight[h].entries /\ (flight'[h].stage = "none" <=> flight[h].stage = "none")
                 /\ flight'[h] \in FlightType
      BY <2>2 DEF FlightTypes, FlightsTyped, FlightType, Stage
    <2>4. flight' = [h \in Gen |-> flight'[h]]
      BY <1>5 DEF OnReceiptNack
    <2>5. flight' \in [Gen -> FlightType]
      BY <2>3, <2>4
    <2>6. Quiet
      BY <2>1, <2>3, <2>5, RestagedIs DEF Quiet, FlightTypes
    <2>7. OthersTyped'
      BY <2>1 DEF FlightTypes, OthersTyped
    <2> QED
      BY <2>6, <2>7, QuietHolds
  <1>6. ASSUME NEW g \in Gen, Probe(g) PROVE FlightTypes' /\ (ChainInv => ChainInv')
    <2>1. UNCHANGED <<index, chain, age, beacon, tomb, hold, handling, nack, epochOf, forwards, evictions>>
      BY <1>6 DEF Probe, rootVars, ghostVars
    <2>2. flight[g] \in FlightType /\ flight[g].stage # "none" /\ flight[g].rounds < MaxRounds
      BY <1>6 DEF Probe, FlightTypes, FlightsTyped, Open
    <2>3. PICK f : f = [flight[g] EXCEPT !.stage = "probing", !.rounds = @ + 1]
      OBVIOUS
    <2>4. f \in FlightType /\ f.root = flight[g].root /\ f.epoch = flight[g].epoch /\ f.entries = flight[g].entries /\ f.stage = "probing"
      <3>1. PICK n : n = flight[g].rounds + 1
        OBVIOUS
      <3>2. n \in 0..MaxRounds
        BY <2>2, <3>1, FlightNumbers DEF FlightType
      <3>3. PICK r \in FlightType : r = flight[g]
        BY <2>2
      <3>4. f = [r EXCEPT !.stage = "probing", !.rounds = n]
        BY <2>3, <3>1, <3>3
      <3>5. "probing" \in Stage
        BY DEF Stage
      <3> QED
        BY <3>2, <3>3, <3>4, <3>5 DEF FlightType
    <2>5. flight' = [flight EXCEPT ![g] = f]
      BY <1>6, <2>3 DEF Probe
    <2>6. flight' \in [Gen -> FlightType]
      BY <2>4, <2>5 DEF FlightTypes, FlightsTyped
    <2>7. \A h \in Gen : /\ flight'[h].root = flight[h].root /\ flight'[h].epoch = flight[h].epoch
                         /\ flight'[h].entries = flight[h].entries /\ (flight'[h].stage = "none" <=> flight[h].stage = "none")
      BY <2>2, <2>4, <2>5 DEF FlightTypes, FlightsTyped
    <2>8. Quiet
      BY <2>1, <2>6, <2>7, RestagedIs DEF Quiet, FlightTypes
    <2>9. OthersTyped'
      BY <2>1 DEF FlightTypes, OthersTyped
    <2> QED
      BY <2>8, <2>9, QuietHolds
  <1> QED
    BY <1>1, <1>2, <1>3, <1>4, <1>5, <1>6

(***************************************************************************)
(* The eviction.                                                             *)
(***************************************************************************)
\* What is left of the entries of a flight that is evicted, and what is noted of it.
MovedOn(g, m, next) ==
    /\ DOMAIN m \subseteq DOMAIN flight[g].entries /\ DOMAIN next = DOMAIN m
    /\ \A w \in DOMAIN m :
         /\ m[w] = flight[g].entries[w] /\ m[w].promotions < MaxPromotions
         /\ next[w] = [promotions |-> m[w].promotions + 1, tried |-> m[w].tried \cup {flight[g].root}]

\* Where it goes: it ended, it goes to this node's own handler, or toward r.
EndsIn(g, m) == DOMAIN m = {} /\ flight' = Gone(g, m) /\ index' = Rest(g) /\ UNCHANGED <<chain, age, handling, sent>>
ComesHome(g, m, next) ==
    NoteAll(next) /\ flight' = Gone(g, m) /\ index' = Rest(g) /\ handling' = handling \cup DOMAIN m /\ sent' = sent
MovesTo(r, g, m, next) ==
    /\ NoteAll(next) /\ handling' = handling
    /\ r \notin {flight[g].root} /\ \A w \in DOMAIN m : r \notin m[w].tried
    /\ OpenFlight(r, next, Gone(g, m), Rest(g), chain', beacon')

LEMMA EvictedIs ==
  ASSUME FlightTypes, NEW g \in Gen, Evict(g)
  PROVE  \E m, next \in Entries :
            /\ MovedOn(g, m, next)
            /\ EndsIn(g, m) \/ ComesHome(g, m, next) \/ \E r \in Root : MovesTo(r, g, m, next)
  <1> DEFINE f == flight[g]
             capped == {w \in DOMAIN f.entries : f.entries[w].promotions >= MaxPromotions}
  <1>1. f \in FlightType /\ f.root \in Root
    BY DEF Evict, Open, FlightTypes, FlightsTyped, Coherent
  <1>2. PICK stale \in SUBSET (DOMAIN f.entries \ Kill) :
           LET ended == capped \cup stale
               m == Without(f.entries, ended)
           IN  IF DOMAIN m = {}
               THEN /\ flight' = [flight EXCEPT ![g].entries = m]
                    /\ index' = [index EXCEPT ![KeyOf(g)] = 0]
                    /\ UNCHANGED <<chain, age, handling, sent>>
               ELSE Promote(g, m, f.root)
    BY Zenon DEF Evict
  <1>3. PICK m : m = Without(f.entries, capped \cup stale)
    OBVIOUS
  <1>4. /\ DOMAIN m \subseteq DOMAIN f.entries /\ \A w \in DOMAIN m : m[w] = f.entries[w] /\ w \notin capped
        /\ m = [w \in DOMAIN m |-> m[w]]
    BY <1>3 DEF Without
  <1>5. f.entries \in Entries /\ DOMAIN f.entries \subseteq Write /\ \A w \in DOMAIN f.entries : f.entries[w] \in Entry
    BY <1>1, EntriesAre DEF FlightType
  <1>6. m \in Entries /\ \A w \in DOMAIN m : m[w] \in Entry /\ m[w].promotions \in Nat /\ m[w].promotions < MaxPromotions
    BY <1>4, <1>5, EntriesAre, FlightNumbers DEF Entry
  <1>7. PICK next : next = [w \in DOMAIN m |-> [promotions |-> m[w].promotions + 1, tried |-> m[w].tried \cup {f.root}]]
    OBVIOUS
  <1>8. next \in Entries /\ DOMAIN next = DOMAIN m
    <2>1. ASSUME NEW w \in DOMAIN m PROVE next[w] \in Entry
      BY <1>1, <1>6, <1>7 DEF Entry
    <2>2. next = [w \in DOMAIN next |-> next[w]] /\ DOMAIN next = DOMAIN m
      BY <1>7
    <2> QED
      BY <1>4, <1>5, <2>1, <2>2, EntriesAre
  <1>9. MovedOn(g, m, next)
    BY <1>4, <1>6, <1>7, <1>8 DEF MovedOn
  <1>10. CASE DOMAIN m = {}
    <2>1. EndsIn(g, m)
      BY <1>2, <1>3, <1>10 DEF EndsIn, Gone, Rest
    <2> QED
      BY <1>6, <1>8, <1>9, <2>1
  <1>11. CASE DOMAIN m # {}
    <2>1. Promote(g, m, f.root)
      BY <1>2, <1>3, <1>11
    <2>2. /\ NoteAll(next)
          /\ \E N \in SUBSET Root :
               LET excluded == {f.root} \cup UNION {m[w].tried : w \in DOMAIN m}
               IN  IF Pick(N, excluded) = SelfDist
                   THEN handling' = handling \cup DOMAIN m /\ flight' = Gone(g, m) /\ index' = Rest(g) /\ sent' = sent
                   ELSE OpenFlight(Pick(N, excluded), next, Gone(g, m), Rest(g), chain', beacon') /\ handling' = handling
      BY <1>7, <2>1, Zenon DEF Promote, Gone, Rest
    <2>3. PICK excluded : excluded = {f.root} \cup UNION {m[w].tried : w \in DOMAIN m}
      OBVIOUS
    <2>4. PICK N \in SUBSET Root :
                   IF Pick(N, excluded) = SelfDist
                   THEN handling' = handling \cup DOMAIN m /\ flight' = Gone(g, m) /\ index' = Rest(g) /\ sent' = sent
                   ELSE OpenFlight(Pick(N, excluded), next, Gone(g, m), Rest(g), chain', beacon') /\ handling' = handling
      BY <2>2, <2>3
    <2>5. CASE Pick(N, excluded) = SelfDist
      <3>1. ComesHome(g, m, next)
        BY <2>2, <2>4, <2>5 DEF ComesHome
      <3> QED
        BY <1>6, <1>8, <1>9, <3>1
    <2>6. CASE Pick(N, excluded) # SelfDist
      <3>1. PICK r \in Root : r = Pick(N, excluded) /\ r \notin excluded
        BY <2>6, PickIs
      <3>2. r \notin {f.root} /\ \A w \in DOMAIN m : r \notin m[w].tried
        BY <2>3, <3>1
      <3>3. OpenFlight(r, next, Gone(g, m), Rest(g), chain', beacon') /\ handling' = handling
        BY <2>4, <2>6, <3>1
      <3>4. MovesTo(r, g, m, next)
        BY <2>2, <3>2, <3>3 DEF MovesTo
      <3> QED
        BY <1>6, <1>8, <1>9, <3>4
    <2> QED
      BY <2>5, <2>6
  <1> QED
    BY <1>10, <1>11

\* The ledger after an eviction.
LEMMA EvictNotes ==
  ASSUME FlightTypes, NEW g \in Gen, NEW m \in Entries, NEW next \in Entries, MovedOn(g, m, next),
         EndsIn(g, m) \/ ComesHome(g, m, next) \/ \E r \in Root : MovesTo(r, g, m, next)
  PROVE  /\ LedgerTyped'
         /\ ChainSuffices => /\ \A w \in DOMAIN chain \ DOMAIN m : w \in DOMAIN chain' /\ chain'[w] = chain[w]
                             /\ \A w \in DOMAIN m : w \in DOMAIN chain' /\ chain'[w] = next[w]
  <1>1. CASE EndsIn(g, m)
    BY <1>1 DEF EndsIn, FlightTypes, LedgerTyped
  <1>2. CASE NoteAll(next)
    BY <1>2, Noted DEF MovedOn, LedgerTyped
  <1> QED
    BY <1>1, <1>2 DEF ComesHome, MovesTo

\* The flights after a promotion toward r.
LEMMA MovedCarries ==
  ASSUME FlightTypes, NEW g \in Gen, Open(g), NEW m \in Entries, NEW next \in Entries, MovedOn(g, m, next),
         NEW r \in Root, MovesTo(r, g, m, next), beacon' \in Claim \cup {None}
  PROVE  /\ FlightsTyped'
         /\ \E k \in Gen :
              /\ flight'[k].root = r /\ sent' = sent \cup {<<k, w>> : w \in DOMAIN m}
              /\ \A h \in Gen : \A w : Carries(flight', index', h, w) =>
                   \/ w \in DOMAIN m /\ h = k /\ Over(flight'[h].entries[w], next[w])
                   \/ h # g /\ Carries(flight, index, h, w) /\ flight'[h].entries[w] = flight[h].entries[w]
  <1>1. PICK fl, ix, ch, b : fl = Gone(g, m) /\ ix = Rest(g) /\ ch = chain' /\ b = beacon'
    OBVIOUS
  <1>2. OpenFlight(r, next, fl, ix, ch, b)
    BY <1>1 DEF MovesTo
  <1>3. /\ fl \in [Gen -> FlightType] /\ ix \in [Key -> 0..MaxFlight] /\ Coherent(fl, ix)
        /\ \A h \in Gen : \A w : Carries(fl, ix, h, w) =>
              h # g /\ Carries(flight, index, h, w) /\ fl[h].entries[w] = flight[h].entries[w]
    BY <1>1, ClosedIs
  <1>4. \A w \in DOMAIN ch : ch[w] \in Entry
    BY <1>1, EvictNotes DEF LedgerTyped
  <1>5. /\ flight' \in [Gen -> FlightType] /\ index' \in [Key -> 0..MaxFlight] /\ Coherent(flight', index')
        /\ \E k \in Gen :
              /\ flight'[k].root = r /\ sent' = sent \cup {<<k, w>> : w \in DOMAIN next}
              /\ \A h \in Gen : \A w : Carries(flight', index', h, w) =>
                   \/ /\ w \in DOMAIN next /\ h = k /\ Over(flight'[h].entries[w], next[w])
                      /\ w \in DOMAIN ch => Over(flight'[h].entries[w], ch[w])
                   \/ Carries(fl, ix, h, w) /\ flight'[h].entries[w] = fl[h].entries[w]
    BY <1>1, <1>2, <1>3, <1>4, OpenCarries
  <1>6. PICK k \in Gen :
              /\ flight'[k].root = r /\ sent' = sent \cup {<<k, w>> : w \in DOMAIN next}
              /\ \A h \in Gen : \A w : Carries(flight', index', h, w) =>
                   \/ /\ w \in DOMAIN next /\ h = k /\ Over(flight'[h].entries[w], next[w])
                      /\ w \in DOMAIN ch => Over(flight'[h].entries[w], ch[w])
                   \/ Carries(fl, ix, h, w) /\ flight'[h].entries[w] = fl[h].entries[w]
    BY <1>5
  <1>7. DOMAIN next = DOMAIN m
    BY DEF MovedOn
  <1> QED
    BY <1>3, <1>5, <1>6, <1>7 DEF FlightsTyped

LEMMA RangeOfAppend ==
  ASSUME NEW S, NEW s \in Seq(S), NEW x \in S
  PROVE  Range(Append(s, x)) = Range(s) \cup {x} /\ Len(Append(s, x)) = Len(s) + 1
  <1>1. PICK t : t = Append(s, x)
    OBVIOUS
  <1>2. /\ Len(t) = Len(s) + 1 /\ DOMAIN t = 1..(Len(s) + 1) /\ DOMAIN s = 1..Len(s) /\ Len(s) \in Nat
        /\ t[Len(s) + 1] = x /\ \A i \in 1..Len(s) : t[i] = s[i]
    BY <1>1
  <1>3. \A y \in Range(t) : y \in Range(s) \cup {x}
    BY <1>2 DEF Range
  <1>4. \A y \in Range(s) \cup {x} : y \in Range(t)
    BY <1>2 DEF Range
  <1> QED
    BY <1>1, <1>2, <1>3, <1>4

\* The step for the writes of the flight that is evicted.
LEMMA EvictKeeps ==
  ASSUME FlightTypes, ChainInv, ChainSuffices, NEW g \in Gen, Open(g), Evict(g), NEW m \in Entries, NEW next \in Entries,
         MovedOn(g, m, next),
         EndsIn(g, m) \/ ComesHome(g, m, next) \/ \E r \in Root : MovesTo(r, g, m, next),
         beacon' \in Claim \cup {None}, NEW w \in Write
  PROVE  ChainOf(w)'
  <1>1. /\ forwards' = forwards
        /\ evictions'[w] = IF w \in DOMAIN flight[g].entries THEN Append(evictions[w], flight[g].root) ELSE evictions[w]
    BY DEF Evict
  <1>2. ChainOf(w) /\ DOMAIN m \subseteq DOMAIN flight[g].entries /\ DOMAIN next = DOMAIN m
    BY DEF ChainInv, MovedOn
  <1>3. \A h \in Gen : Carries(flight', index', h, w) =>
           \/ w \in DOMAIN m /\ Over(flight'[h].entries[w], next[w]) /\ handling' = handling
              /\ \A j \in Gen : Carries(flight', index', j, w) => j = h \/ (j # g /\ Carries(flight, index, j, w))
           \/ h # g /\ Carries(flight, index, h, w) /\ flight'[h].entries[w] = flight[h].entries[w]
    <2>1. CASE flight' = Gone(g, m) /\ index' = Rest(g)
      <3>1. PICK fl, ix : fl = Gone(g, m) /\ ix = Rest(g)
        OBVIOUS
      <3>2. \A h \in Gen : Carries(fl, ix, h, w) =>
               h # g /\ Carries(flight, index, h, w) /\ fl[h].entries[w] = flight[h].entries[w]
        BY <3>1, ClosedIs
      <3> QED
        BY <2>1, <3>1, <3>2
    <2>2. ASSUME NEW r \in Root, MovesTo(r, g, m, next)
          PROVE  \A h \in Gen : Carries(flight', index', h, w) =>
           \/ w \in DOMAIN m /\ Over(flight'[h].entries[w], next[w]) /\ handling' = handling
              /\ \A j \in Gen : Carries(flight', index', j, w) => j = h \/ (j # g /\ Carries(flight, index, j, w))
           \/ h # g /\ Carries(flight, index, h, w) /\ flight'[h].entries[w] = flight[h].entries[w]
      <3>1. PICK k \in Gen :
              \A h \in Gen : \A v : Carries(flight', index', h, v) =>
                   \/ v \in DOMAIN m /\ h = k /\ Over(flight'[h].entries[v], next[v])
                   \/ h # g /\ Carries(flight, index, h, v) /\ flight'[h].entries[v] = flight[h].entries[v]
        BY <2>2, MovedCarries
      <3>2. handling' = handling
        BY <2>2 DEF MovesTo
      <3> QED
        BY <3>1, <3>2
    <2> QED
      BY <2>1, <2>2 DEF EndsIn, ComesHome
  <1>4. /\ w \in DOMAIN chain \ DOMAIN m => w \in DOMAIN chain' /\ chain'[w] = chain[w]
        /\ w \in DOMAIN m => w \in DOMAIN chain' /\ chain'[w] = next[w]
    BY EvictNotes
  <1>5. /\ w \in handling' => w \in handling \/ w \in DOMAIN m
    BY DEF EndsIn, ComesHome, MovesTo
  <1>6. CASE w \notin DOMAIN flight[g].entries
    <2>1. w \notin DOMAIN m /\ evictions'[w] = evictions[w] /\ forwards'[w] = forwards[w]
      BY <1>1, <1>2, <1>6
    <2> QED
      BY <1>2, <1>3, <1>4, <1>5, <2>1, QuietOf
  <1>7. CASE w \in DOMAIN flight[g].entries
    <2> SUFFICES ASSUME forwards[w] <= 1 PROVE ChainOf(w)'
      BY <1>1 DEF ChainOf
    <2>1. Carries(flight, index, g, w)
      BY <1>7 DEF Carries, Open, KeyOf
    <2>2. /\ forwards[w] = 1 /\ w \notin handling /\ Covers(flight[g].entries[w], w) /\ Len(evictions[w]) <= MaxPromotions
          /\ \A h \in Gen : Carries(flight, index, h, w) => h = g
      BY <1>2, <2>1 DEF ChainOf
    <2>3. /\ evictions[w] \in Seq(Root) /\ Len(evictions[w]) \in Nat /\ flight[g].root \in Root
          /\ flight[g].entries[w] \in Entry
      <3>1. flight[g] \in FlightType /\ flight[g].root \in Root
        BY DEF Open, FlightTypes, FlightsTyped, Coherent
      <3>2. flight[g].entries[w] \in Entry
        BY <1>7, <3>1, EntriesAre DEF FlightType
      <3> QED
        BY <3>1, <3>2 DEF FlightTypes, OthersTyped
    <2>4. Len(evictions'[w]) = Len(evictions[w]) + 1 /\ Range(evictions'[w]) = Range(evictions[w]) \cup {flight[g].root}
      BY <1>1, <1>7, <2>3, RangeOfAppend
    <2>5. w \in DOMAIN m => /\ next[w] \in Entry /\ Len(evictions'[w]) <= next[w].promotions
                            /\ Range(evictions'[w]) \subseteq next[w].tried /\ Len(evictions'[w]) <= MaxPromotions
      BY <2>2, <2>3, <2>4, FlightNumbers DEF MovedOn, Covers, Entry
    <2>6. ASSUME NEW h \in Gen, Carries(flight', index', h, w)
          PROVE  /\ Covers(flight[h].entries[w], w)' /\ w \notin handling' /\ Len(evictions'[w]) <= MaxPromotions
                 /\ \A j \in Gen : Carries(flight', index', j, w) => j = h
      <3>1. /\ w \in DOMAIN m /\ Over(flight'[h].entries[w], next[w]) /\ handling' = handling
            /\ \A j \in Gen : Carries(flight', index', j, w) => j = h
        BY <1>3, <2>2, <2>6
      <3>2. flight'[h].entries[w] \in Entry
        <4>1. flight' \in [Gen -> FlightType]
          <5>1. CASE flight' = Gone(g, m)
            BY <5>1, ClosedIs
          <5>2. ASSUME NEW r \in Root, MovesTo(r, g, m, next) PROVE flight' \in [Gen -> FlightType]
            BY <5>2, MovedCarries DEF FlightsTyped
          <5> QED
            BY <5>1, <5>2 DEF EndsIn, ComesHome
        <4>2. flight'[h].entries \in Entries /\ w \in DOMAIN flight'[h].entries
          BY <2>6, <4>1 DEF Carries, FlightType
        <4> QED
          BY <4>2, EntriesAre
      <3>3. Covers(flight[h].entries[w], w)'
        BY <2>3, <2>4, <2>5, <3>1, <3>2 DEF Over, Covers, Entry
      <3> QED
        BY <2>2, <2>5, <3>1, <3>3
    <2>7. w \in handling' => /\ w \in DOMAIN chain' /\ Covers(chain[w], w)' /\ Len(evictions'[w]) <= MaxPromotions
      BY <1>4, <1>5, <2>2, <2>5 DEF Covers
    <2>8. Len(evictions'[w]) <= MaxPromotions + 1
      BY <2>2, <2>3, <2>4, FlightNumbers
    <2> QED
      BY <1>1, <2>2, <2>6, <2>7, <2>8 DEF ChainOf
  <1> QED
    BY <1>6, <1>7

LEMMA EvictStep ==
  ASSUME FlightTypes, NEW g \in Gen, Evict(g)
  PROVE  FlightTypes' /\ (ChainSuffices /\ ChainInv => ChainInv')
  <1>1. Open(g) /\ flight[g] \in FlightType /\ flight[g].root \in Root
    BY DEF Evict, Open, FlightTypes, FlightsTyped, Coherent
  <1>2. beacon' \in Claim \cup {None} /\ tomb' \in Claim \cup {None}
    BY <1>1 DEF Evict, FlightTypes, OthersTyped, Claim, FlightType
  <1>3. PICK m, next \in Entries :
            /\ MovedOn(g, m, next)
            /\ EndsIn(g, m) \/ ComesHome(g, m, next) \/ \E r \in Root : MovesTo(r, g, m, next)
    BY EvictedIs
  <1>4. FlightsTyped'
    <2>1. CASE flight' = Gone(g, m) /\ index' = Rest(g)
      <3>1. PICK fl, ix : fl = Gone(g, m) /\ ix = Rest(g)
        OBVIOUS
      <3>2. fl \in [Gen -> FlightType] /\ ix \in [Key -> 0..MaxFlight] /\ Coherent(fl, ix)
        BY <1>1, <3>1, ClosedIs
      <3> QED
        BY <2>1, <3>1, <3>2 DEF FlightsTyped
    <2>2. ASSUME NEW r \in Root, MovesTo(r, g, m, next) PROVE FlightsTyped'
      BY <1>1, <1>2, <1>3, <2>2, MovedCarries
    <2> QED
      BY <1>3, <2>1, <2>2 DEF EndsIn, ComesHome
  <1>5. LedgerTyped'
    BY <1>3, EvictNotes
  <1>6. OthersTyped'
    <2>1. UNCHANGED <<hold, nack, epochOf, forwards>>
      BY DEF Evict, rootVars
    <2>2. DOMAIN m \subseteq Write
      BY EntriesAre
    <2>3. handling' \subseteq Write
      BY <1>3, <2>2 DEF EndsIn, ComesHome, MovesTo, FlightTypes, OthersTyped
    <2>4. evictions' \in [Write -> Seq(Root)]
      <3>1. evictions' = [w \in Write |-> IF w \in DOMAIN flight[g].entries THEN Append(evictions[w], flight[g].root) ELSE evictions[w]]
        BY DEF Evict
      <3> QED
        BY <1>1, <3>1 DEF FlightTypes, OthersTyped
    <2> QED
      BY <1>2, <2>1, <2>3, <2>4 DEF FlightTypes, OthersTyped
  <1>7. ASSUME ChainSuffices, ChainInv, NEW w \in Write PROVE ChainOf(w)'
    BY <1>1, <1>2, <1>3, <1>7, EvictKeeps
  <1> QED
    BY <1>4, <1>5, <1>6, <1>7 DEF FlightTypes, ChainInv

-----------------------------------------------------------------------------
LEMMA FlightStep == FlightTypes /\ [Next]_vars => FlightTypes' /\ (ChainSuffices /\ ChainInv => ChainInv')
  <1> SUFFICES ASSUME FlightTypes, [Next]_vars PROVE FlightTypes' /\ (ChainSuffices /\ ChainInv => ChainInv')
    OBVIOUS
  <1>1. ASSUME NEW w \in Write, Forward(w) \/ SelfHandle(w)
        PROVE  FlightTypes' /\ (ChainSuffices /\ ChainInv => ChainInv')
    BY <1>1, ForwardStep, SelfHandleStep
  <1>2. ASSUME NEW g \in Gen, Evict(g) PROVE FlightTypes' /\ (ChainSuffices /\ ChainInv => ChainInv')
    BY <1>2, EvictStep
  <1>3. ASSUME NEW r \in Root,
               \/ \E c \in sent : Ingest(r, c)
               \/ \E g \in Gen : AnswerProbe(r, g)
               \/ ReMint(r) \/ OnRootBeacon(r)
        PROVE  FlightTypes' /\ (ChainSuffices /\ ChainInv => ChainInv')
    BY <1>3, RootSteps
  <1>4. ASSUME \/ BeaconGone \/ HoldEnds \/ UNCHANGED vars
               \/ \E a \in acks : OnAck(a) \/ VerifyBegin(a)
               \/ \E a \in verifying : VerifyEnd(a)
               \/ OnReceiptNack
               \/ \E g \in Gen : Probe(g)
        PROVE  FlightTypes' /\ (ChainSuffices /\ ChainInv => ChainInv')
    BY <1>4, NodeSteps
  <1> QED
    BY <1>1, <1>2, <1>3, <1>4, Zenon DEF Next

LEMMA ChainInit == Init => ChainInv
  <1> SUFFICES ASSUME Init, NEW w \in Write PROVE ChainOf(w)
    BY DEF ChainInv
  <1>1. evictions[w] = <<>> /\ forwards[w] = 0 /\ handling = {} /\ \A g \in Gen : flight[g] = NoFlight
    BY DEF Init
  <1>2. \A g \in Gen : ~Carries(flight, index, g, w)
    BY <1>1, NoneAre DEF Carries
  <1>3. Len(evictions[w]) = 0
    BY <1>1
  <1> QED
    BY <1>1, <1>2, <1>3, FlightNumbers DEF ChainOf

LEMMA TypesMean == FlightTypes => TypeOK
  <1> SUFFICES ASSUME FlightTypes PROVE TypeOK
    OBVIOUS
  <1>1. ASSUME NEW g \in Gen
        PROVE  /\ flight[g].root \in Root \cup {None} /\ flight[g].epoch \in Epoch
               /\ flight[g].stage \in {"none", "await-ack", "probing", "retrying"}
               /\ flight[g].rounds \in 0..MaxRounds
               /\ DOMAIN flight[g].entries \subseteq Write
               /\ \A w \in DOMAIN flight[g].entries : flight[g].entries[w] \in Entry
    <2>1. flight[g] \in FlightType
      BY DEF FlightTypes, FlightsTyped
    <2>2. flight[g].entries \in Entries
      BY <2>1 DEF FlightType
    <2> QED
      BY <2>1, <2>2, EntriesAre DEF FlightType, Stage
  <1>2. DOMAIN age = DOMAIN chain
    BY DEF FlightTypes, LedgerTyped
  <1> QED
    BY <1>1, <1>2 DEF TypeOK, FlightTypes, FlightsTyped, LedgerTyped, OthersTyped

\* What a promotion sends goes to a root that never failed the write.
LEMMA EvictGoesOn ==
  ASSUME FlightTypes, ChainInv, NEW g \in Gen, Evict(g), NEW w \in Write, forwards[w] = 1,
         NEW h \in Gen, <<h, w>> \in sent' \ sent, Len(evictions'[w]) > Len(evictions[w])
  PROVE  flight'[h].root \notin Range(evictions'[w])
  <1>1. Open(g) /\ flight[g] \in FlightType /\ flight[g].root \in Root
    BY DEF Evict, Open, FlightTypes, FlightsTyped, Coherent
  <1>2. beacon' \in Claim \cup {None}
    BY <1>1 DEF Evict, FlightTypes, OthersTyped, Claim, FlightType
  <1>3. PICK m, next \in Entries :
            /\ MovedOn(g, m, next)
            /\ EndsIn(g, m) \/ ComesHome(g, m, next) \/ \E r \in Root : MovesTo(r, g, m, next)
    BY EvictedIs
  <1>4. PICK r \in Root : MovesTo(r, g, m, next)
    BY <1>3 DEF EndsIn, ComesHome
  <1>5. PICK k \in Gen : flight'[k].root = r /\ sent' = sent \cup {<<k, v>> : v \in DOMAIN m}
    BY <1>1, <1>2, <1>3, <1>4, MovedCarries
  <1>6. h = k /\ w \in DOMAIN m
    BY <1>5
  <1>7. w \in DOMAIN flight[g].entries /\ m[w] = flight[g].entries[w]
    BY <1>3, <1>6 DEF MovedOn
  <1>8. Covers(flight[g].entries[w], w)
    <2>1. Carries(flight, index, g, w)
      BY <1>1, <1>7 DEF Carries, Open, KeyOf
    <2> QED
      BY <2>1 DEF ChainInv, ChainOf
  <1>9. evictions'[w] = Append(evictions[w], flight[g].root)
    BY <1>7 DEF Evict
  <1>10. Range(evictions'[w]) = Range(evictions[w]) \cup {flight[g].root}
    BY <1>1, <1>9, RangeOfAppend DEF FlightTypes, OthersTyped
  <1>11. r # flight[g].root /\ r \notin m[w].tried
    BY <1>4, <1>6 DEF MovesTo
  <1> QED
    BY <1>5, <1>6, <1>7, <1>8, <1>10, <1>11 DEF Covers

\* Only an eviction adds to the evictions.
LEMMA OnlyEvict ==
  ASSUME FlightTypes, [Next]_vars, evictions' # evictions
  PROVE  \E g \in Gen : Evict(g)
  BY DEF Next, Forward, SelfHandle, Ingest, AnswerProbe, ReMint, OnRootBeacon, BeaconGone, HoldEnds, OnAck, VerifyBegin,
         VerifyEnd, OnReceiptNack, Probe, vars, ghostVars

\* What a write recovery flight keeps is bounded and well formed, whatever is lost,
\* acked, convicted and forwarded: the probe rounds never pass FLIGHT_MAX_ROUNDS, nor
\* the records of the chain ledger FLIGHT_CHAIN_MAX (_flightSweep, _flightChainNote).
THEOREM FlightTypesAlways == Spec => []TypeOK
  <1>1. FlightTypes /\ [Next]_vars => FlightTypes'
    BY FlightStep
  <1> QED
    BY FlightInit, <1>1, TypesMean, PTL DEF Spec

LEMMA ChainAlways == ASSUME ChainSuffices PROVE Spec => [](FlightTypes /\ ChainInv)
  <1>1. (FlightTypes /\ ChainInv) /\ [Next]_vars => (FlightTypes /\ ChainInv)'
    BY FlightStep
  <1> QED
    BY FlightInit, ChainInit, <1>1, PTL DEF Spec

\* "A write is promoted past at most this many evictions" (FLIGHT_MAX_PROMOTIONS): as
\* long as the chain ledger can hold a record of every write, a write that came in
\* once is evicted from at most that many roots and one more, through whatever
\* flights, keys, promotions to this node itself and steps of its own handler.
THEOREM FlightBoundedAlways == ASSUME ChainSuffices PROVE Spec => []FlightBounded
  <1>1. FlightTypes /\ ChainInv => FlightBounded
    BY TypesMean DEF ChainInv, ChainOf, FlightBounded, EvictionsBounded
  <1> QED
    BY ChainAlways, <1>1, PTL

\* "Each promotion skips every root the chain was already evicted from": as long as
\* the chain ledger can hold a record of every write, an eviction never sends a write
\* that came in once back to a root that failed it, also when the flights it was
\* evicted from were others and this node's own handler forwarded it between them
\* (_flightEvict, _flightChainGet).
THEOREM NeverBackAlways == ASSUME ChainSuffices PROVE Spec => NeverBack
  <1> DEFINE A == \A w \in Write : forwards'[w] = 1 /\ Len(evictions'[w]) > Len(evictions[w]) =>
                    \A g \in Gen : w \in DOMAIN flight'[g].entries /\ <<g, w>> \in sent' \ sent
                       => flight'[g].root \notin Range(evictions'[w])
  <1>1. ASSUME FlightTypes, ChainInv, [Next]_vars PROVE A
    <2> SUFFICES ASSUME NEW w \in Write, forwards'[w] = 1, Len(evictions'[w]) > Len(evictions[w]),
                        NEW h \in Gen, <<h, w>> \in sent' \ sent
                 PROVE  flight'[h].root \notin Range(evictions'[w])
      OBVIOUS
    <2>1. evictions' # evictions
      BY DEF FlightTypes, OthersTyped
    <2>2. PICK g \in Gen : Evict(g)
      BY <1>1, <2>1, OnlyEvict
    <2>3. forwards[w] = 1
      BY <2>2 DEF Evict
    <2> QED
      BY <1>1, <2>2, <2>3, EvictGoesOn
  <1>2. (FlightTypes /\ ChainInv) /\ [Next]_vars => [A]_vars
    BY <1>1
  <1>3. Spec => [][A]_vars
    BY ChainAlways, <1>2, PTL DEF Spec
  <1> QED
    BY <1>3 DEF NeverBack
=============================================================================
