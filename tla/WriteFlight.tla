---------------------------- MODULE WriteFlight ----------------------------
(***************************************************************************)
(* The write recovery flight (pubsub/writeFlight.js) at one node, for one   *)
(* topic.  A write forwarded to a root stays in a flight, keyed by          *)
(* (topic, root, epoch), until the root's ingest-ack; silence is probed,    *)
(* and a root with no receipt is convicted (a tombstone) and the write      *)
(* promoted to the closest live candidate, or handled by this node itself.  *)
(*                                                                          *)
(* Flights are heap objects: `index` says which one a key names, and an     *)
(* object that was deleted from it lives on in the continuations that hold  *)
(* it.  Frames may be lost, delayed and reordered, and a copy of a write    *)
(* may arrive more than once.  Deadlines are left open: any sweep may find  *)
(* any flight overdue.  Tombstones and chain records, which live for ten    *)
(* minutes and longer, outlive the chain of promotions modelled here.       *)
(***************************************************************************)
EXTENDS Naturals, FiniteSets, Sequences, SequencesExt

CONSTANTS
    Root,           \* the neighbours that may root the topic: numbers, the
                    \* XOR distance to the topic
    Signer,         \* those with a transport identity, which sign their acks
    Reborn,         \* bound: those that may mint a new epoch meanwhile
    Held,           \* those this node may have stepped down for
    SelfDist,       \* this node's own distance
    Write,          \* writes, by correlation key (topic, msgId, op)
    Kill,           \* those that are kills
    None,
    MaxRounds,      \* FLIGHT_MAX_ROUNDS
    MaxPromotions,  \* FLIGHT_MAX_PROMOTIONS
    ChainMax,       \* FLIGHT_CHAIN_MAX
    MaxEpoch,       \* bound: root epochs
    MaxFlight,      \* bound: flight objects
    MaxForward,     \* bound: times a write reaches this node from outside
    MaxTransit      \* bound: acks on their way at a time

ASSUME FlightAssumption ==
    /\ Root \subseteq Nat /\ IsFiniteSet(Root)
    /\ Signer \subseteq Root /\ Held \subseteq Root /\ Reborn \subseteq Root /\ SelfDist \in Nat \ Root
    /\ Kill \subseteq Write /\ IsFiniteSet(Write) /\ None \notin Root /\ MaxEpoch # 0
    /\ {MaxRounds, MaxPromotions, ChainMax, MaxEpoch, MaxFlight, MaxForward, MaxTransit} \subseteq Nat

Gen   == 1..MaxFlight
Epoch == 0..MaxEpoch
Key   == Root \X Epoch
Claim == [root : Root, epoch : Epoch]
Entry == [promotions : Nat, tried : SUBSET Root]

VARIABLES
    flight,     \* flight objects: [root, epoch, stage, rounds, entries]
    index,      \* _writeFlights: key -> flight object, 0 if none
    chain,      \* _flightChains
    age,        \* of its records: the notes since
    beacon,     \* _rootBeacons.get(topic)
    tomb,       \* _rootTombstones.get(topic)
    hold,       \* the root this node stepped down for, while the hold lasts
    handling,   \* writes handed to this node's own _onPub / _onKill
    verifying,  \* continuations of _flightCompleteSigned
    sent,       \* copies of writes on their way: <<flight, write>>
    acks,       \* ingest-acks on their way
    nack,       \* a receipt-nack is on its way
    held,       \* per root: writes ingested
    epochOf,    \* per root: its present epoch
    forwards,   \* per write: arrivals from outside
    acked,      \* completions: [w, root]
    done,       \* writes ingested here or reported undeliverable
    evictions   \* per write: the roots it was evicted from, in order

flightVars == <<flight, index, chain, age, beacon, tomb, hold, handling, verifying>>
rootVars   == <<held, epochOf>>
ghostVars  == <<forwards, acked, done, evictions>>
vars       == <<flightVars, sent, acks, nack, rootVars, ghostVars>>

NoFlight == [root |-> None, epoch |-> 0, stage |-> "none", rounds |-> 0, entries |-> <<>>]
NoEntry  == [promotions |-> 0, tried |-> {}]

Larger(a, b) == IF a > b THEN a ELSE b
Merged(a, b) == [promotions |-> Larger(a.promotions, b.promotions), tried |-> a.tried \cup b.tried]
Without(f, S) == [x \in DOMAIN f \ S |-> f[x]]

KeyOf(g)    == <<flight[g].root, flight[g].epoch>>
Open(g)     == flight[g].stage # "none" /\ index[KeyOf(g)] = g
InFlight(w) == \E g \in Gen : Open(g) /\ w \in DOMAIN flight[g].entries

-----------------------------------------------------------------------------
Init ==
    /\ flight = [g \in Gen |-> NoFlight]
    /\ index = [k \in Key |-> 0]
    /\ chain = <<>> /\ age = <<>>
    /\ beacon = None /\ tomb = None
    /\ hold \in Held \cup {None}
    /\ handling = {} /\ verifying = {}
    /\ sent = {} /\ acks = {} /\ nack = FALSE
    /\ held = [r \in Root |-> {}]
    /\ epochOf = [r \in Root |-> 1]
    /\ forwards = [w \in Write |-> 0]
    /\ acked = {} /\ done = {}
    /\ evictions = [w \in Write |-> <<>>]

\* Mutant: a re-opened flight starts a new chain.
ChainForgotten(w, ch) == NoEntry

\* _flightChainGet
ChainGet(w, ch) == IF w \in DOMAIN ch THEN ch[w] ELSE NoEntry

\* _flightChainNote for the writes of m: the ledger keeps the ChainMax records
\* noted last.
NoteAll(m) ==
    LET noted  == DOMAIN chain \cup DOMAIN m
        since  == [w \in noted |-> IF w \in DOMAIN m THEN 0 ELSE age[w] + 1]
        record == [w \in noted |-> IF w \in DOMAIN m THEN m[w] ELSE chain[w]]
    IN  \E kept \in SUBSET noted :
          /\ IF Cardinality(noted) <= ChainMax THEN kept = noted ELSE Cardinality(kept) = ChainMax
          /\ \A w \in kept, x \in noted \ kept : since[w] <= since[x]
          /\ age' = [w \in kept |-> since[w]]
          /\ chain' = [w \in kept |-> record[w]]

\* _flightOpen of the entries m toward r: joins the standing flight of the key
\* or opens a new object; every entry inherits its chain.  fl, ix, ch, b:
\* the flights, the index, the chains and the beacon record so far.
OpenFlight(r, m, fl, ix, ch, b) ==
    LET e   == IF b = None THEN 0 ELSE b.epoch
        k   == <<r, e>>
        g   == IF ix[k] # 0 THEN ix[k] ELSE CHOOSE x \in Gen : fl[x].stage = "none" /\ \A y \in Gen : y < x => fl[y].stage # "none"
        old == IF ix[k] # 0 THEN fl[g] ELSE [NoFlight EXCEPT !.root = r, !.epoch = e, !.stage = "await-ack"]
        have(w) == IF w \in DOMAIN old.entries THEN old.entries[w] ELSE NoEntry
        entries == [w \in DOMAIN old.entries \cup DOMAIN m |->
                      IF w \in DOMAIN m THEN Merged(have(w), Merged(m[w], ChainGet(w, ch))) ELSE old.entries[w]]
    IN  /\ \E x \in Gen : ix[k] # 0 \/ fl[x].stage = "none"
        /\ flight' = [fl EXCEPT ![g] = [old EXCEPT !.entries = entries]]
        /\ index' = [ix EXCEPT ![k] = g]
        /\ sent' = sent \cup {<<g, w>> : w \in DOMAIN m}

\* _rootTombstoned
Tombstoned(r, e) == tomb # None /\ tomb.root = r /\ e <= tomb.epoch

\* liveCloserRoot without the reachability demand, as PUB and KILL ask it.
CloserRoot ==
    IF beacon # None /\ beacon.root < SelfDist /\ ~Tombstoned(beacon.root, beacon.epoch)
    THEN {beacon.root} ELSE {}

\* _onPub / _onKill at this node: a held topic's write goes to the held root, or
\* nowhere if there is no evidence that it lives; else to the closer root a
\* beacon names; else this node roots the topic and ingests.
Handle(w) ==
    LET toward(r) == OpenFlight(r, [x \in {w} |-> NoEntry], flight, index, chain, beacon) /\ done' = done
        settled   == done' = done \cup {w} /\ UNCHANGED <<flight, index, sent>>
    IN  \/ hold # None /\ toward(hold)
        \/ hold # None /\ settled
        \/ hold = None /\ \E r \in CloserRoot : toward(r)
        \/ hold = None /\ CloserRoot = {} /\ settled

Forward(w) ==
    /\ forwards[w] < MaxForward
    /\ forwards' = [forwards EXCEPT ![w] = @ + 1]
    /\ Handle(w)
    /\ UNCHANGED <<chain, age, beacon, tomb, hold, handling, verifying, acks, nack, rootVars, acked, evictions>>

\* The promotion to this node itself.
SelfHandle(w) ==
    /\ w \in handling
    /\ handling' = handling \ {w}
    /\ Handle(w)
    /\ UNCHANGED <<chain, age, beacon, tomb, hold, verifying, acks, nack, rootVars, forwards, acked, evictions>>

-----------------------------------------------------------------------------
(***************************************************************************)
(* The roots.  A via-pinned write may end at another node than the one it   *)
(* was pinned to.                                                           *)
(***************************************************************************)
Ingest(r, c) ==
    LET ack == [w |-> c[2], from |-> r, epoch |-> epochOf[r], gen |-> c[1]]
    IN  /\ c \in sent
        /\ Cardinality(acks) < MaxTransit
        /\ acks' = acks \cup {IF r \in Signer THEN ack ELSE [ack EXCEPT !.gen = 0]}
        /\ held' = [held EXCEPT ![r] = @ \cup {c[2]}]
        /\ UNCHANGED <<flightVars, sent, nack, epochOf, ghostVars>>

\* _onReceiptProbe at r, the flight's root: the (unsigned) receipt, or its absence.
AnswerProbe(r, g) ==
    /\ Open(g) /\ flight[g].stage = "probing" /\ flight[g].root = r
    /\ Cardinality(acks) < MaxTransit
    /\ \E w \in DOMAIN flight[g].entries :
          IF w \in held[r]
          THEN /\ acks' = acks \cup {[w |-> w, from |-> r, epoch |-> epochOf[r], gen |-> 0]}
               /\ nack' = nack
          ELSE nack' = TRUE /\ acks' = acks
    /\ UNCHANGED <<flightVars, sent, rootVars, ghostVars>>

ReMint(r) ==
    /\ r \in Reborn /\ epochOf[r] < MaxEpoch
    /\ epochOf' = [epochOf EXCEPT ![r] = @ + 1]
    /\ UNCHANGED <<flightVars, sent, acks, nack, held, ghostVars>>

\* _onRootBeacon: the record names the sender and keeps the highest epoch seen.
OnRootBeacon(r) ==
    /\ beacon' = [root |-> r, epoch |-> IF beacon = None THEN epochOf[r] ELSE Larger(epochOf[r], beacon.epoch)]
    /\ beacon' # beacon
    /\ UNCHANGED <<flight, index, chain, age, tomb, hold, handling, verifying, sent, acks, nack, rootVars, ghostVars>>

\* The record expires, or a forward along it fails.
BeaconGone ==
    /\ beacon # None /\ beacon' = None
    /\ UNCHANGED <<flight, index, chain, age, tomb, hold, handling, verifying, sent, acks, nack, rootVars, ghostVars>>

\* The step-down hold runs out, or is cleared with the record it stands for.
HoldEnds ==
    /\ hold # None /\ hold' = None
    /\ UNCHANGED <<flight, index, chain, age, beacon, tomb, handling, verifying, sent, acks, nack, rootVars, ghostVars>>

-----------------------------------------------------------------------------
(***************************************************************************)
(* Acks.                                                                   *)
(***************************************************************************)
\* Mutant: an ack binds whoever sent it.
BindsAnyone(g, a) == flight[g].epoch # 0 => a.epoch = flight[g].epoch

Binds(g, a) == /\ a.from = flight[g].root
               /\ flight[g].epoch # 0 => a.epoch = flight[g].epoch

\* Deleting entry w of object g and, if that leaves it empty, its key.
Complete(w, G) ==
    /\ flight' = [g \in Gen |-> IF g \in G THEN [flight[g] EXCEPT !.entries = Without(@, {w})] ELSE flight[g]]
    /\ index' = [k \in Key |-> IF \E g \in G : KeyOf(g) = k /\ DOMAIN flight[g].entries \subseteq {w}
                               THEN 0 ELSE index[k]]

\* _flightComplete, on an unsigned ack: every flight the ack binds to.
OnAck(a) ==
    LET G == {g \in Gen : Open(g) /\ a.w \in DOMAIN flight[g].entries /\ Binds(g, a)}
    IN  /\ a \in acks /\ a.gen = 0
        /\ acks' = acks \ {a}
        /\ Complete(a.w, G)
        /\ acked' = acked \cup {[w |-> a.w, root |-> flight[g].root] : g \in G}
        /\ UNCHANGED <<chain, age, beacon, tomb, hold, handling, verifying, sent, nack, rootVars, forwards, done, evictions>>

\* _flightCompleteSigned: the lookup binds the proof by nonce and epoch, then
\* awaits the check of the signer's identity.
VerifyBegin(a) ==
    LET g == a.gen
        bound == /\ Open(g) /\ a.w \in DOMAIN flight[g].entries
                 /\ flight[g].epoch # 0 => a.epoch = flight[g].epoch
    IN  /\ a \in acks /\ g # 0
        /\ acks' = acks \ {a}
        /\ verifying' = IF bound THEN verifying \cup {a} ELSE verifying
        /\ UNCHANGED <<flight, index, chain, age, beacon, tomb, hold, handling, sent, nack, rootVars, ghostVars>>

\* After the await, on the object captured before it.
VerifyEnd(a) ==
    /\ a \in verifying
    /\ verifying' = verifying \ {a}
    /\ IF a.from = flight[a.gen].root
       THEN /\ Complete(a.w, {a.gen})
            /\ acked' = acked \cup {[w |-> a.w, root |-> flight[a.gen].root]}
       ELSE UNCHANGED <<flight, index, acked>>
    /\ UNCHANGED <<chain, age, beacon, tomb, hold, handling, sent, acks, nack, rootVars, forwards, done, evictions>>

\* Mutant: a nack gives the flight all its rounds back.
OnReceiptNackAfresh ==
    /\ nack /\ nack' = FALSE
    /\ flight' = [g \in Gen |-> IF Open(g) /\ flight[g].stage = "probing"
                                THEN [flight[g] EXCEPT !.stage = "retrying", !.rounds = 0] ELSE flight[g]]
    /\ UNCHANGED <<index, chain, age, beacon, tomb, hold, handling, verifying, sent, acks, rootVars, ghostVars>>

\* _onReceiptNack names the topic only: every probing flight retries its writes.
OnReceiptNack ==
    /\ nack /\ nack' = FALSE
    /\ flight' = [g \in Gen |-> IF Open(g) /\ flight[g].stage = "probing"
                                THEN [flight[g] EXCEPT !.stage = "retrying"] ELSE flight[g]]
    /\ UNCHANGED <<index, chain, age, beacon, tomb, hold, handling, verifying, sent, acks, rootVars, ghostVars>>

-----------------------------------------------------------------------------
(***************************************************************************)
(* The sweep.                                                              *)
(***************************************************************************)
Probe(g) ==
    /\ Open(g) /\ flight[g].stage \in {"await-ack", "retrying"}
    /\ flight[g].rounds < MaxRounds
    /\ flight' = [flight EXCEPT ![g].stage = "probing", ![g].rounds = @ + 1]
    /\ UNCHANGED <<index, chain, age, beacon, tomb, hold, handling, verifying, sent, acks, nack, rootVars, ghostVars>>

Overdue(g) == \/ flight[g].stage = "probing"
              \/ flight[g].stage \in {"await-ack", "retrying"} /\ flight[g].rounds >= MaxRounds

\* Mutant: convicted roots stay in the pick.
PickAny(N, excluded) == Min(N \cup {SelfDist})

\* The closest of this node and the neighbours N of this moment that are not
\* excluded, by distance.
Pick(N, excluded) == Min((N \ excluded) \cup {SelfDist})

\* Promotion of the entries m, evicted from r.
Promote(g, m, r) ==
    LET next == [w \in DOMAIN m |-> [promotions |-> m[w].promotions + 1, tried |-> m[w].tried \cup {r}]]
        excluded == {r} \cup UNION {m[w].tried : w \in DOMAIN m}
        rest == [index EXCEPT ![KeyOf(g)] = 0]
        gone == [flight EXCEPT ![g].entries = m]
    IN  /\ NoteAll(next)
        /\ \E N \in SUBSET Root :
              IF Pick(N, excluded) = SelfDist
              THEN /\ handling' = handling \cup DOMAIN m
                   /\ flight' = gone /\ index' = rest /\ sent' = sent
              ELSE OpenFlight(Pick(N, excluded), next, gone, rest, chain', beacon') /\ handling' = handling

\* _flightEvict: convict, drop the beacon, end what is at the cap or stale,
\* promote the rest.
Evict(g) ==
    LET f == flight[g]
        capped == {w \in DOMAIN f.entries : f.entries[w].promotions >= MaxPromotions}
    IN  /\ Open(g) /\ Overdue(g)
        /\ tomb' = IF tomb = None \/ f.epoch >= tomb.epoch THEN [root |-> f.root, epoch |-> f.epoch] ELSE tomb
        /\ beacon' = IF beacon # None /\ beacon.root = f.root /\ beacon.epoch <= f.epoch THEN None ELSE beacon
        /\ evictions' = [w \in Write |-> IF w \in DOMAIN f.entries THEN Append(evictions[w], f.root) ELSE evictions[w]]
        /\ \E stale \in SUBSET (DOMAIN f.entries \ Kill) :
              LET ended == capped \cup stale
                  m == Without(f.entries, ended)
              IN  /\ done' = done \cup ended
                  /\ IF DOMAIN m = {}
                     THEN /\ flight' = [flight EXCEPT ![g].entries = m]
                          /\ index' = [index EXCEPT ![KeyOf(g)] = 0]
                          /\ UNCHANGED <<chain, age, handling, sent>>
                     ELSE Promote(g, m, f.root)
        /\ UNCHANGED <<hold, verifying, acks, nack, rootVars, forwards, acked>>

-----------------------------------------------------------------------------
Next ==
    \/ \E w \in Write : Forward(w) \/ SelfHandle(w)
    \/ \E r \in Root, c \in sent : Ingest(r, c)
    \/ \E r \in Root, g \in Gen : AnswerProbe(r, g)
    \/ \E r \in Root : ReMint(r) \/ OnRootBeacon(r)
    \/ BeaconGone
    \/ HoldEnds
    \/ \E a \in acks : OnAck(a) \/ VerifyBegin(a)
    \/ \E a \in verifying : VerifyEnd(a)
    \/ OnReceiptNack
    \/ \E g \in Gen : Probe(g) \/ Evict(g)

Spec == Init /\ [][Next]_vars

\* refreshTick runs the sweep; a handler that was called runs.
Fairness ==
    /\ \A g \in Gen : WF_vars(Probe(g)) /\ WF_vars(Evict(g))
    /\ \A w \in Write : WF_vars(SelfHandle(w))

FairSpec == Spec /\ Fairness

-----------------------------------------------------------------------------
TypeOK ==
    /\ \A g \in Gen :
          /\ flight[g].root \in Root \cup {None} /\ flight[g].epoch \in Epoch
          /\ flight[g].stage \in {"none", "await-ack", "probing", "retrying"}
          /\ flight[g].rounds \in 0..MaxRounds
          /\ DOMAIN flight[g].entries \subseteq Write
          /\ \A w \in DOMAIN flight[g].entries : flight[g].entries[w] \in Entry
    /\ index \in [Key -> 0..MaxFlight]
    /\ DOMAIN age = DOMAIN chain /\ DOMAIN chain \subseteq Write /\ Cardinality(DOMAIN chain) <= ChainMax
    /\ beacon \in Claim \cup {None} /\ tomb \in Claim \cup {None} /\ hold \in Root \cup {None}
    /\ handling \subseteq Write /\ nack \in BOOLEAN

\* "The ack is the ONLY terminal success, and it must BIND": a flight's entry is
\* completed only if the very root the flight suspects ingested the write,
\* whoever else acked it, under whatever epoch, however late.
AckProves == \A a \in acked : a.w \in held[a.root]

\* "A write is promoted past at most this many evictions": so is every write that
\* came in from outside once, also when the promotion goes to this node itself and
\* its own handler forwards the write into a fresh flight (the chain ledger).
EvictionsBounded ==
    \A w \in Write : forwards[w] <= 1 => Len(evictions[w]) <= MaxPromotions + 1

\* What a flight keeps is bounded: its probe rounds and the chain ledger (in
\* TypeOK), and the promotions of a write (_flightSweep, _flightEvict).
FlightBounded == TypeOK /\ EvictionsBounded

\* "Each promotion skips every root the chain was already evicted from": a write
\* that came in once is never promoted back to a root that failed it, through
\* whatever flights, evictions and passes by this node's own handler.  (Of a
\* write that comes in again each arrival starts a chain of its own, and the
\* chain ledger, keyed by the write, keeps the last one's note.)
NeverBack ==
    [][\A w \in Write : forwards'[w] = 1 /\ Len(evictions'[w]) > Len(evictions[w]) =>
          \A g \in Gen : w \in DOMAIN flight'[g].entries /\ <<g, w>> \in sent' \ sent
             => flight'[g].root \notin Range(evictions'[w])]_vars

\* "A forwarded write completes only on its correlated ingest-ack": a write that
\* was forwarded is in a flight, or at this node's own handler, or was acked by
\* its root, or was ingested here or reported undeliverable.
NoSilentDrop ==
    \A w \in Write : forwards[w] > 0 =>
        InFlight(w) \/ w \in handling \/ w \in done \/ \E a \in acked : a.w = w

\* Every flight ends, whatever is lost: silence, nacks and promotions are bounded.
FlightsSettle == \A w \in Write : InFlight(w) ~> ~InFlight(w)
=============================================================================
