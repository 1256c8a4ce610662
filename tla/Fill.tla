------------------------------- MODULE Fill -------------------------------
(***************************************************************************)
(* The fill of AxonaPeer: the tick of _maintainSynaptome with its awaits     *)
(* (near search, band probe, peer exchange, the bound-only open of a dial),  *)
(* the cache of nominations, the dials that _considerCandidate issues for    *)
(* the tick and for gossip, and what becomes of them.                        *)
(*                                                                           *)
(* A peer is its XOR distance to this node.  The gate is Admission's; here a *)
(* full table admits a peer nearer than its farthest entry, in that entry's  *)
(* place.  An awaited search ends with any one peer, or none.                *)
(***************************************************************************)
EXTENDS Naturals, Sequences, FiniteSets, SequencesExt

CONSTANTS
    Known,      \* the number of peers
    Seats,      \* _capM()
    KCache, MaxPerTick, FillPending,
    NoPathDefer,\* NO_PATH_DEFER
    MaxInbound, \* bound: peers that bind by a dial of their own
    MaxSeatLost     \* bound: table entries lost

ASSUME FillAssumption ==
    /\ {Known, Seats, MaxPerTick, FillPending, MaxInbound, MaxSeatLost} \subseteq Nat
    /\ KCache \in Nat \ {0} /\ NoPathDefer \in BOOLEAN

Other == 1..Known
Src == {"near", "band", "pex"}

VARIABLES
    seats,      \* synaptome
    cache,      \* _fillCache, in its order
    tick,       \* where the tick waits
    ordered,    \* the nominations the tick has still to look at
    made,       \* dials and cancels of the tick
    bandFirst,  \* the parity of ticks
    attempts,   \* the guard's tokens: who asked, "opening" or "issued", _heldSrc,
                \* and (ghost) whether the dial is out to displace an entry
    backoff,    \* peers the guard does not allow now
    marked,     \* peers with a loss mark that is not due
    inbound,    \* peers that dialled this node
    surprises,  \* ghost: seats taken by them while a dial was out
    gone

flVars == <<seats, cache, tick, ordered, made, bandFirst, attempts, backoff, marked, inbound, surprises, gone>>
tickVars == <<tick, ordered, made, bandFirst>>

Cached == {cache[k].id : k \in 1..Len(cache)}
Places(id) == {k \in 1..Len(cache) : cache[k].id = id}
Uncached(id) == IF id \in Cached THEN RemoveAt(cache, Min(Places(id))) ELSE cache
Pending == {a.id : a \in attempts}
Dials == {a \in attempts : a.st = "issued"}

FlInit ==
    /\ seats = {} /\ cache = <<>> /\ tick = "idle" /\ ordered = {} /\ made = 0 /\ bandFirst = FALSE
    /\ attempts = {} /\ backoff = {}
    /\ marked = {} /\ inbound = 0 /\ surprises = 0 /\ gone = 0

(***************************************************************************)
(* Nominations.                                                              *)
(***************************************************************************)
PexCap == IF KCache \div 2 = 0 THEN 1 ELSE KCache \div 2
PexPlaces == {k \in 1..Len(cache) : cache[k].src = "pex"}

\* The cache after nominate(id, src): a sample past its share replaces the
\* oldest one, and a full cache refuses.
Nominated(id, src) ==
    LET kept == IF src = "pex" /\ Cardinality(PexPlaces) >= PexCap THEN RemoveAt(cache, Min(PexPlaces)) ELSE cache
    IN  IF id \in seats \cup Cached \cup marked THEN cache
        ELSE IF Len(kept) >= KCache THEN kept
        ELSE Append(kept, [id |-> id, src |-> src])

\* What an awaited search brings.
Found(src) == cache' \in {cache} \cup {Nominated(id, src) : id \in Other}

\* (mutant) the dial's own token is counted against it.
AvailabilityOfAll(own) ==
    LET taken == Cardinality(seats) + Cardinality(attempts)
    IN  IF taken >= Seats THEN 0 ELSE Seats - taken

\* _fillAvailability: seats left, net of the attempts in flight.  Never below
\* zero here.
Availability(own) ==
    LET taken == Cardinality(seats) + Cardinality(attempts)
    IN  IF taken >= Seats + own THEN 0 ELSE (Seats + own) - taken

\* The gate predicts an admission by displacement.
ImproveAdmits(id) == Cardinality(seats) >= Seats /\ \E p \in seats : id < p

(***************************************************************************)
(* The tick.                                                                 *)
(***************************************************************************)
Goes(next) == tick' = next /\ UNCHANGED <<ordered, made, bandFirst>>

TickStart ==
    /\ tick = "idle" /\ bandFirst' = ~bandFirst
    /\ tick' = IF Cardinality(seats) >= Seats THEN "improve" ELSE "near"
    /\ UNCHANGED <<ordered, made>>
    /\ UNCHANGED <<seats, cache, attempts, backoff, marked, inbound, surprises, gone>>

NearSearched ==
    /\ tick = "near" /\ Goes("band") /\ Found("near")
    /\ UNCHANGED <<seats, attempts, backoff, marked, inbound, surprises, gone>>

\* The band probe, and after it the directory's request, whose answer comes
\* with a peer list.
BandDiscovered ==
    /\ tick = "band" /\ Goes("pex") /\ Found("band")
    /\ UNCHANGED <<seats, attempts, backoff, marked, inbound, surprises, gone>>

\* The dial phase looks at what the cache held when it began.
PeerExchanged ==
    /\ tick = "pex" /\ Found("pex")
    /\ tick' = "dial" /\ ordered' = ToSet(cache') /\ made' = 0 /\ UNCHANGED bandFirst
    /\ UNCHANGED <<seats, attempts, backoff, marked, inbound, surprises, gone>>

TickEnds == tick' = "idle" /\ ordered' = {} /\ made' = 0 /\ UNCHANGED bandFirst

\* Its order: nearest first, on every other tick the bands' nominations before
\* the others.
Before(a, b) ==
    IF bandFirst /\ (a.src = "band") # (b.src = "band") THEN a.src = "band" ELSE a.id < b.id
First == CHOOSE r \in ordered : \A q \in ordered \ {r} : Before(r, q)
Rest == ordered \ {First}

Asked(id, by) == [id |-> id, by |-> by, st |-> "opening", src |-> "none", swaps |-> FALSE]

\* The dial phase is over: every candidate was looked at, or the deficit or the
\* tick's budget is used up.
DialPhaseOver == ordered = {} \/ made >= MaxPerTick \/ Availability(0) = 0
DialPhaseEnds ==
    /\ tick = "dial" /\ DialPhaseOver /\ TickEnds
    /\ UNCHANGED <<seats, cache, attempts, backoff, marked, inbound, surprises, gone>>

\* The dial phase at its next candidate: drop it, skip it, or dial it.  The
\* preflight may always refuse (mayDial, the ledger's predicate), and a
\* candidate on a path cooldown is skipped before it.
NextOne == ordered' = Rest /\ UNCHANGED <<tick, made, bandFirst>>
DialNext(id) ==
    /\ tick = "dial" /\ ~DialPhaseOver /\ id = First.id
    /\ UNCHANGED <<seats, backoff, marked, inbound, surprises, gone>>
    /\ IF id \in seats \cup marked
       THEN cache' = Uncached(id) /\ NextOne /\ UNCHANGED attempts
       ELSE /\ UNCHANGED cache
            /\ \/ TickEnds /\ UNCHANGED attempts
               \/ id \in backoff /\ NextOne /\ UNCHANGED attempts
               \/ /\ id \notin backoff /\ Cardinality(attempts) < FillPending
                  /\ IF id \in Pending
                     THEN NextOne /\ UNCHANGED attempts
                     ELSE attempts' = attempts \cup {Asked(id, "fill")} /\ Goes("opening")

\* At cap: one dial of a candidate that the gate predicts it will swap in.
NearImproveStep ==
    /\ tick = "improve"
    /\ UNCHANGED <<seats, cache, backoff, marked, inbound, surprises, gone>>
    /\ \/ TickEnds /\ UNCHANGED attempts
       \/ \E id \in Other \ (seats \cup marked \cup backoff \cup Pending) :
             /\ ImproveAdmits(id) /\ Cardinality(attempts) < FillPending
             /\ attempts' = attempts \cup {Asked(id, "improve")}
             /\ Goes("opening")

(***************************************************************************)
(* _considerCandidate, for the tick and for gossip.                          *)
(***************************************************************************)
Gossip(id) ==
    /\ id \notin seats \cup marked \cup backoff \cup Pending
    /\ {a \in attempts : a.by = "gossip" /\ a.st = "opening"} = {}
    /\ Availability(0) > 0 \/ ImproveAdmits(id)
    /\ attempts' = attempts \cup {Asked(id, "gossip")}
    /\ UNCHANGED <<seats, cache, tickVars, backoff, marked, inbound, surprises, gone>>

\* (mutant) the availability is not read again after the open.
CoveredBefore(id) == TRUE

\* "Availability re-read after the awaited open".
Covered(id) == Availability(1) > 0 \/ ImproveAdmits(id)

\* What the tick does with an outcome; gossip does nothing with it.
TickTakes(a, counted, ends) ==
    IF a.by = "gossip" THEN UNCHANGED <<tickVars, cache>>
    ELSE IF a.by = "improve" \/ ends THEN TickEnds /\ UNCHANGED cache
    ELSE /\ tick' = "dial" /\ ordered' = Rest /\ made' = made + counted
         /\ cache' = Uncached(a.id) /\ UNCHANGED bandFirst

\* The source a fill's dial carries, for its requeue.
SrcOf(a) ==
    IF ~NoPathDefer \/ a.by # "fill" THEN "none"
    ELSE IF a.id \in Cached THEN (CHOOSE r \in ToSet(cache) : r.id = a.id).src ELSE "near"

\* The token of a dial that is out.
Out(a) == [id |-> a.id, by |-> a.by, st |-> "issued", src |-> SrcOf(a),
           swaps |-> Availability(1) = 0 /\ ImproveAdmits(a.id)]

\* The bound-only open answered.  A peer that was seated meanwhile is done; a
\* marked one is skipped; an uncovered one stays nominated and ends the phase.
OpenReturned(a) ==
    /\ a \in attempts /\ a.st = "opening"
    /\ UNCHANGED <<seats, marked, inbound, surprises, gone>>
    /\ IF a.id \in seats
       THEN attempts' = attempts \ {a} /\ TickTakes(a, 1, FALSE) /\ UNCHANGED backoff
       ELSE IF a.id \in marked
       THEN attempts' = attempts \ {a} /\ TickTakes(a, 0, FALSE) /\ UNCHANGED backoff
       ELSE IF ~Covered(a.id)
       THEN attempts' = attempts \ {a} /\ TickTakes(a, 0, TRUE) /\ UNCHANGED backoff
       ELSE \/ /\ attempts' = (attempts \ {a}) \cup {Out(a)}                  \* held
               /\ TickTakes(a, 1, FALSE) /\ UNCHANGED backoff
            \/ /\ attempts' = attempts \ {a} /\ TickTakes(a, 0, TRUE)                 \* no channel
               /\ UNCHANGED backoff
            \/ /\ attempts' = attempts \ {a} /\ backoff' = backoff \cup {a.id}        \* no dial
               /\ TickTakes(a, 1, FALSE)

(***************************************************************************)
(* What becomes of a dial.                                                   *)
(***************************************************************************)
Seated(id) ==
    IF Cardinality(seats) < Seats THEN seats \cup {id}
    ELSE IF ImproveAdmits(id) THEN (seats \ {CHOOSE p \in seats : \A q \in seats : q <= p}) \cup {id}
    ELSE seats

DialBound(a) ==
    /\ a \in attempts /\ a.st = "issued"
    /\ attempts' = attempts \ {a}
    /\ seats' = Seated(a.id)
    /\ UNCHANGED <<cache, tickVars, backoff, marked, inbound, surprises, gone>>

\* A failed negotiation writes a mark, and the guard's backoff runs; a
\* capacity reject of the far end only releases the token.
DialFailed(a) ==
    /\ a \in attempts /\ a.st = "issued"
    /\ attempts' = attempts \ {a}
    /\ \/ backoff' = backoff \cup {a.id} /\ marked' = marked \cup {a.id}
       \/ UNCHANGED <<backoff, marked>>
    /\ UNCHANGED <<seats, cache, tickVars, inbound, surprises, gone>>

\* _onNoPath: the token is released and the candidate nominated again, with
\* its source, unless the cache is full.
NoPath(a) ==
    /\ NoPathDefer /\ a \in attempts /\ a.st = "issued"
    /\ attempts' = attempts \ {a} /\ backoff' = backoff \cup {a.id}
    /\ cache' = IF a.id \in Cached \/ Len(cache) >= KCache THEN cache
                ELSE Append(cache, [id |-> a.id, src |-> IF a.src = "none" THEN "near" ELSE a.src])
    /\ UNCHANGED <<seats, tickVars, marked, inbound, surprises, gone>>

BackoffEnds(id) ==
    /\ id \in backoff /\ backoff' = backoff \ {id}
    /\ UNCHANGED <<seats, cache, tickVars, attempts, marked, inbound, surprises, gone>>

\* A peer binds by its own dial.
InboundBound(id) ==
    /\ inbound < MaxInbound /\ id \notin seats \cup Pending
    /\ inbound' = inbound + 1
    /\ seats' = Seated(id)
    /\ surprises' = surprises + (IF Cardinality(seats') > Cardinality(seats) /\ Dials # {} THEN 1 ELSE 0)
    /\ UNCHANGED <<cache, tickVars, attempts, backoff, marked, gone>>

\* A loss evicts and marks; the mark comes due.
SeatLost(id) ==
    /\ id \in seats /\ gone < MaxSeatLost /\ gone' = gone + 1
    /\ seats' = seats \ {id} /\ marked' = marked \cup {id}
    /\ UNCHANGED <<cache, tickVars, attempts, backoff, inbound, surprises>>

MarkDue(id) ==
    /\ id \in marked /\ marked' = marked \ {id}
    /\ UNCHANGED <<seats, cache, tickVars, attempts, backoff, inbound, surprises, gone>>

TickStep ==
    \/ TickStart \/ NearSearched \/ BandDiscovered \/ PeerExchanged \/ DialPhaseEnds \/ NearImproveStep
    \/ \E id \in Other : DialNext(id)

FlNext ==
    \/ TickStep
    \/ \E id \in Other : Gossip(id) \/ BackoffEnds(id) \/ InboundBound(id) \/ SeatLost(id) \/ MarkDue(id)
    \/ \E a \in attempts : OpenReturned(a) \/ DialBound(a) \/ DialFailed(a) \/ NoPath(a)

FlSpec == FlInit /\ [][FlNext]_flVars

\* The design's conditions of liveness: the ticks run and every await ends;
\* SUPPLY, a search goes on finding every peer; MUTUAL CAPACITY, a candidate
\* that is looked at again and again is dialled, and a dial made again and
\* again is bound; FAIR RETRY, schedules come due.
Issued(a) == OpenReturned(a) /\ \E b \in attempts' : b.id = a.id /\ b.st = "issued"
FlFairness ==
    /\ WF_flVars(TickStep)
    /\ WF_flVars(\E a \in attempts : OpenReturned(a))
    /\ WF_flVars(\E a \in attempts : DialBound(a) \/ DialFailed(a) \/ NoPath(a))
    /\ \A id \in Other :
          /\ WF_flVars(BackoffEnds(id)) /\ WF_flVars(MarkDue(id))
          /\ SF_flVars(NearSearched /\ id \in {r.id : r \in ToSet(cache')})
          /\ SF_flVars(DialNext(id) /\ id \notin Pending /\ Asked(id, "fill") \in attempts')
          /\ SF_flVars(\E a \in attempts : a.id = id /\ Issued(a))
          /\ SF_flVars(\E a \in attempts : a.id = id /\ DialBound(a))

FlFairSpec == FlSpec /\ FlFairness

(***************************************************************************)
(* Properties.                                                               *)
(***************************************************************************)
Nomination == [id : Other, src : Src]

\* Every variable stays in its type.
FlTypeOK ==
    /\ seats \subseteq Other /\ Cardinality(seats) <= Seats
    /\ cache \in Seq(Nomination) /\ Len(cache) <= KCache
    /\ Cardinality(Cached) = Len(cache)
    /\ tick \in {"idle", "near", "band", "pex", "dial", "opening", "improve"}
    /\ ordered \subseteq Nomination /\ made \in 0..MaxPerTick /\ bandFirst \in BOOLEAN
    /\ \A a \in attempts : a.id \in Other /\ a.by \in {"fill", "gossip", "improve"} /\ a.st \in {"opening", "issued"}
    /\ {backoff, marked} \subseteq SUBSET Other
    /\ inbound \in 0..MaxInbound /\ surprises \in 0..inbound /\ gone \in 0..MaxSeatLost

\* "Dialing past the deficit binds peers the gate then refuses": the dials that
\* are out fit the seats that are left, but for seats that other peers took
\* while a dial was out and for dials that displace an entry.
DialsCovered ==
    Cardinality(seats) + Cardinality({a \in Dials : ~a.swaps}) <= Seats + surprises

\* "While peer(ADMITTED) < cap, discover and dial": under the conditions the
\* design names, the table fills.
FillReachesCap == <>[](Cardinality(seats) = Seats)

=============================================================================
