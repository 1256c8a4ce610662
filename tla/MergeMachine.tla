---------------------------- MODULE MergeMachine ----------------------------
(***************************************************************************)
(* Dual-root reconciliation (pubsub/mergeMachine.js): two roots of one      *)
(* topic, each with custody of stamped messages and tombstones, become one. *)
(* A losing root OFFERs; the winner PULLs; the loser binds the round, cuts  *)
(* and gates its writes, and serves a fixed export in frames; the winner    *)
(* acks what it retained; the loser steps down (step 5), and the round is   *)
(* closed by the loser's merge-bearing SUB and the winner's MERGE_CLOSED.   *)
(*                                                                          *)
(* One topic, one winner W, any number of losers.  Messages may be lost,    *)
(* reordered and (MaxDup times) duplicated.  W may crash (MaxCrash times),  *)
(* losing its memory and coming back under a higher epoch.  The staged      *)
(* (root-less winner) variant and the successor gate are not in this module.*)
(***************************************************************************)
EXTENDS Naturals, Sequences, FiniteSets, SequencesExt

CONSTANTS
    Loser,      \* losing roots
    Corr,       \* round nonces
    Msg,        \* message ids
    None,
    Lease,      \* MERGE_TIMEOUT_MS = A, in ticks
    Retain,     \* MERGE_RETENTION_MS = A + 2E + P, in ticks
    MaxJump,    \* bound: how far W's wall clock may run ahead, in ticks (E)
    MaxDup,     \* bound: duplicated deliveries
    MaxCrash,   \* bound: crashes of the winner
    Cutover     \* the `cutover` option

ASSUME MergeAssumption ==
    /\ None \notin Loser \cup Corr /\ IsFiniteSet(Msg)
    /\ Lease \in Nat /\ Retain \in Nat /\ MaxJump \in Nat
    /\ Lease + MaxJump < Retain
    /\ MaxDup \in Nat /\ MaxCrash \in Nat
    /\ Cutover \in BOOLEAN

VARIABLES
    lRoot,      \* role.isRoot at each loser
    lCache,     \* role.cacheIds
    lTomb,      \* role.tombstones
    lPins,      \* role.merge.pins
    lGen,       \* role.gen
    gate,       \* role.merge.gate.corr
    cand,       \* role.merge.candidate.epoch (0: no candidate)
    completing, \* role.merge.completing.corr
    fwd,        \* a write was forwarded to W under the present gate
    ingest,     \* writes between _cutCapture and the commit
    round,      \* openMerges and closedCorrs, by corr
    wRoot, wEpoch, wCache, wTomb, wPins,
    pull,       \* openPulls, by corr
    busy,       \* frames W is ingesting (awaits inside _mergeIngestFrame)
    net,        \* frames in flight
    issued,     \* writes that clients have made
    dups, crashes, jumps

lVars == <<lRoot, lCache, lTomb, lPins, lGen, gate, cand, completing, fwd, ingest, round>>
wVars == <<wRoot, wEpoch, wCache, wTomb, wPins, pull, busy>>
vars  == <<lVars, wVars, net, issued, dups, crashes, jumps>>

Op    == {"pub", "kill"}
Write == [op : Op, id : Msg]
Item  == [kind : {"body", "del"}, id : Msg]
Ids(items, k) == {it.id : it \in {i \in Range(items) : i.kind = k}}
Bodies(items) == Ids(items, "body")
Dels(items)   == Ids(items, "del")

NoRound == [st |-> "none", owner |-> None, epoch |-> 0, items |-> <<>>, sent |-> 0,
            age |-> 0, reached |-> FALSE]
NoPull  == [st |-> "none", loser |-> None, cursor |-> None, man |-> <<>>, age |-> 0, full |-> FALSE]

-----------------------------------------------------------------------------
Init ==
    /\ lRoot = [l \in Loser |-> TRUE]
    /\ lCache \in [Loser -> SUBSET Msg]
    /\ lTomb = [l \in Loser |-> {}]
    /\ lPins = [l \in Loser |-> {}]
    /\ lGen = [l \in Loser |-> 0]
    /\ gate = [l \in Loser |-> None]
    /\ cand = [l \in Loser |-> 0]
    /\ completing = [l \in Loser |-> None]
    /\ fwd = [l \in Loser |-> FALSE]
    /\ ingest = [l \in Loser |-> {}]
    /\ round = [c \in Corr |-> NoRound]
    /\ wRoot = TRUE /\ wEpoch = 1
    /\ wCache = {} /\ wTomb = {} /\ wPins = {}
    /\ pull = [c \in Corr |-> NoPull]
    /\ busy = {}
    /\ net = {}
    /\ issued = {[op |-> "pub", id |-> x] : x \in UNION {lCache[l] : l \in Loser}}
    /\ dups = 0 /\ crashes = 0 /\ jumps = 0

\* A frame that is never delivered is a lost one; one that no handler accepts
\* is dropped.  Delivery of m, with the frames `out` sent in answer.
Deliver(m, out) ==
    /\ m \in net
    /\ \/ net' = (net \ {m}) \cup out /\ dups' = dups
       \/ dups < MaxDup /\ net' = net \cup out /\ dups' = dups + 1

Sent(out) == net' = net \cup out /\ dups' = dups

-----------------------------------------------------------------------------
(***************************************************************************)
(* The loser: candidate, offer, bind.                                      *)
(***************************************************************************)
HasCustody(l) == lCache[l] # {} \/ lTomb[l] # {}

OpenRounds(l) == {c \in Corr : round[c].owner = l /\ round[c].st \in {"offered", "bound", "completed"}}

\* _mergeOffer(l): silent while gated, completing, or with a round to W open.
\* r: the route's verdict.  Corr bounds the number of rounds.
Offer(l, e, open) ==
    IF open THEN round' = round /\ Sent({})
    ELSE \E c \in Corr, r \in BOOLEAN :
            /\ round[c].st = "none"
            /\ round' = [round EXCEPT ![c] = [NoRound EXCEPT !.st = "offered", !.owner = l,
                                                             !.epoch = e, !.reached = r]]
            /\ Sent(IF r THEN {[type |-> "offer", corr |-> c, from |-> l]} ELSE {})

\* _mergeCandidate, from a beacon of W: a root without custody just yields; a
\* standing candidate is replaced only by a claim that wins over it, which the
\* same winner does only under a later epoch.
Candidate(l) ==
    /\ lRoot[l] /\ wRoot
    /\ IF HasCustody(l)
       THEN /\ cand[l] < wEpoch
            /\ cand' = [cand EXCEPT ![l] = wEpoch]
            /\ Offer(l, wEpoch, gate[l] # None \/ completing[l] # None \/ OpenRounds(l) # {})
            /\ lRoot' = lRoot
       ELSE /\ lRoot' = [lRoot EXCEPT ![l] = FALSE]
            /\ cand' = cand /\ round' = round /\ Sent({})
    /\ UNCHANGED <<lCache, lTomb, lPins, lGen, gate, completing, fwd, ingest, wVars, issued, crashes, jumps>>

\* Mutant: an aborted round is left in a state of its own.
ClosedAborted(c) == [round EXCEPT ![c].st = "aborted"]

Closed(c) == [round EXCEPT ![c] = [NoRound EXCEPT !.st = "closed", !.owner = round[c].owner]]

\* The export: the cache, then the active tombstones.
Export(l) ==
    LET item(k, S) == [i \in 1..Cardinality(S) |-> [kind |-> k, id |-> SetToSeq(S)[i]]]
    IN  item("body", lCache[l]) \o item("del", lTomb[l])

\* _mergeAnswerPull, first pull of an offered round: cut, gate, fix the export.
BindRound(m) ==
    LET c == m.corr  l == round[c].owner
    IN  /\ m.type = "pull" /\ m.cursor = None
        /\ round[c].st = "offered"
        /\ lRoot[l] /\ gate[l] = None /\ completing[l] = None
        /\ lGen' = [lGen EXCEPT ![l] = @ + 1]
        /\ gate' = [gate EXCEPT ![l] = c]
        /\ fwd' = [fwd EXCEPT ![l] = FALSE]
        /\ round' = [round EXCEPT ![c].st = "bound", ![c].epoch = m.epoch,
                                  ![c].items = Export(l), ![c].sent = 0, ![c].age = 0]
        /\ Deliver(m, {[type |-> "header", corr |-> c]})
        /\ UNCHANGED <<lRoot, lCache, lTomb, lPins, cand, completing, ingest,
                       wVars, issued, crashes, jumps>>

\* The serialized export is over EXPORT_BYTES_MAX: the round ends as it binds.
ExportBound(m) ==
    LET c == m.corr  l == round[c].owner
    IN  /\ m.type = "pull" /\ m.cursor = None
        /\ round[c].st = "offered"
        /\ lRoot[l] /\ gate[l] = None /\ completing[l] = None
        /\ lGen' = [lGen EXCEPT ![l] = @ + 1]
        /\ cand' = [cand EXCEPT ![l] = 0]
        /\ round' = Closed(c)
        /\ Deliver(m, {[type |-> "refused", corr |-> c]})
        /\ UNCHANGED <<lRoot, lCache, lTomb, lPins, gate, completing, fwd, ingest,
                       wVars, issued, crashes, jumps>>

\* A later pull is served from the cursor last sent; frame sizes are left open.
ServeFrame(m) ==
    LET c == m.corr  r == round[m.corr]  total == Len(round[m.corr].items)
    IN  /\ m.type = "pull" /\ m.cursor # None
        /\ r.st = "bound" /\ m.cursor = r.sent
        /\ \E to \in r.sent..total :
              /\ to = r.sent => total = r.sent
              /\ round' = [round EXCEPT ![c].sent = to]
              /\ Deliver(m, {[type |-> "frame", corr |-> c, cursor |-> r.sent, to |-> to,
                              items |-> SubSeq(r.items, r.sent + 1, to), more |-> to < total,
                              man |-> IF to < total THEN <<>> ELSE r.items]})
        /\ UNCHANGED <<lRoot, lCache, lTomb, lPins, lGen, gate, cand, completing, fwd, ingest,
                       wVars, issued, crashes, jumps>>

-----------------------------------------------------------------------------
(***************************************************************************)
(* The winner: pull, admit, ingest, ack.                                   *)
(***************************************************************************)
Pull(c, cursor) == [type |-> "pull", corr |-> c, cursor |-> cursor, epoch |-> wEpoch]
Ack(c, disp, man) == [type |-> "ack", corr |-> c, disp |-> disp, epoch |-> wEpoch, man |-> man]

OnOffer(m) ==
    /\ m.type = "offer"
    /\ IF ~wRoot THEN pull' = pull /\ Deliver(m, {Ack(m.corr, "not-root", <<>>)})
       ELSE IF pull[m.corr].st \in {"pulling", "acked"} THEN pull' = pull /\ Deliver(m, {})
       ELSE /\ pull' = [pull EXCEPT ![m.corr] = [NoPull EXCEPT !.st = "pulling", !.loser = m.from]]
            /\ Deliver(m, {Pull(m.corr, None)})
    /\ UNCHANGED <<lVars, wRoot, wEpoch, wCache, wTomb, wPins, busy, issued, crashes, jumps>>

\* Deleting a record from openPulls; an ingestion under way keeps the object.
Dropped(c) == [pull EXCEPT ![c].st = "dropped"]

\* Admission against the cache bounds is left open.
OnHeader(m) ==
    /\ m.type = "header"
    /\ pull[m.corr].st = "pulling"
    /\ \/ /\ wPins' = wPins \cup wCache
          /\ pull' = [pull EXCEPT ![m.corr].cursor = 0]
          /\ Deliver(m, {Pull(m.corr, 0)})
       \/ /\ pull' = Dropped(m.corr) /\ wPins' = wPins
          /\ Deliver(m, {Ack(m.corr, "refused-capacity", <<>>)})
    /\ UNCHANGED <<lVars, wRoot, wEpoch, wCache, wTomb, busy, issued, crashes, jumps>>

OnRefused(m) ==
    /\ m.type = "refused"
    /\ pull[m.corr].st = "pulling"
    /\ pull' = Dropped(m.corr)
    /\ Deliver(m, {})
    /\ UNCHANGED <<lVars, wRoot, wEpoch, wCache, wTomb, wPins, busy, issued, crashes, jumps>>

\* The synchronous head of _mergeIngestFrame: pin the ids, extend the manifest.
FrameBegin(m) ==
    /\ m.type = "frame"
    /\ pull[m.corr].st = "pulling" /\ pull[m.corr].cursor = m.cursor
    /\ wPins' = wPins \cup {it.id : it \in Range(m.items)}
    /\ pull' = [pull EXCEPT ![m.corr].man = @ \o m.items]
    /\ busy' = busy \cup {[frame |-> m, n |-> dups]}
    /\ Deliver(m, {})
    /\ UNCHANGED <<lVars, wRoot, wEpoch, wCache, wTomb, issued, crashes, jumps>>

Retains(man, cache, tomb) == Bodies(man) \subseteq cache \cup tomb /\ Dels(man) \subseteq tomb

\* After the awaits: deletions, then bodies (a tombstoned body stays out), then
\* the next pull or the terminal ack, on the record captured before the awaits.
FrameEnd(b) ==
    LET m == b.frame  c == m.corr  p == pull[m.corr]
        tomb  == wTomb \cup Dels(m.items)
        cache == (wCache \cup Bodies(m.items)) \ tomb
        \* counts and hash: the manifest gathered is the one the last frame names
        full  == Retains(p.man, cache, tomb) /\ p.man = m.man
        ack   == IF full THEN "full" ELSE "short"
    IN  /\ b \in busy
        /\ busy' = busy \ {b}
        /\ wTomb' = tomb /\ wCache' = cache
        /\ IF m.more
           THEN /\ pull' = [pull EXCEPT ![c].cursor = m.to]
                /\ Sent(IF p.st \in {"pulling", "acked"} THEN {Pull(c, m.to)} ELSE {})
           ELSE /\ pull' = [pull EXCEPT ![c].st = IF @ = "pulling" THEN "acked" ELSE @,
                                        ![c].age = 0, ![c].full = full, ![c].cursor = m.to]
                /\ Sent({Ack(c, ack, p.man)})
        /\ UNCHANGED <<lVars, wRoot, wEpoch, wPins, issued, crashes, jumps>>

\* _mergeCompleteOnSub: the SUB's merge block matches the acked record.
\* _mergeReleasePins clears the role's whole pin set.
OnSub(m) ==
    /\ m.type = "sub"
    /\ wRoot /\ pull[m.corr].st = "acked" /\ pull[m.corr].full /\ m.epoch = wEpoch
    /\ wPins' = {}
    /\ pull' = Dropped(m.corr)
    /\ Deliver(m, {[type |-> "closed", corr |-> m.corr, epoch |-> wEpoch]})
    /\ UNCHANGED <<lVars, wRoot, wEpoch, wCache, wTomb, busy, issued, crashes, jumps>>

-----------------------------------------------------------------------------
(***************************************************************************)
(* The loser again: aborts, the ack, step 5, the close.                    *)
(***************************************************************************)
\* Mutants: the abort forgets the gate; the abort forgets the candidate.
AbortKeepsGate(l) ==
    /\ round' = Closed(gate[l])
    /\ gate' = gate
    /\ cand' = [cand EXCEPT ![l] = 0]

AbortKeepsCandidate(l) ==
    /\ round' = Closed(gate[l])
    /\ gate' = [gate EXCEPT ![l] = None]
    /\ cand' = cand

\* _mergeAbort of the gated round of l, and of the candidate.
Abort(l) ==
    /\ round' = Closed(gate[l])
    /\ gate' = [gate EXCEPT ![l] = None]
    /\ cand' = [cand EXCEPT ![l] = 0]

Refusal == {"refused-capacity", "not-root"}

\* _onReplayAck, a refusal: bound by corr alone; only some clear the candidate.
OnRefusal(m) ==
    LET c == m.corr  l == round[m.corr].owner
    IN  /\ m.type = "ack" /\ m.disp \in Refusal
        /\ c \in OpenRounds(l)
        /\ round' = Closed(c)
        /\ gate' = [gate EXCEPT ![l] = IF @ = c THEN None ELSE @]
        /\ cand' = [cand EXCEPT ![l] = IF m.disp = "not-root" \/ Cutover THEN 0 ELSE @]
        /\ Deliver(m, {})
        /\ UNCHANGED <<lRoot, lCache, lTomb, lPins, lGen, completing, fwd, ingest,
                       wVars, issued, crashes, jumps>>

SixFields(m) == round[m.corr].st = "bound" /\ m.epoch = round[m.corr].epoch
LeaseOk(c)   == round[c].age <= Lease
FullAck(m)   == m.disp = "full" /\ m.man = round[m.corr].items

\* Mutant: the loser does not pin its export.
PinnedNothing(l, c) == lPins

Pinned(l, c) == [lPins EXCEPT ![l] = @ \cup Bodies(round[c].items) \cup Dels(round[c].items)]

\* ack-expired, ack-short; or flip-refused, when the role stepped down meanwhile.
OnBadAck(m) ==
    LET c == m.corr  l == round[m.corr].owner
    IN  /\ m.type = "ack" /\ m.disp \in {"full", "short"}
        /\ SixFields(m) /\ gate[l] # None
        /\ \/ (~LeaseOk(c) \/ ~FullAck(m)) /\ lPins' = lPins
           \/ LeaseOk(c) /\ FullAck(m) /\ ~lRoot[l] /\ lPins' = Pinned(l, c)
        /\ Abort(l)
        /\ Deliver(m, {})
        /\ UNCHANGED <<lRoot, lCache, lTomb, lGen, completing, fwd, ingest,
                       wVars, issued, crashes, jumps>>

MergeSub(c) == [type |-> "sub", corr |-> c, epoch |-> round[c].epoch]

\* _mergeStep5: pin the export, demote with the release token, start completing.
Step5(m) ==
    LET c == m.corr  l == round[m.corr].owner
    IN  /\ m.type = "ack"
        /\ SixFields(m) /\ LeaseOk(c) /\ FullAck(m)
        /\ lRoot[l]
        /\ lPins' = Pinned(l, c)
        /\ lRoot' = [lRoot EXCEPT ![l] = FALSE]
        /\ gate' = [gate EXCEPT ![l] = IF @ = c THEN None ELSE @]
        /\ round' = [round EXCEPT ![c].st = "completed"]
        /\ completing' = [completing EXCEPT ![l] = c]
        /\ Deliver(m, {MergeSub(c)})
        /\ UNCHANGED <<lCache, lTomb, lGen, cand, fwd, ingest, wVars, issued, crashes, jumps>>

\* Every SUB a completing role emits carries the merge block.
Renew(l) ==
    /\ completing[l] # None
    /\ MergeSub(completing[l]) \notin net
    /\ Sent({MergeSub(completing[l])})
    /\ UNCHANGED <<lVars, wVars, issued, crashes, jumps>>

OnClosed(m) ==
    LET c == m.corr  l == round[m.corr].owner
    IN  /\ m.type = "closed"
        /\ l # None /\ completing[l] = c /\ m.epoch = round[c].epoch
        /\ completing' = [completing EXCEPT ![l] = None]
        /\ lPins' = [lPins EXCEPT ![l] = {}]
        /\ round' = Closed(c)
        /\ Deliver(m, {})
        /\ UNCHANGED <<lRoot, lCache, lTomb, lGen, gate, cand, fwd, ingest, wVars, issued, crashes, jumps>>

-----------------------------------------------------------------------------
(***************************************************************************)
(* Writes.                                                                 *)
(***************************************************************************)
\* _onPub / _onKill at a loser: captured before the first await, or, gated,
\* forwarded to the winner by name.
Admit(l, w) ==
    /\ lRoot[l] /\ w \notin issued
    /\ w.op = "kill" => [op |-> "pub", id |-> w.id] \in issued
    /\ issued' = issued \cup {w}
    /\ IF gate[l] = None
       THEN /\ ingest' = [ingest EXCEPT ![l] = @ \cup {[w |-> w, gen |-> lGen[l]]}]
            /\ Sent({}) /\ fwd' = fwd
       ELSE /\ Sent({[type |-> "write", w |-> w]})
            /\ fwd' = [fwd EXCEPT ![l] = TRUE] /\ ingest' = ingest
    /\ UNCHANGED <<lRoot, lCache, lTomb, lPins, lGen, gate, cand, completing, round, wVars, crashes, jumps>>

\* Mutant: a write admitted before the cut commits after it.
CutHoldsAlways(l, gen) == TRUE

CutHolds(l, gen) == gate[l] = None /\ lGen[l] = gen

\* _ingestPublish / _applyKill after the awaits: commit if the cut still holds,
\* else _cutDisposition: to the winner under a gate, upstream after a step-down,
\* else undeliverable (the publisher's own retry has it).
Commit(l, i) ==
    /\ i \in ingest[l]
    /\ ingest' = [ingest EXCEPT ![l] = @ \ {i}]
    /\ IF CutHolds(l, i.gen)
       THEN /\ IF i.w.op = "kill"
               THEN /\ lTomb' = [lTomb EXCEPT ![l] = @ \cup {i.w.id}]
                    /\ lCache' = [lCache EXCEPT ![l] = @ \ {i.w.id}]
               ELSE /\ lCache' = [lCache EXCEPT ![l] = @ \cup ({i.w.id} \ lTomb[l])]
                    /\ lTomb' = lTomb
            /\ Sent({}) /\ fwd' = fwd
       ELSE /\ Sent(IF gate[l] # None \/ ~lRoot[l] THEN {[type |-> "write", w |-> i.w]} ELSE {})
            /\ fwd' = [fwd EXCEPT ![l] = @ \/ gate[l] # None]
            /\ UNCHANGED <<lCache, lTomb>>
    /\ UNCHANGED <<lRoot, lPins, lGen, gate, cand, completing, round, wVars, issued, crashes, jumps>>

\* Mutant: a forwarded publish is stored without asking the tombstones.
OnWriteUnchecked(m) ==
    /\ m.type = "write" /\ wRoot
    /\ IF m.w.op = "kill"
       THEN wTomb' = wTomb \cup {m.w.id} /\ wCache' = wCache \ {m.w.id}
       ELSE wCache' = wCache \cup {m.w.id} /\ wTomb' = wTomb
    /\ Deliver(m, {})
    /\ UNCHANGED <<lVars, wRoot, wEpoch, wPins, pull, busy, issued, crashes, jumps>>

OnWrite(m) ==
    /\ m.type = "write" /\ wRoot
    /\ IF m.w.op = "kill"
       THEN wTomb' = wTomb \cup {m.w.id} /\ wCache' = wCache \ {m.w.id}
       ELSE wCache' = wCache \cup ({m.w.id} \ wTomb) /\ wTomb' = wTomb
    /\ Deliver(m, {})
    /\ UNCHANGED <<lVars, wRoot, wEpoch, wPins, pull, busy, issued, crashes, jumps>>

\* A forwarded write failed, or W stayed silent, or acked under another epoch:
\* the round is aborted; a re-minted W is offered to again at once.
ForwardAbort(l) ==
    /\ gate[l] # None /\ fwd[l]
    /\ fwd' = [fwd EXCEPT ![l] = FALSE]
    /\ \/ Abort(l) /\ Sent({})
       \/ /\ wRoot /\ wEpoch # round[gate[l]].epoch
          /\ gate' = [gate EXCEPT ![l] = None]
          /\ cand' = [cand EXCEPT ![l] = wEpoch]
          /\ \E c \in Corr :
                /\ round[c].st = "none"
                /\ round' = [Closed(gate[l]) EXCEPT ![c] =
                               [NoRound EXCEPT !.st = "offered", !.owner = l, !.epoch = wEpoch, !.reached = TRUE]]
                /\ Sent({[type |-> "offer", corr |-> c, from |-> l]})
    /\ UNCHANGED <<lRoot, lCache, lTomb, lPins, lGen, completing, ingest, wVars, issued, crashes, jumps>>

-----------------------------------------------------------------------------
(***************************************************************************)
(* Time: the sweeps, TTL expiry of unpinned bodies, crashes.               *)
(***************************************************************************)
\* Mutant: the sweep passes over a round that has served a frame.
GateTimeoutUnserved(l) ==
    /\ gate[l] # None /\ round[gate[l]].age >= Lease /\ round[gate[l]].sent = 0
    /\ Abort(l)
    /\ UNCHANGED <<lRoot, lCache, lTomb, lPins, lGen, completing, fwd, ingest, wVars, net, issued, dups, crashes, jumps>>

GateTimeout(l) ==
    /\ gate[l] # None /\ round[gate[l]].age >= Lease
    /\ Abort(l)
    /\ UNCHANGED <<lRoot, lCache, lTomb, lPins, lGen, completing, fwd, ingest, wVars, net, issued, dups, crashes, jumps>>

\* An offer unanswered: dropped and retried, or (not cutover, and reached) the
\* legacy fallback, a demotion that transfers nothing.
OfferTimeout(c) ==
    LET l == round[c].owner
        fallback == ~Cutover /\ round[c].reached /\ lRoot[l] /\ gate[l] = None
        clears   == Cutover \/ (~round[c].reached /\ gate[l] = None)
    IN  /\ round[c].st = "offered"
        /\ round' = Closed(c)
        /\ lRoot' = [lRoot EXCEPT ![l] = @ /\ ~fallback]
        /\ cand' = [cand EXCEPT ![l] = IF clears THEN 0 ELSE @]
        /\ UNCHANGED <<lCache, lTomb, lPins, lGen, gate, completing, fwd, ingest, wVars, net, issued, dups, crashes, jumps>>

\* Mutant: only acked records are swept.
PullTimeoutAcked(c) ==
    /\ pull[c].st = "acked" /\ pull[c].age >= Retain
    /\ wPins' = {}
    /\ pull' = Dropped(c)
    /\ UNCHANGED <<lVars, wRoot, wEpoch, wCache, wTomb, busy, net, issued, dups, crashes, jumps>>

PullTimeout(c) ==
    /\ \/ pull[c].st = "pulling" /\ pull[c].age >= Lease
       \/ pull[c].st = "acked"   /\ pull[c].age >= Retain
    /\ wPins' = {}
    /\ pull' = Dropped(c)
    /\ UNCHANGED <<lVars, wRoot, wEpoch, wCache, wTomb, busy, net, issued, dups, crashes, jumps>>

Older(n) == IF n < Retain THEN n + 1 ELSE n

Tick ==
    /\ round' = [c \in Corr |-> [round[c] EXCEPT !.age = IF round[c].st = "bound" THEN Older(@) ELSE @]]
    /\ pull'  = [c \in Corr |-> [pull[c]  EXCEPT !.age = IF pull[c].st \in {"pulling", "acked"} THEN Older(@) ELSE @]]
    /\ round' # round \/ pull' # pull
    /\ UNCHANGED <<lRoot, lCache, lTomb, lPins, lGen, gate, cand, completing, fwd, ingest,
                   wRoot, wEpoch, wCache, wTomb, wPins, busy, net, issued, dups, crashes, jumps>>

\* W's wall clock, which times its retention, runs ahead of L's monotonic one.
Jump ==
    /\ jumps < MaxJump
    /\ jumps' = jumps + 1
    /\ pull' = [c \in Corr |-> [pull[c] EXCEPT !.age = IF pull[c].st \in {"pulling", "acked"} THEN Older(@) ELSE @]]
    /\ pull' # pull
    /\ UNCHANGED <<lVars, wRoot, wEpoch, wCache, wTomb, wPins, busy, net, issued, dups, crashes>>

ExpireAtLoser(l, x) ==
    /\ x \in lCache[l] \ lPins[l]
    /\ lCache' = [lCache EXCEPT ![l] = @ \ {x}]
    /\ UNCHANGED <<lRoot, lTomb, lPins, lGen, gate, cand, completing, fwd, ingest, round,
                   wVars, net, issued, dups, crashes, jumps>>

\* Mutant: expiry does not ask for the pins.
ExpireAtWinnerPinned(x) ==
    /\ x \in wCache
    /\ wCache' = wCache \ {x}
    /\ UNCHANGED <<lVars, wRoot, wEpoch, wTomb, wPins, pull, busy, net, issued, dups, crashes, jumps>>

ExpireAtWinner(x) ==
    /\ x \in wCache \ wPins
    /\ wCache' = wCache \ {x}
    /\ UNCHANGED <<lVars, wRoot, wEpoch, wTomb, wPins, pull, busy, net, issued, dups, crashes, jumps>>

Crash ==
    /\ crashes < MaxCrash /\ wRoot
    /\ crashes' = crashes + 1
    /\ wRoot' = FALSE /\ wEpoch' = wEpoch
    /\ wCache' = {} /\ wTomb' = {} /\ wPins' = {} /\ busy' = {}
    /\ pull' = [c \in Corr |-> NoPull]
    /\ UNCHANGED <<lVars, net, issued, dups, jumps>>

\* W forms the root again, over the epoch the network knows.
Reform ==
    /\ ~wRoot
    /\ wRoot' = TRUE /\ wEpoch' = wEpoch + 1
    /\ UNCHANGED <<lVars, wCache, wTomb, wPins, pull, busy, net, issued, dups, crashes, jumps>>

-----------------------------------------------------------------------------
Receive ==
    \E m \in net :
        \/ BindRound(m) \/ ExportBound(m) \/ ServeFrame(m)
        \/ OnOffer(m) \/ OnHeader(m) \/ OnRefused(m) \/ FrameBegin(m) \/ OnSub(m)
        \/ OnRefusal(m) \/ OnBadAck(m) \/ Step5(m) \/ OnClosed(m) \/ OnWrite(m)

Sweep ==
    \/ \E l \in Loser : GateTimeout(l)
    \/ \E c \in Corr : OfferTimeout(c) \/ PullTimeout(c)

Next ==
    \/ Receive
    \/ \E b \in busy : FrameEnd(b)
    \/ \E l \in Loser : Candidate(l) \/ Renew(l) \/ ForwardAbort(l)
    \/ \E l \in Loser, w \in Write : Admit(l, w)
    \/ \E l \in Loser : \E i \in ingest[l] : Commit(l, i)
    \/ Sweep
    \/ Tick
    \/ Jump
    \/ \E l \in Loser, x \in Msg : ExpireAtLoser(l, x)
    \/ \E x \in Msg : ExpireAtWinner(x)
    \/ Crash
    \/ Reform

Spec == Init /\ [][Next]_vars

\* The refresh tick runs the sweeps, time passes, an ingestion under way ends.
Fairness ==
    /\ WF_vars(Tick)
    /\ \A l \in Loser : WF_vars(GateTimeout(l))
    /\ \A c \in Corr : WF_vars(PullTimeout(c)) /\ WF_vars(OfferTimeout(c))
    /\ WF_vars(\E b \in busy : FrameEnd(b))

FairSpec == Spec /\ Fairness

-----------------------------------------------------------------------------
RoundType == [st : {"none", "offered", "bound", "completed", "closed"}, owner : Loser \cup {None},
              epoch : Nat, items : Seq(Item), sent : Nat, age : 0..Retain, reached : BOOLEAN]
PullType  == [st : {"none", "pulling", "acked", "dropped"}, loser : Loser \cup {None},
              cursor : Nat \cup {None}, man : Seq(Item), age : 0..Retain, full : BOOLEAN]

TypeOK ==
    /\ lRoot \in [Loser -> BOOLEAN] /\ lGen \in [Loser -> Nat] /\ fwd \in [Loser -> BOOLEAN]
    /\ lCache \in [Loser -> SUBSET Msg] /\ lTomb \in [Loser -> SUBSET Msg] /\ lPins \in [Loser -> SUBSET Msg]
    /\ gate \in [Loser -> Corr \cup {None}] /\ completing \in [Loser -> Corr \cup {None}]
    /\ cand \in [Loser -> Nat]
    /\ ingest \in [Loser -> SUBSET [w : Write, gen : Nat]]
    /\ round \in [Corr -> RoundType] /\ pull \in [Corr -> PullType]
    /\ wRoot \in BOOLEAN /\ wEpoch \in Nat
    /\ wCache \subseteq Msg /\ wTomb \subseteq Msg /\ wPins \subseteq Msg
    /\ issued \subseteq Write

\* The cut is complete: when a loser steps down (step 5), everything it holds is
\* in the export it bound, however writes raced the cut, the gate and an abort.
CutComplete ==
    [][\A l \in Loser : lRoot[l] /\ completing'[l] # None =>
          /\ lCache[l] \subseteq Bodies(round[completing'[l]].items)
          /\ lTomb[l] \subseteq Dels(round[completing'[l]].items)]_vars

\* Until MERGE_CLOSED the loser keeps every exported entry it still holds: no
\* expiry takes one away while the completion is outstanding (custodian rule).
CompletingKeepsExport ==
    [][\A l \in Loser : completing[l] # None /\ completing'[l] = completing[l] =>
          lCache[l] \cap Bodies(round[completing[l]].items) \subseteq lCache'[l]]_vars

\* What a loser exports is all it holds, and it keeps it until the round is closed
\* (_mergeAnswerPull, _mergeStep5, _onMergeClosed).
ExportKept == CutComplete /\ CompletingKeepsExport

\* "Pins held" (step 4): as long as W's record of a fully acked round stands, W
\* retains every exported body or its tombstone and every exported tombstone,
\* so the completion never closes a round whose export W has let go.
AckedRetained ==
    \A c \in Corr : pull[c].st = "acked" /\ pull[c].full => Retains(pull[c].man, wCache, wTomb)

\* The retention check of step 5: when a loser steps down on the full ack of a
\* W that has not crashed since, W holds everything the loser holds.
FlipHandsOver ==
    [][\A l \in Loser : lRoot[l] /\ completing'[l] # None /\ wRoot
                          /\ wEpoch = round[completing'[l]].epoch
          => Retains(round[completing'[l]].items, wCache, wTomb)]_vars

\* A kill is never undone by a merge: no root serves a body it holds a
\* tombstone for, and a fully acked export's deletions are gone from W's cache
\* although its bodies may have come in an earlier frame.
NoResurrection ==
    /\ wCache \cap wTomb = {}
    /\ \A l \in Loser : lCache[l] \cap lTomb[l] = {}
    /\ \A c \in Corr : pull[c].st = "acked" /\ pull[c].full => Dels(pull[c].man) \cap wCache = {}

\* A gate stands for exactly one bound round of its own loser, and a bound
\* round has its gate: no abort, refusal or late frame leaves a root refusing
\* writes for a round that is over, nor exporting without refusing them.
GateIffBound ==
    /\ \A l \in Loser : gate[l] # None => round[gate[l]].st = "bound" /\ round[gate[l]].owner = l
    /\ \A c \in Corr : round[c].st = "bound" => gate[round[c].owner] = c

\* "An aborted round is RETRIED": a root's standing candidate always has a round
\* open or is cleared, since the same winner is never nominated over itself.
CandidateHasRound ==
    \A l \in Loser : lRoot[l] /\ cand[l] # 0 => OpenRounds(l) # {}

\* Gates and candidates never outlive their rounds (_mergeAbort, _mergeSweep).
RoundsAgree == GateIffBound /\ CandidateHasRound

\* MERGE_TIMEOUT_MS bounds one gate interval: a gated root serves again.
GateReleased == \A l \in Loser : gate[l] # None ~> gate[l] = None

\* W's side of every round ends, by completion, refusal, timeout or retention.
PullSettles == \A c \in Corr : pull[c].st = "pulling" ~> pull[c].st # "pulling"

=============================================================================
