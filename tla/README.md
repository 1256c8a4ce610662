# Axona kernel: TLA+ models, checks and proofs

This directory specifies the parts of the Axona kernel (`src/src/`, JavaScript)
whose correctness depends on the order of events: handlers that await in the
middle, frames that are lost or late, timers that race answers, tables at their
limit. The modules are checked with TLC on small instances, and the results that
do not depend on an instance are proved with TLAPS. `PROJECT.json` maps each
definition to the lines it models; source paths below are relative to `src/src/`.

## 1. The system

An Axona node is one JavaScript process (a browser tab, or Node). It keeps a
table of authenticated neighbours, routes frames greedily by XOR distance, and
runs publish/subscribe on top: the node closest to a topic id is the topic's
*root*; it stamps, caches and replicates messages and serves a delivery tree.
There is one thread; concurrency comes from `await`, timers, and the network.

| Part | State | Why it is hard | What makes it right | Module |
|---|---|---|---|---|
| channel ledger `transport/web/channel_ledger.js` | record per PeerConnection and per identity, handle index, reservations, deferred promotions | bounds are checked at reservation and used later; closes come late or unprompted | bounds never exceeded; indexes name live channels; deferred promotions can settle | ChannelLedger |
| mesh signalling `transport/web/mesh.js`, `mesh-auth.js` | slot per key, retry timers, deadlines | glare, retries as new incarnations, hello before or after open | no key is held without a timer or a bound channel | MeshPair, Heartbeat |
| identity binding `transport/web/webrtc.js` | identity <-> channel maps, pending requests | two channels prove one identity; the loser's death comes after | one bound channel per identity | PeerDial, MeshPair, Requests |
| composite transport `transport/web/composite.js` | admitted route, superseded routes, `seen` | events of a replaced route | kernel, composite and sub-transports agree | Requests, PeerDial |
| bridge session, socket server `transport/web/index.js`, `bridge.js`, `transport/node/wstransport.js` | socket, timers, hello, bindings | sockets replaced while a hello or a signature awaits | a node that needs the bridge dials it; a binding names an open socket | BridgeSession, SocketServer |
| loss marks, attempt guard `dht/DeadPeers.js`, `attemptGuard.js` | mark per identity, attempt in flight, backoffs | a bounded table; events of an older channel | bounded, paced, only an attempt's own channel fails it | DeadPeers, AttemptGuard |
| admission, dialing, fill `dht/AxonaPeer.js` | synaptome, grace map, pending dials, candidate cache | eligibility read before an await and used after it | neighbours are bound; swaps cease; the table fills | PeerDial, Admission, Fill |
| routing `dht/AxonaPeer.js` | walk, relay chain, deadlines | late acknowledgements fork a walk | nothing visited twice, nothing claimed that did not happen | Lookup, SignalRelay |
| root claim, election `pubsub/rootClaim.js`, `rootElection.js` | claim, epoch, hold, beacons | several claims at once; stale beacons | one root in the end; custody is never stranded | RootElection |
| dual-root merge `pubsub/mergeMachine.js` | candidate, gate, openMerges, openPulls, pins, completing | lossy frames, writes racing the cut, crash of the winner | nothing lost or resurrected; the gate falls | MergeMachine |
| write recovery flight `pubsub/writeFlight.js` | flights by (topic, root, epoch), chain ledger | verification awaits; promotion to oneself | acks prove ingestion; promotions end | WriteFlight |
| store and kill `pubsub/topicStore.js`, `kill.js`, `wireHandlers.js` | cache, tombstones | kill before body, replay after kill | no resurrection; every copy goes | Kills |
| delivery tree `pubsub/wireHandlers.js` | seats, pending delegations, parents | acks overtaken by leaves; lost ADOPT | every reader seated and fed | DeliveryTree |
| repair plane, sync engine, durability `repairPlane.js`, `syncEngine.js`, `durability.js` | rounds under way, obligations, heirs | one step of several fails; verdicts across awaits | obligations kept and ended; a departure keeps the body | Durability, Obligation, Handoff |
| client `pubsub/AxonaManager.js` | pending publishes and kills, handles | retries race kills and echoes | a retraction outlives its publish | Client |
| topic lifetime `pubsub/topicLifetime.js` | generation epoch, left record, notices | a late notice meets a new generation | generations are told apart | Lifetime |

Interactions: AxonaPeer drives the composite transport; the composite drives
webrtc (channels between peers) and the bridge socket; webrtc drives mesh, and
both report to the ledger. AxonaManager (the object onto which the pub/sub files
are mixed in) sends through AxonaPeer's routing and is driven by wire handlers
and by one timer, `refreshTick`. Merge and flight read root claims and beacons;
the wire handlers ask the merge gate before they admit a write.

Not modelled: tombstone authority, envelopes and signatures, identity (pure
decisions and cryptography, whose verdicts the models take as given), frame
registries and pool arithmetic (tables), persistence (one caller, atomic
replacement), utilities, and the simulated network of the test suite.

## 2. Modules

Every module is a specification of its own, with one action per handler or per
segment of a handler between two awaits. Calls that run synchronously through
several files (webrtc -> composite -> kernel) are one action. Variables carry
the source's names where there is one; the comment at each VARIABLES says which
field it is. The header of each module says what it leaves out.

Channels and transports
- **ChannelLedger**: a token is both a reservation and the channel that consumes
  it. `Reserve` includes the sweep of overdue reservations, `Gone` and `Closing`
  the re-pointing of the peer record and the settling of deferred promotions.
- **MeshPair**: two ends under one key each; offers, answers, candidates' outcome,
  glare, rejects, retries, deadlines, then the hello, the signatures and the bind.
  Every offer carries the attempt that made it.
- **Heartbeat**: one open channel; pinger election by announcement, takeover,
  tiebreak and reaping, with an end that may sleep while frames queue.
- **Requests** and **SocketServer**, composed by **Carriers**: routes of one
  identity over the socket and a mesh channel, with the requests pending on each;
  and the server's side of a client's successive sockets, with signing and
  verifying as awaits.
- **BridgeSession**: socket, reconnect, graduation and credential timers, the
  authenticated hello, `connect()` and `disconnect()`.

Peers
- **DeadPeers**, **AttemptGuard**: the two tables as values, one operator per
  method. **PeerDial** composes them with the kernel's handlers, the duplicate
  rule of `bindPeer` and the composite's route record. `_considerCandidate` is two
  actions, around its awaited open.
- **Admission**: hold-or-improve gate, join lane, retention, grace closes,
  promotion with the ledger's capacity transfer, insert by vitality.
- **Fill**: the tick of `_maintainSynaptome` with its awaits, the candidate cache,
  the dials and what becomes of them. It is a module apart from Admission because
  the tick's awaits multiply every state of the gate; the gate is one rule in it.
  **Seating** joins the two for their common property.
- **Lookup**, **SignalRelay**: the acked walk with re-selection and return path;
  the chain of `route_msg` requests, each waiting for the next hop's answer.
  **Walks** joins the two for their common property.

Topics
- **RootElection**: every transition of the claim (`_set`), holds, beacons,
  self-verification, step-down; the merge is one step here.
- **MergeMachine**: one winner, any number of losers. `round` is a loser's
  `openMerges`/`closedCorrs`, `pull` the winner's `openPulls`, `busy` the frames in
  the awaits of `_mergeIngestFrame`, `ingest` the writes between `_cutCapture` and
  their commit. `net` is a set of frames: any may stay for ever, any order is
  possible, `MaxDup` deliveries leave their frame behind. The winner may crash and
  return under a higher epoch; its wall clock may jump by `MaxJump`. The manifest
  hash is the sequence it hashes.
- **WriteFlight**: flight objects are numbered and `index` maps (root, epoch) to
  one, so that a continuation can hold an object the map no longer names. The order of
  the chain ledger is the age of its records (`age`): what matters of it is which of them
  a full ledger drops.
- **Kills** and **Client**, composed by **Retractions**: one message and its kill at
  a root, its relays and its cohort; and the retries of the peer that publishes it.
- **DeliveryTree**: who seats whom, delegation with ADOPT and ADOPTACK, attachment,
  thin branches, renewal.
- **Durability**: rounds of replication with two awaits and the ledger they feed.
  **Obligation** is the abstract specification of that ledger, from the description
  in its header: opened once, ended once, dropped only by a leave.
- **Handoff**: `leave()` and the ingest of HANDOFF and REPLICATE at the heirs.
- **Lifetime**: one root and one member through the generations of a topic.

`MC*` modules compose components for TLC. Components that share no state are
combined by a variable `part`: a behaviour moves one of them and leaves the
others in an initial state, so a run explores the sum of the components and not
their product. An operator whose comment begins with "Mutant:" is a deliberately
wrong variant of the definition after it, which shows that a property can fail; no
specification uses one.

## 3. Runs

| Run | Instance | Distinct states | What it shows |
|---|---|---|---|
| `net` | Requests, SocketServer, Lookup, SignalRelay, Admission, Fill, Kills, Client, Lifetime side by side: 2 requests over 4 routes, 2 sockets, walks over 4 nodes with one loss, 4 peers for 3 seats, 3 nodes with one restart, 2 generations | 798 k | routes and bindings agree; walks and relays claim only what happened; the table and the fill stay within their reasons; displacement ceases; retractions hold; a late notice ends no new generation |
| `fill` | 2 known peers, one seat, cache of one, one lost seat; fairness | 50 k | the table fills although cache, pending dials and backoffs are at their limit |
| `live` | one merge round with a clock jump, one channel with a sleep, one bridge session, a root with a child and a replica; fairness | 177 k | rounds end, an open channel has one pinger and a dead one goes, the bridge is dialled again, a kill reaches every copy |
| `roots` | 2 nodes, one mishap, epochs to 4; one topic, 2 messages, one obligation; fairness | 71 k | one root in the end, and custody with a root; obligations end and are kept |
| `group` | 3 channels over 2 handles of one identity in pools of 1 and 2; 3 readers, 2 direct; 3 relays of which 2 leave | 823 k | bounds and indexes hold; readers are served; the message survives |
| `pairs` | 2 rounds of one loser, 1 message, a crash of the winner, cutover on, lease 0; 2 ends, 2 attempts, 3 nonces, one fault | 2.2 M | gates and candidates do not outlive their round; a key is held only with a timer or a bound channel |
| `merge_safety` | 1 loser, 1 round, 2 messages; one duplicated frame, crash or clock jump (`OneFault`) | 1.9 M | exports are complete and kept; nothing acked is let go; nothing killed comes back |
| `merge_flip` (violated) | 1 loser, 1 round, 1 message, one clock jump | - | a pull that times out during its last frame still sends a full ack |
| `flight` | 1 write, 2 roots, one promotion, epochs to 2; fairness | 390 k | completion proves ingestion; promotions are bounded, do not return, and end |
| `flight_drop` (violated) | 2 writes | - | a signed ack verified across an await deletes a newer flight |
| `dial` | 2 identities, 2 channels, 2 dials, one mark slot; fairness | 322 k | one open channel per identity; marks bounded; exhausted identities paced; attempts fail only by their own channel and end; bound peers are admitted |
| `dial_ghost` (violated) | as `dial`, no fairness | - | after glare the survivor's death is swallowed as stale |

The bounds are where the interesting cases first exist. Ledger: the third channel
is the replacement that competes with a duplicate pair, and a pool of one forces a
promotion to be deferred. Merge: two messages give an export of several frames with
a body and a deletion of one id in different frames; two correlation ids are a retry, and a crash of the winner between them makes the first
round's frames stale; with a lease of 0 (`pairs`) a round may time out before its first
answer; `OneFault` lets one thing go wrong at a time, and a frame come twice among two
writes; `Lease + MaxJump < Retain` is the inequality the code's constants satisfy
(`A < A + 2E + P`). Flight: two roots and one promotion make the cap, the
self-promotion and the return to a convicted root reachable. Dial: two channels of
one identity are a glare pair, two identities compete for one mark. Routing: four
nodes in a line have a detour and a dead end. Mesh: with three nonces a channel
binds, is lost at one end, and is negotiated again while a verification of the first is
under way. Tree: three readers with two direct
seats force one delegation. Handoff: three relays allow an heir to leave as well.
Admission: the fourth peer is the one that must displace. The grace map of the
instance is as large as the refusals can fill (`GraceSuffices`, section 5), because
when it overflows `TableBound` need not hold (section 4, *grace overflow*).

`SYMMETRY` is used in `group` only, over interchangeable channels, readers and
relays; its properties are invariants and properties of a state or of a step.
Deadlock is not checked: the bounded models stop when their bounds are used up, and a
quiescent node has nothing to do.

Fairness, where assumed, is that of a timer, of the event loop, or of a frame that
is sent again and again: `refreshTick` (`GateTimeout`, `PullTimeout`, `OfferTimeout`,
`Probe`, `Evict`, `ReplicateTick`, `ReplayTo`), the maintenance timer (`Maintain`,
the fill's tick), the heartbeat and reap intervals, the bridge's timers, time
(`Tick`), the end of an await whose promise settles by a deadline (`FrameEnd`,
`SelfHandle`, `Verdicts`, `VerifyEnd`). Strong fairness stands in four places: a
socket dialled for ever opens in the end, a beacon sent for ever arrives in the
end, a root with custody and a link emits its beacons, and the push of a full round
that is due goes out. No single frame's delivery, opening of a channel or settling
of an open is assumed. Each of these is stated next to the run's specification.

Two assumptions bound the environment. Lifetime takes the network's delay to be
bounded by the span its left records are kept for (`L + S + D`): with slower
frames its properties are not claimed. `ChannelsWatched` asks of the two ends that
both announce in time (`Prompt`, `mesh.js` about 99-105).

## 4. Where the code and its comments disagree

1. `merge_flip`: `mergeMachine.js:819-820` promises that the loser steps down only
   if every manifest body is held or tombstoned at the winner. `_mergeIngestFrame`
   awaits between pinning a frame and acking the round; `_mergeSweep` may end the
   pull and clear the pins meanwhile, and the continuation acks 'full' all the same.
2. `flight_drop`: `_flightCompleteSigned` (`writeFlight.js:199-203`) deletes the key
   of the flight it captured before its await; the key may name a newer flight.
3. `dial_ghost`: a duplicate bind won by the new channel moves the binding without
   an event (`webrtc.js:245-259`), so the composite's admitted token is the
   loser's, and the winner's death is taken for a stale one (`composite.js:375-378`).

Observations made on the way, not kept as runs. Where one limits a property, the
property says so in its own statement or in the instance.

Merge and store
- *Several rounds.* `_mergeReleasePins` (769-774) clears all pins of the role when
  any pull of it ends. `AckedRetained` therefore holds of one round at a time, which
  is what `merge_safety` checks: with two pulls open, the end of one lets go of what
  the other pinned. `AckedRetainedAlways` is proved under the same premise (`OnePull`).
- Pins of a completion that is lost are discharged only by a later round of the
  role (771, 911), and `_expireCache` skips pinned entries (`topicStore.js:104-112`):
  an export may stay past its TTL, where the header (75-77) says "until its own TTL".
- Without cutover, a refusal for capacity leaves a standing candidate (171-179,
  797-803); `RoundsAgree` is checked and proved with cutover on.
- Line 5 of `mergeMachine.js` says the machine is off by default; `constants.js:482`
  has it on.
- Kills: a kill that arrives while the body's first caching awaits is overtaken
  (`wireHandlers.js:1276-1283`); `KilledStaysDead` leaves such a body out. A reader
  without a role gets a body that comes after its kill (`topicStore.js:221-242`).
  The echo of the body clears both pending maps, and with them the retry of its KILL
  (`repairPlane.js:1262-1266`, against 1256-1261).

Roots, repair and lifetime
- *Durable race.* A round's verdict verifies every pending obligation of the topic
  (`repairPlane.js:658`), also that of a message stamped while its pushes were in
  flight, against `durability.js:46-47`.
- Obligations of a demoted root, and of expired bodies with an empty cache, stay
  pending; a saturated node budget opens none, silently; the per-role cap does not
  bound a ledger whose obligations are all pending.
- The legacy fallback of a merge whose offer is lost hands custody over without an
  answer; `BodyKept` leaves it out. R4 may be bypassed through the claim path
  (`rootClaim.js:611-628` against `AxonaManager.js:1173-1178`).
- Two leaves at once may pass the only copy between two departing nodes
  (`wireHandlers.js:1056-1058`): `Handoff` lets one leave at a time. A root with only
  tombstones is not handed off; the REPLICATE of a non-root is exempt.
- After TOPIC_TERMINATED the application may subscribe again; the next repeat of the
  notice ends the new subscription and, as its key is already delivered, tells
  nobody (`topicLifetime.js:312, 383-384`, against 378-381).
- *Late UNSUB.* A child that steps down unsubscribes at its parent
  (`topicLifetime.js:436`). If the parent is a child itself and the UNSUB
  is delayed past the timeout of its delegation, it may arrive after a later ADOPT
  has seated the node there again and before the ADOPTACK is read: the root then
  gives up a reader that nobody holds, against `_settleDelegation`'s "KEEPS SERVING".
  It takes three delegations; TLC finds it in 29 steps. The reader's next renewal repairs it.
- A ring of two detached members feeds itself when a branch may be thin without
  stepping down (`MinReaders` 1), against `AxonaManager.js:27-29`.

Dialing, admission and routing
- *Grace overflow.* When the grace map overflows, the oldest grace close fires early
  and closes a peer that was admitted meanwhile (`AxonaPeer.js:3221-3227`, against
  3168-3171).
- A retry of an offer is a new incarnation, while the guard keeps the one it
  attached; with three channels a live neighbour can be marked.
- `closeConnection` of the composite (606-613) leaves the identity in `seen` and the
  socket bound; the maintenance pass, not the bind event, re-admits it.
- A retired incarnation's retry notifies nobody of the loss (`mesh.js:1975-2011`,
  2037-2042).
- `_addByVitality` checks the cap, awaits and inserts: two inserts may pass one check.
- *Two arrivals.* Of two arrivals of one write each starts a promotion chain, and the
  chain ledger keeps the note made last, which may be the lower of the two
  (`writeFlight.js:387-393`). The write is then evicted more often than twice the cap
  allows and returns to roots that failed it: with three promotions and two arrivals TLC
  finds nine evictions where two chains allow eight. `NeverBack` and `EvictionsBounded` are therefore
  stated of a write that came in once.
- A forked walk's "not found" may arrive before the other copy's "found" and is
  cached. A signal without a path reports otherwise than its comment
  (`AxonaPeer.js:6866`, against 6861-6865); a candidate of peer exchange is requeued
  (2330-2332, against 1980-1982).
- The bridge hello continues after its await on a socket that was replaced; an
  unanswered TURN refresh leaves no timer; the late 'close' of an old socket clears
  the new one.

## 5. Proofs

Eight modules hold the proofs. Each theorem is for every value of the constants
that the named assumptions of its module allow: any network, any number of peers,
channels, writes, messages, losers, rounds, replicas and generations. The theorems
that state a property of a run are marked with it.

| Module | Theorem | Property of a run |
|---|---|---|
| GroupProofs | `TypeCorrect`, `IndexesValid`, `DeferredSettle`, `CapacityNeverExceeded`, `HandoffKeepsBodyAlways`, `HandoffTypesAlways`, `TreeTypesAlways`, `LeafKeptAlways`, `KeepServedAlways`, `GroupTypes` | `IndexesAgree`, `DeferredCanSettle`, `CapacityBounds`, `HandoffKeepsBody`, `GroupTypeOK` |
| NetProofs | `DialsCoveredAlways`, `SeatsBoundedAlways`, `RetractionOutlivesBodyAlways`, `RetractionsHoldAlways`, `RetractionTypes`, `GenerationsDistinctAlways`, `LookupTypesAlways`, `RelayTypesAlways`, `FillTypesAlways`, `AdmissionTypesAlways`, `LifetimeTypesAlways`, `NetTypes` | `SeatsBounded`, `RetractionsHold`, `GenerationsDistinct`, `NetTypeOK` |
| CarriersProofs | `RoutesAgreeAlways`, `BoundIsOpenAlways`, `CarriersAgreeAlways`, `WalkHonestAlways`, `RelayHonestAlways`, `WalksHonestAlways` | `CarriersAgree`, `WalksHonest` |
| KillsProofs | `KilledStaysDeadAlways`, `KillTypesAlways` | a half of `RetractionsHold` |
| PairsProofs | `MergeTypes`, `MergeInvariant`, `RoundsAgreeAlways`, `GatesAgreeAlways`, `ExportKeptAlways`, `NoResurrectionAlways`, `AckedRetainedAlways`, `PairTypesAlways`, `KeysTimedAlways`, `HeartbeatTypesAlways`, `SessionTypesAlways`, `NoDialAfterStopAlways`, `PairsTypes`, `LiveTypes` | `RoundsAgree`, `ExportKept`, `NoResurrection`, `AckedRetained`, `KeysTimed`, `PairsTypeOK`, `LiveTypeOK` |
| RootsProofs | `ElectionTypesAlways`, `BodyKeptAlways`, `DurabilityTypes`, `ObligationsKept`, `RootsTypes` | `BodyKept`, `KeepsObligations` (the refinement of Obligation), `RootsTypeOK` |
| PeerDialProofs | `DialTypes`, `OneChannelAlways`, `MarksBoundedAlways`, `ExhaustedPacedAlways`, `OwnFailureOnlyAlways` | `OneChannel`, `MarksBounded`, `ExhaustedPaced`, `OwnFailureOnly` |
| WriteFlightProofs | `AcksProve`, `FlightTypesAlways`, `FlightBoundedAlways`, `NeverBackAlways` | `AckProves`, `FlightBounded`, `NeverBack` |

With these every invariant and action property of the passing runs is a theorem, under
the assumptions named below, except the second half of `ReadersServed`; the temporal
properties stay with TLC.

Every one of these invariants needs a strengthening:

- **Ledger.** `BoundHasRecord` is preserved by a close because `SettlePeer` re-points
  the record to another pointable channel of the same identity; for that a bound
  channel must have been opened, and its identity be the one its handle proves
  (`BoundIsOpened`). `IndexInv` joins types, `BoundIsOpened` and the index properties.
  The capacity proof is about cardinalities: `RoomForOne` covers reservation and
  reclassification, `NoGrowth` every other action.
- **Seats.** `Booked` counts the dials by kind: those that take a free seat fit, and
  either the surprises alone account for them or those that displace an entry fit too.
  The second part is what the first does not say: a dial that went out to displace may
  find a free seat when it binds. `SeatInv` adds to `TableBound` that a close under way
  is of a channel that is there, and that the identities a handler has still to offer
  are bound and outside the table.
- **Dialing.** `OneChannel` with the types of channels and routes (`LinkType`) is
  inductive: every action starts a free channel, retires an unbound one, closes a
  bound one with its binding, or opens one and lets the duplicate rule decide. The
  marks need more: the order of the table has no repetition and agrees with the
  records, the latch stands from the bound down to the hysteresis (`MarksInv`).
  `WaitInv` adds that an exhausted mark is due no sooner than the window of its last
  failure or dial is over, whatever happened during the awaited open. `GuardInv` types
  the attempts; that every end of an attempt passes `Own` then follows step by step.
- **Flight.** `AckHonest` follows an ack from sender to completion: every ack under
  way, and every one whose signer is being checked, is the word of a root that holds
  the write; what a root holds only grows. `Binds` ties the sender to the root that the
  flight suspects.
- **Promotions.** `ChainInv` says of a write that came in once that it is in one place:
  in one open flight, or at this node's own handler, or done. What is kept of it there (its
  entry, or its record in the chain ledger) covers its evictions: it counts as
  many promotions and names every root (`Covers`). `OpenIs` shows that a flight that is
  opened or joined inherits from the ledger and from what it is given; `OpenCarries`,
  `ClosedIs` and `CompletedIs` say what is in open flights after a flight is opened,
  closed or completed in, for which a key must name a flight of its own root and epoch
  (`Coherent`). Both the bound and the exclusion of the roots that failed follow.
- **Carriers.** `RoutesInv` adds to `RoutesAgree` that only the socket is ever superseded, and
  never while it is admitted, that a socket that carries requests is the admitted route,
  and that a request waits in one place. `ServerInv` says of every signature that is kept
  or being checked that it was read, and that a handshake stands only for an open
  connection, so that a verdict that comes after the close binds nothing.
- **Walks.** A path grows by a node that is not on it (`PathGrows`); the work is in what
  makes that so. `WalkInv` says of a copy of the lookup that it stands at the end of
  its path, that the next hop it has chosen is new, and that the target is on a path only
  as its end; of a result, that its path leads from the source; and while nothing is lost
  (`Unbroken`), that every path back is open and that one copy or one result is
  under way. `RelayInv` says of every call of a chain that its node is not on its
  path and its next hop neither on the path nor the node itself, of an answer "consumed"
  that the signal arrived, and that a chain whose first call has no path is the one the
  dialer waits for: what a failed request leaves behind has a path, so that its
  verdict is nobody's.
- **Retractions.** `KillsInv`: a node knows of a kill by its tombstone and by the key of
  what it told the application, both or neither; and where a tombstone stands beside a
  DELIVER that still awaits, the kill has passed it (`overtaken`). `ClientInv`: the
  entry of a kill is the younger one, tried no more often than its publish.
  `LifetimeInv`: a notice under way is of a generation that the root has on record as
  ended or is ending, and what it holds is younger than the record.
- **Types between API and channels.** The cache of the fill holds a peer once
  (`GoodCache`): each way into it asks first, the requeue of an undelivered dial included; a tick
  awaits one dial at a time and made it within its budget (`TickTyped`). A refused peer
  has one grace timer because a second refusal finds the first (`AdRest`). A call of
  a relay chain waits unless it is the last (`Waits`). An epoch is a
  generation that was formed, and the rounds of notices start anew with each end
  (`LtTyped`). The types of the compositions follow: a step of one is a step of a component
  or of none.
- **Durability.** `DuInv`: an obligation that stands has an attempt left, and no
  message is booked before it is stamped. Under the mapping (the abstract life of a message
  is the state of its ledger entry) each step is an open, an end, a forgetting, a
  departure or a stutter.
- **Merge.** `MergeInv` is the types and, for each loser: a gate names a bound round of
  that loser whose export holds all its custody (`Gated`); a completing loser is
  no root and has its export pinned (`Completes`); with cutover a root's
  candidate has a round (`Nominated`); a write between capture and commit has the generation
  it was captured in, and where a gate stands or a completion is out none has the
  current one (`Generations`), which is why a write that races the cut is either in the export or
  refused; and every bound round is the gate's of its owner (`BoundGated`). `DeadInv`
  adds for the winner that the deletions of a full ack are among its tombstones, and
  that cache and tombstones are disjoint everywhere.
- **Pins.** `AckedRetained` is not inductive: what a full ack names is held by being
  pinned, and pinned only because the frames were. `RetainInv` adds that whatever an open
  pull has taken in is among the pins (`PinsHold`), so that the expiry of the cache, which
  passes over pins, takes nothing of it. The release at a pull's end clears every
  pin of the role; `OnePull` says that no other pull stood on them.
- **Channel pair.** `KeysTimed` is inductive with the types of the two slots and the exact rule
  of the reaper (`Timed`): a free key has nothing, a negotiation has its deadline, an open
  channel has that no more. The types of the proof of identity (`AuthInv`) need the bound
  on nonces.
- **Heartbeat and bridge session.** An end acts on a count before it passes its limit:
  that is what types the ages and failures of `HbTypeOK`. `NoDialAfterStop` follows step
  by step from the types: each of the ways to a dial, through whatever timer or await,
  passes the test of `stopped`.
- **Custody.** `ClaimInv` adds to `BodyKept` and the types that a root has an epoch and
  that nobody is its own merge candidate (`ClaimsApart`): without the second a merge
  could demote the one root that takes the body over. `LeaveInv` says who keeps
  the message while a departure is under way (`Safe`: once the leaver is acked or has
  nothing to hand over, a root other than it), that an honest ack under way comes from
  a root that holds the message (`Acks`), and that a claim is handed over only by a node on
  its way out to another (`Departing`, `Others`). The types of the handoff
  need that a step of a departure is taken within its tries.
- **Tree.** `TreeOver(D)`, for the readers D that were ever to be a child: only
  they serve or are parents, only the root delegates (no child can be full), and every
  message is of one of six forms between them. `Delegated` adds that the number of a delegation
  names its child (`Numbered`); that what an ack names is seated at its sender until
  the reader leaves (`HoldsAcked`); and that an UNSUB under way to a child is of a
  reader that left, or of a child that stepped down (`Late`). `LeafKeptAlways` is the
  first half of `ReadersServed` for any number of delegations, of every reader that
  is not itself a child that steps down; `KeepServedAlways` has no such exception, and a
  premise instead.

Assumptions beyond the ranges of constants: `ScheduleAssumption` and
`WindowAssumption` say of the two backoff schedules that they yield natural numbers.
They follow from the ranges by arithmetic of powers, which the provers do not
have; TLC evaluates both. `RoundsAgreeAlways` assumes `Cutover` (see section 4).
`MergeAssumption` takes the set of messages to be finite, because an export is a
sequence of all of them. `HandoffKeepsBodyAlways` assumes one departure at a time
(`MaxLeaving <= 1`): of two at once neither would be the other's safe heir (section 4).
`AckedRetainedAlways` assumes that the winner has one pull open at a time (`OnePull`, a
premise of the theorem on the behaviour); where two are open it is not true (section 4,
*several rounds*).
`SeatsBoundedAlways`, `AdmissionTypesAlways` and `NetTypes` assume `GraceSuffices`: the
grace map can hold every close that the connections spared for refusals can defer (with 64 pending closes by default, a limit
on connections up to 64 beyond the table's cap without its lane); when it overflows, an
admitted peer can be closed (section 4). The instance of `net` meets it with equality.
`FlightBoundedAlways` and `NeverBackAlways` assume `ChainSuffices`: the chain ledger can
hold a record of every write that is modelled (the code's holds 1024 for ten minutes, so
this is of the writes promoted in that time); when it overflows, a write between
its promotion to this node and the handler's forward may lose its record and
start afresh. `FlightTypesAlways` does not need it.
`KeepServedAlways` assumes at most two delegations, or that no branch counts as thin: of a
third it is not true (section 4, *late UNSUB*).

Left to TLC, and why:
- liveness under fairness (`FillReachesCap`, `RoundsEnd`, `ChannelsWatched`,
  `BridgeDials`, `KillConverges`, `OneRootElected`, `ObligationsEnd`, `FlightsSettle`,
  `AttemptEnds`, `BoundAdmitted`, `SwapsCease`): the prover has no rule for it;
- the first half of `BridgeDials` (`Redials`), of which the second, `NoDialAfterStop`, is proved;
- `RestIsServed`, the second half of `ReadersServed`: `Fed` counts three levels of
  seats, as many as the readers of the instance can make; of any number of readers it
  is reachability, which needs induction.

## 6. What is left

1. The staged winner and the identity-bound handoff of the merge; `_enforceDegree` and
   the provisional cap of mesh; the directory of bridges; touch and the cache's bounds.
