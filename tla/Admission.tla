----------------------------- MODULE Admission -----------------------------
(***************************************************************************)
(* The table of AxonaPeer (the synaptome): the hold-or-improve gate and its  *)
(* join lane, the retention policy, the grace closes of refused peers, the   *)
(* promotion of incoming channels with the ledger's capacity transfer, and   *)
(* the insert by vitality.                                                   *)
(*                                                                           *)
(* A peer is its XOR distance to this node.  Which evictable entry of the    *)
(* densest band has the lowest vitality depends on traffic and is left open. *)
(* A peer binds again only when its last close is confirmed; ChannelLedger    *)
(* has several channels of one peer.                                         *)
(***************************************************************************)
EXTENDS Naturals, Sequences, FiniteSets, SequencesExt

CONSTANTS
    Peers,      \* the number of peers
    Band,       \* groupOf: the distance band of a peer
    Cap,        \* _capM(), and the pool M of an armed transport
    PoolI,      \* the pool I of an armed transport
    KNear, SparseFloor, KJoin,
    Service,    \* the bridge's node
    GraceMax,   \* graceMaxPending; 0 is no grace
    MaxConnections,
    MaxChanges  \* bound: losses, and changes of duties and of silent channels

ASSUME AdmissionAssumption ==
    /\ {Peers, Cap, PoolI, KNear, SparseFloor, KJoin, GraceMax, MaxConnections, MaxChanges} \subseteq Nat
    /\ Band \in [1..Peers -> Nat] /\ Service \subseteq 1..Peers /\ KJoin < Cap

Peer == 1..Peers
Nil == 0

VARIABLES
    gated,      \* admissionGate is given
    armed,      \* the transport has a pool profile
    table,      \* synaptome
    class,      \* the class of a peer's channel: "none" is no channel, "u" is unclassified
    closing,    \* closed by this node, not confirmed
    waitsFor,   \* _pendingReclass: the channel whose close a transfer waits for
    grace,      \* _gracePending, in the order of its timers
    stale,      \* isStale
    duty,       \* the peers obligationsOf names a duty of
    laneSeen, laneCooling,
    offers,     \* identities that the running handler has still to offer
    adding,     \* an _addByVitality that waits for openConnection
    changes

adVars == <<gated, armed, table, class, closing, waitsFor, grace, stale, duty, laneSeen, laneCooling,
            offers, adding, changes>>
modeVars == <<gated, armed>>
laneVars == <<laneSeen, laneCooling>>
worldVars == <<stale, duty, changes>>

BoundPeers == {p \in Peer : class[p] # "none"} \ closing
Charged(c) == {p \in Peer : class[p] = c}
RoomInM == Cardinality(Charged("M")) < Cap

AdInit ==
    /\ gated \in BOOLEAN /\ armed \in BOOLEAN
    /\ table = {} /\ class = [p \in Peer |-> "none"] /\ closing = {}
    /\ waitsFor = [p \in Peer |-> Nil] /\ grace = <<>>
    /\ stale = {} /\ duty = {} /\ laneSeen = {} /\ laneCooling = FALSE
    /\ offers = {} /\ adding = {} /\ changes = 0

(***************************************************************************)
(* The retention policy.                                                     *)
(***************************************************************************)
Count(b) == Cardinality({p \in table : Band[p] = b})

\* The entries that count for the near set: those not SUSPECT.
HeldEntries == table \ stale
NearSet(ps) == {p \in ps : Cardinality({k \in ps : k < p}) < KNear}

\* NEAR, with the candidate ranked in, BAND and SERVICE.
Protected(candidate) == {p \in table : \/ p \in NearSet(HeldEntries \cup {candidate}) /\ p \in HeldEntries
                                       \/ Count(Band[p]) <= SparseFloor
                                       \/ p \in Service}

\* nearImprove: nearer than the last of the KNear nearest that are held.
NearImprove(candidate) ==
    /\ Cardinality(HeldEntries) >= KNear
    /\ \E p \in NearSet(HeldEntries) : candidate < p

\* (mutant) a swap that the evicted entry can reverse
EvictableEven(candidate) ==
    {v \in table \ Protected(candidate) : NearImprove(candidate) \/ Count(Band[v]) >= Count(Band[candidate])}

\* The entries a candidate may replace: the anti-oscillation margin.
Evictable(candidate) ==
    {v \in table \ Protected(candidate) : NearImprove(candidate) \/ Count(Band[v]) >= Count(Band[candidate]) + 2}

Victims(candidate) ==
    {v \in Evictable(candidate) : \A w \in Evictable(candidate) : Count(Band[w]) <= Count(Band[v])}

MayRetire(p) == p \notin duty

\* _gateDecision: "admit", "lane", "swap" or "refuse", with the victim.
Verdict1(how, v) == [how |-> how, victim |-> v]
GateDecision(p) ==
    IF Cardinality(table) < Cap
    THEN IF KJoin > 0 /\ Cardinality(table) >= Cap - KJoin
         THEN {Verdict1(IF p \in laneSeen \/ laneCooling THEN "refuse" ELSE "lane", Nil)}
         ELSE {Verdict1("admit", Nil)}
    ELSE IF Victims(p) = {} THEN {Verdict1("refuse", Nil)}
    ELSE {Verdict1(IF MayRetire(v) THEN "swap" ELSE "refuse", v) : v \in Victims(p)}

(***************************************************************************)
(* The seed of a bound peer.                                                 *)
(***************************************************************************)
\* closeConnection of some peers: their bindings end now, their channels when
\* the transport confirms.
Close(ps) == closing' = closing \cup (ps \cap BoundPeers)

GateCommit(p, d) ==
    LET out == IF d.how = "swap" THEN {d.victim} ELSE {} IN
    /\ table' = (table \ out) \cup {p}
    /\ Close(out)
    /\ laneSeen' = IF d.how = "lane" THEN laneSeen \cup {p} ELSE laneSeen
    /\ laneCooling' = (laneCooling \/ d.how = "lane")

\* The pending closes that give way when the map is full: the oldest that no
\* duty holds.
Overflow ==
    LET free == SelectSeq(grace, MayRetire)
        need == Len(grace) - GraceMax + 1
    IN  IF Len(grace) < GraceMax THEN {}
        ELSE ToSet(SubSeq(free, 1, IF need <= Len(free) THEN need ELSE Len(free)))

\* The map when they have.
Kept == IF Overflow = {} THEN grace ELSE SelectSeq(grace, LAMBDA q : q \notin Overflow)

\* (mutant) a second refusal of a pending peer arms a second timer
RefusedTwice(p) ==
    /\ UNCHANGED <<table, laneSeen, laneCooling, class, waitsFor>>
    /\ IF GraceMax > 0 /\ Cardinality(table) + Len(grace) + 1 <= MaxConnections
       THEN /\ grace' = Append(Kept, p)
            /\ Close(Overflow)
       ELSE Close(IF MayRetire(p) THEN {p} ELSE {}) /\ UNCHANGED grace

\* A refused peer: its close is deferred, or done at once if nothing can be
\* deferred.
Refused(p) ==
    LET headroom == Cardinality(table) + Len(grace) + 1 <= MaxConnections IN
    /\ UNCHANGED <<table, laneSeen, laneCooling, class, waitsFor>>
    /\ IF GraceMax > 0 /\ p \in ToSet(grace) THEN UNCHANGED <<grace, closing>>
       ELSE IF GraceMax > 0 /\ headroom
       THEN /\ grace' = Append(Kept, p)
            /\ Close(Overflow)
       ELSE Close(IF MayRetire(p) THEN {p} ELSE {}) /\ UNCHANGED grace

\* _promote: with room the class moves first; a replacement commits first, and
\* its class moves now or when the victim's close is confirmed.
Promote(p) == \E d \in GateDecision(p) :
    /\ IF d.how = "refuse" \/ (d.how # "swap" /\ ~RoomInM)
       THEN UNCHANGED <<table, closing, class, waitsFor, laneSeen, laneCooling>>
       ELSE /\ GateCommit(p, d)
            /\ class' = IF RoomInM THEN [class EXCEPT ![p] = "M"] ELSE class
            /\ waitsFor' = IF ~RoomInM /\ class[d.victim] = "M" THEN [waitsFor EXCEPT ![p] = d.victim] ELSE waitsFor
    /\ UNCHANGED grace

AdmitOrImprove(p) == \E d \in GateDecision(p) :
    IF d.how = "refuse" THEN Refused(p)
    ELSE GateCommit(p, d) /\ UNCHANGED <<class, waitsFor, grace>>

\* _legacyInsertAllowed: an incoming channel enters the table as M or not at all.
LegacyInsert(p) ==
    LET incoming == armed /\ class[p] = "I" IN
    /\ table' = IF incoming /\ ~RoomInM THEN table ELSE table \cup {p}
    /\ class' = IF incoming /\ RoomInM THEN [class EXCEPT ![p] = "M"] ELSE class
    /\ UNCHANGED <<closing, waitsFor, grace, laneSeen, laneCooling>>

\* _seedSynaptomeWithSponsor, for one of the identities a handler offers.
Seed(p) ==
    /\ p \in offers /\ offers' = offers \ {p}
    /\ IF p \in table THEN UNCHANGED <<table, class, closing, waitsFor, grace, laneSeen, laneCooling>>
       ELSE IF ~gated THEN LegacyInsert(p)
       ELSE IF armed /\ class[p] = "I" THEN Promote(p)
       ELSE AdmitOrImprove(p)
    /\ UNCHANGED <<modeVars, worldVars, adding>>

(***************************************************************************)
(* Who offers: a bind, and the reconcile step of the fill.  A handler runs   *)
(* to its end: nothing else happens while it has identities to offer.        *)
(***************************************************************************)
PeerBound(p, c) ==
    /\ offers = {} /\ class[p] = "none"
    /\ IF armed THEN (c = "M" /\ RoomInM) \/ (c = "I" /\ Cardinality(Charged("I")) < PoolI) ELSE c = "u"
    /\ class' = [class EXCEPT ![p] = c]
    /\ offers' = {p}
    /\ UNCHANGED <<modeVars, table, closing, waitsFor, grace, worldVars, laneVars, adding>>

ReconcileBound ==
    /\ offers = {} /\ offers' = BoundPeers \ table /\ offers' # {}
    /\ UNCHANGED <<modeVars, table, class, closing, waitsFor, grace, worldVars, laneVars, adding>>

(***************************************************************************)
(* Timers, closes and losses.                                                *)
(***************************************************************************)
\* (mutant) a peer admitted meanwhile is closed
GraceFireUnrescued ==
    LET p == Head(grace) IN
    /\ offers = {} /\ grace # <<>>
    /\ grace' = IF ~MayRetire(p) THEN Append(Tail(grace), p) ELSE Tail(grace)
    /\ Close(IF MayRetire(p) THEN {p} ELSE {})
    /\ UNCHANGED <<modeVars, table, class, waitsFor, worldVars, laneVars, offers, adding>>

\* The oldest grace timer: a peer admitted meanwhile is left alone, a duty
\* gets another window.
GraceFire ==
    LET p == Head(grace) IN
    /\ offers = {} /\ grace # <<>>
    /\ grace' = IF p \notin table /\ ~MayRetire(p) THEN Append(Tail(grace), p) ELSE Tail(grace)
    /\ Close(IF p \notin table /\ MayRetire(p) THEN {p} ELSE {})
    /\ UNCHANGED <<modeVars, table, class, waitsFor, worldVars, laneVars, offers, adding>>

\* The ledger's record of a channel ends, and the transfer that waited for it
\* is done if the pool has room.  (A channel is the victim of one swap.)
Ended1(p) ==
    LET room == Cardinality(Charged("M") \ {p}) < Cap IN
    /\ class' = [q \in Peer |-> IF q = p THEN "none" ELSE IF waitsFor[q] = p /\ room THEN "M" ELSE class[q]]
    /\ waitsFor' = [q \in Peer |-> IF q = p \/ waitsFor[q] = p THEN Nil ELSE waitsFor[q]]
    /\ closing' = closing \ {p}

CloseConfirmed(p) ==
    /\ offers = {} /\ p \in closing
    /\ Ended1(p)
    /\ stale' = stale \ {p}
    /\ UNCHANGED <<modeVars, table, grace, duty, changes, laneVars, offers, adding>>

\* An involuntary loss evicts; a voluntary close does not report one.
PeerDied(p) ==
    /\ offers = {} /\ p \in BoundPeers /\ changes < MaxChanges
    /\ changes' = changes + 1
    /\ Ended1(p)
    /\ table' = table \ {p} /\ stale' = stale \ {p}
    /\ UNCHANGED <<modeVars, grace, duty, laneVars, offers, adding>>

Silent(p) ==
    /\ offers = {} /\ p \in BoundPeers /\ changes < MaxChanges
    /\ changes' = changes + 1
    /\ stale' = IF p \in stale THEN stale \ {p} ELSE stale \cup {p}
    /\ UNCHANGED <<modeVars, table, class, closing, waitsFor, grace, duty, laneVars, offers, adding>>

DutyChange(p) ==
    /\ offers = {} /\ changes < MaxChanges
    /\ changes' = changes + 1
    /\ duty' = IF p \in duty THEN duty \ {p} ELSE duty \cup {p}
    /\ UNCHANGED <<modeVars, table, class, closing, waitsFor, grace, stale, laneVars, offers, adding>>

\* The cooldown of the lane ends, and with it the window of an identity.
LaneTime(p) ==
    /\ offers = {} /\ laneCooling' = FALSE /\ laneSeen' = laneSeen \ {p}
    /\ <<laneSeen', laneCooling'>> # laneVars
    /\ UNCHANGED <<modeVars, table, class, closing, waitsFor, grace, worldVars, offers, adding>>

(***************************************************************************)
(* _addByVitality: the cap is read before the open is awaited.               *)
(***************************************************************************)
AddByVitality(p) ==
    /\ offers = {} /\ adding = {} /\ p \notin table
    /\ Cardinality(table) < Cap
    /\ adding' = {p}
    /\ UNCHANGED <<modeVars, table, class, closing, waitsFor, grace, worldVars, laneVars, offers>>

Opened1(p) ==
    /\ offers = {} /\ p \in adding /\ adding' = {}
    /\ IF p \in BoundPeers THEN LegacyInsert(p)
       ELSE UNCHANGED <<table, class, closing, waitsFor, grace, laneSeen, laneCooling>>
    /\ UNCHANGED <<modeVars, worldVars, offers>>

AdNext ==
    \/ ReconcileBound \/ GraceFire
    \/ \E p \in Peer, c \in {"M", "I", "u"} : PeerBound(p, c)
    \/ \E p \in Peer : Seed(p) \/ CloseConfirmed(p) \/ PeerDied(p) \/ Silent(p) \/ DutyChange(p) \/ LaneTime(p)
                       \/ AddByVitality(p) \/ Opened1(p)

AdSpec == AdInit /\ [][AdNext]_adVars

(***************************************************************************)
(* Properties.                                                               *)
(***************************************************************************)
\* Every variable stays in its type.
AdTypeOK ==
    /\ table \subseteq Peer /\ class \in [Peer -> {"none", "M", "I", "u"}] /\ closing \subseteq Peer
    /\ waitsFor \in [Peer -> Peer \cup {Nil}] /\ grace \in Seq(Peer) /\ IsInjective(grace)
    /\ stale \subseteq Peer /\ duty \subseteq Peer /\ laneSeen \subseteq Peer
    /\ offers \subseteq Peer /\ adding \subseteq Peer /\ changes \in 0..MaxChanges

\* "The evicted edge is NOT re-admissible against the candidate" and "the
\* displaced peer can never displace back": when losses, duties and silences
\* have come to an end the table does too, whoever binds, however often.
SwapsCease == <>[][table' = table]_adVars

\* "At fire time the close is skipped if the peer was admitted meanwhile": a
\* peer of the table keeps the channel it was admitted with until it is lost.
TableBound == table \subseteq BoundPeers
=============================================================================
