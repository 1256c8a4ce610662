--------------------------- MODULE ChannelLedger ---------------------------
(***************************************************************************)
(* The channel ledger of the browser mesh (transport/web/channel_ledger.js):*)
(* one record per physical PeerConnection, one per bound identity, and the  *)
(* capacity bounds counted over them.  The ledger is modelled at its        *)
(* interface; the environment is mesh.js and webrtc.js, which reserve       *)
(* before building a connection, attach, negotiate, open, bind the identity *)
(* the handshake proved, retire, and report the transport's 'closed'.       *)
(*                                                                          *)
(* A token stands both for a reservation and for the channel incarnation    *)
(* that consumes it.  Tokens are never reused, as incarnation tags are not. *)
(***************************************************************************)
EXTENDS Naturals, FiniteSets

CONSTANTS
    Token,      \* channel incarnation tags ("<run>.<seq>")
    MeshId,     \* connection handles minted by the bridge
    Node,       \* authenticated node identities
    None,       \* JS null / an absent map entry
    NodeOf,     \* the identity a handshake over a given handle proves
    CPhys,      \* cPhys (or the pool profile's H)
    CInbound,   \* cInbound
    PPending,   \* pPending
    Pool,       \* pools.M and pools.I
    Armed,      \* the two-pool profile is armed
    Enforce     \* refusals are refusals, not only counted

Cls == {"M", "I"}
Dir == {"in", "out"}

ASSUME LedgerAssumption ==
    /\ IsFiniteSet(Token)
    /\ None \notin Token \cup MeshId \cup Node \cup Cls \cup Dir
    /\ NodeOf \in [MeshId -> Node]
    /\ CPhys \in Nat /\ CInbound \in Nat /\ PPending \in Nat
    /\ Pool \in [Cls -> Nat]
    /\ Armed \in BOOLEAN /\ Enforce \in BOOLEAN

VARIABLES
    state,      \* _chan[t].state, or where t stands before and after its record
    mesh,       \* _chan[t].meshId
    dir,        \* _chan[t].dir
    cls,        \* _chan[t].cls
    node,       \* _chan[t].nodeId
    seq,        \* _chan[t].seq
    allocs,     \* _seq
    current,    \* _tByMeshId
    peer,       \* _peer[n].t
    pending     \* _pendingReclass[t].after

vars == <<state, mesh, dir, cls, node, seq, allocs, current, peer, pending>>

PRE_OPEN  == {"ALLOCATED", "NEGOTIATING"}
POINTABLE == PRE_OPEN \cup {"OPEN"}
LIVE      == POINTABLE \cup {"CLOSING"}
\* FREE: never reserved; EXPIRED: its reservation was swept or released.
State     == LIVE \cup {"FREE", "RESERVED", "EXPIRED", "GONE"}

(***************************************************************************)
(* The counts.  A reservation is charged against every bound it will need  *)
(* once it is consumed, so each count takes channels and reservations.     *)
(***************************************************************************)
Held            == LIVE \cup {"RESERVED"}
ChargedAll      == {t \in Token : state[t] \in Held}
ChargedOf(k)    == {t \in Token : state[t] \in Held /\ cls[t] = k}
InboundUnbound  == {t \in Token : /\ dir[t] = "in"
                                  /\ \/ state[t] = "RESERVED"
                                     \/ state[t] \in PRE_OPEN /\ node[t] = None}
OutboundPending == {t \in Token : dir[t] = "out" /\ state[t] \in PRE_OPEN \cup {"RESERVED"}}

\* reserve()'s class: only an armed ledger classifies.
ClassFor(d, c) ==
    IF ~Armed THEN None
    ELSE IF c \in Cls THEN c
    ELSE IF d = "in" THEN "I" ELSE "M"

-----------------------------------------------------------------------------
Init ==
    /\ state   = [t \in Token |-> "FREE"]
    /\ mesh    = [t \in Token |-> None]
    /\ dir     = [t \in Token |-> None]
    /\ cls     = [t \in Token |-> None]
    /\ node    = [t \in Token |-> None]
    /\ seq     = [t \in Token |-> 0]
    /\ allocs  = 0
    /\ current = [m \in MeshId |-> None]
    /\ peer    = [n \in Node |-> None]
    /\ pending = [t \in Token |-> None]

\* sweepReservations(): which reservations have outlived the TTL is left open.
Swept(X) == [t \in Token |-> IF t \in X THEN "EXPIRED" ELSE state[t]]

\* Mutant: a full ledger admits one more.
RoomOffByOne(X, d, k) ==
    /\ Cardinality(ChargedAll \ X) <= CPhys
    /\ k # None => Cardinality(ChargedOf(k) \ X) <= Pool[k]
    /\ d = "in"  => Cardinality(InboundUnbound \ X) <= CInbound
    /\ d = "out" => Cardinality(OutboundPending \ X) <= PPending

\* The bounds reserve() tests, after the sweep has dropped X.
Room(X, d, k) ==
    /\ Cardinality(ChargedAll \ X) < CPhys
    /\ k # None => Cardinality(ChargedOf(k) \ X) < Pool[k]
    /\ d = "in"  => Cardinality(InboundUnbound \ X) < CInbound
    /\ d = "out" => Cardinality(OutboundPending \ X) < PPending

Expirable == SUBSET {t \in Token : state[t] = "RESERVED"}

Reserve(t, d, c) ==
    /\ state[t] = "FREE"
    /\ \E X \in Expirable :
          /\ Enforce => Room(X, d, ClassFor(d, c))
          /\ state' = [Swept(X) EXCEPT ![t] = "RESERVED"]
    /\ dir' = [dir EXCEPT ![t] = d]
    /\ cls' = [cls EXCEPT ![t] = ClassFor(d, c)]
    /\ UNCHANGED <<mesh, node, seq, allocs, current, peer, pending>>

\* A refusal reserves nothing, but the sweep before it has happened.
ReserveRefused(d, c) ==
    /\ Enforce
    /\ \E X \in Expirable \ {{}} :
          /\ ~Room(X, d, ClassFor(d, c))
          /\ state' = Swept(X)
    /\ UNCHANGED <<mesh, dir, cls, node, seq, allocs, current, peer, pending>>

Release(t) ==
    /\ state[t] = "RESERVED"
    /\ state' = [state EXCEPT ![t] = "EXPIRED"]
    /\ UNCHANGED <<mesh, dir, cls, node, seq, allocs, current, peer, pending>>

\* An armed ledger fails closed without a live reservation; an unarmed one
\* allocates anyway, unclassified.
Allocate(t, m) ==
    /\ state[t] = "RESERVED" \/ (~Armed /\ state[t] = "EXPIRED")
    /\ state'   = [state EXCEPT ![t] = "ALLOCATED"]
    /\ cls'     = [cls EXCEPT ![t] = IF state[t] = "RESERVED" THEN @ ELSE None]
    /\ mesh'    = [mesh EXCEPT ![t] = m]
    /\ allocs'  = allocs + 1
    /\ seq'     = [seq EXCEPT ![t] = allocs + 1]
    /\ current' = [current EXCEPT ![m] = t]
    /\ UNCHANGED <<dir, node, peer, pending>>

\* The first frame went out (offerer) or came in (answerer).
Negotiating(t) ==
    /\ state[t] = "ALLOCATED"
    /\ state' = [state EXCEPT ![t] = "NEGOTIATING"]
    /\ UNCHANGED <<mesh, dir, cls, node, seq, allocs, current, peer, pending>>

Open(t) ==
    /\ state[t] \in PRE_OPEN
    /\ state' = [state EXCEPT ![t] = "OPEN"]
    /\ UNCHANGED <<mesh, dir, cls, node, seq, allocs, current, peer, pending>>

\* Mutant: the record keeps the handle for the identity.
BindHandle(m) ==
    /\ current[m] # None
    /\ state[current[m]] = "OPEN"
    /\ node' = [node EXCEPT ![current[m]] = m]
    /\ peer' = [peer EXCEPT ![NodeOf[m]] = current[m]]
    /\ UNCHANGED <<state, mesh, dir, cls, seq, allocs, current, pending>>

\* The hello that proves an identity travels on the data channel, so the
\* handle's current channel is open (or already retired: then nothing happens).
Bind(m) ==
    /\ current[m] # None
    /\ state[current[m]] = "OPEN"
    /\ node' = [node EXCEPT ![current[m]] = NodeOf[m]]
    /\ peer' = [peer EXCEPT ![NodeOf[m]] = current[m]]
    /\ UNCHANGED <<state, mesh, dir, cls, seq, allocs, current, pending>>

-----------------------------------------------------------------------------
(***************************************************************************)
(* _settlePeer(n, t): channel t stops standing for n.                      *)
(***************************************************************************)
\* _otherPointableFor: an open channel before one still negotiating.
OtherPointable(n, t) ==
    LET bound == {o \in Token \ {t} : node[o] = n /\ state[o] \in POINTABLE}
        open  == {o \in bound : state[o] = "OPEN"}
    IN  IF open # {} THEN open ELSE bound

\* Mutant: the record goes with its channel, whatever else is bound.
SettlePeerForgets(n, t) ==
    IF n = None THEN peer' = peer ELSE peer' = [peer EXCEPT ![n] = None]

SettlePeer(n, t) ==
    IF n = None \/ peer[n] = None THEN peer' = peer
    ELSE IF OtherPointable(n, t) = {} THEN peer' = [peer EXCEPT ![n] = None]
    ELSE IF peer[n] # t THEN peer' = peer
    ELSE \E o \in OtherPointable(n, t) : peer' = [peer EXCEPT ![n] = o]

\* The bound live channels of m that unbind() falls back to.
BoundOf(m) == {t \in Token : mesh[t] = m /\ node[t] # None /\ state[t] \in LIVE}

\* The channel unbind(m) acts on: the current one if bound, else the newest.
Unbindable(m) ==
    IF current[m] # None /\ node[current[m]] # None THEN {current[m]}
    ELSE {t \in BoundOf(m) : \A o \in BoundOf(m) : seq[o] <= seq[t]}

Unbind(m) ==
    \E t \in Unbindable(m) :
        /\ node' = [node EXCEPT ![t] = None]
        /\ SettlePeer(node[t], t)
        /\ UNCHANGED <<state, mesh, dir, cls, seq, allocs, current, pending>>

Uncurrent(t) ==
    [m \in MeshId |-> IF m = mesh[t] /\ current[m] = t THEN None ELSE current[m]]

\* Retired by us: stops being pointed at, stays charged.
Closing(t) ==
    /\ state[t] \in POINTABLE
    /\ state' = [state EXCEPT ![t] = "CLOSING"]
    /\ current' = Uncurrent(t)
    /\ IF node[t] # None /\ peer[node[t]] = t THEN SettlePeer(node[t], t) ELSE peer' = peer
    /\ UNCHANGED <<mesh, dir, cls, node, seq, allocs, pending>>

-----------------------------------------------------------------------------
(***************************************************************************)
(* Classes.  The kernel asks for one reclass, a promotion of a channel to  *)
(* M; one refused for lack of room may wait for the close of the channel   *)
(* whose room it takes over.                                               *)
(***************************************************************************)
PoolRoom == Armed => Cardinality(ChargedOf("M")) < Pool["M"]

Reclass(t) ==
    /\ state[t] \in LIVE
    /\ cls[t] # "M"
    /\ Enforce => PoolRoom
    /\ cls' = [cls EXCEPT ![t] = "M"]
    /\ UNCHANGED <<state, mesh, dir, node, seq, allocs, current, peer, pending>>

ReclassDeferred(t, after) ==
    /\ state[t] \in LIVE
    /\ cls[t] # "M"
    /\ Enforce /\ ~PoolRoom
    /\ after # t /\ state[after] \in LIVE /\ cls[after] = "M"
    /\ pending' = [pending EXCEPT ![t] = after]
    /\ UNCHANGED <<state, mesh, dir, cls, node, seq, allocs, current, peer>>

\* The reclasses that waited for the close of g.
Waiting(g) == {t \in Token \ {g} : pending[t] = g}

\* Mutant: the closed channel's own deferred reclass is left behind.
ApplyPendingKeepsOwn(g, done) ==
    /\ LET charged == (ChargedOf("M") \ {g}) \cup done
       IN  /\ Armed /\ done # {} => Cardinality(charged) <= Pool["M"]
           /\ done # Waiting(g)  => Armed /\ Cardinality(charged) >= Pool["M"]
    /\ cls' = [t \in Token |-> IF t \in done THEN "M" ELSE cls[t]]
    /\ pending' = [t \in Token |-> IF pending[t] = g THEN None ELSE pending[t]]

\* _applyPendingReclass(g): the waiters are moved one by one while the pool has
\* room, and those left are dropped.  The order is left open: `done` moved.
ApplyPending(g, done) ==
    /\ LET charged == (ChargedOf("M") \ {g}) \cup done
       IN  /\ Armed /\ done # {} => Cardinality(charged) <= Pool["M"]
           /\ done # Waiting(g)  => Armed /\ Cardinality(charged) >= Pool["M"]
    /\ cls' = [t \in Token |-> IF t \in done THEN "M" ELSE cls[t]]
    /\ pending' = [t \in Token |-> IF t = g \/ pending[t] = g THEN None ELSE pending[t]]

\* The transport confirmed the close, prompted or not: the only release.
Gone(t) ==
    /\ state[t] \in LIVE
    /\ state' = [state EXCEPT ![t] = "GONE"]
    /\ current' = Uncurrent(t)
    /\ node' = [node EXCEPT ![t] = None]
    /\ SettlePeer(node[t], t)
    /\ \E done \in SUBSET Waiting(t) : ApplyPending(t, done)
    /\ UNCHANGED <<mesh, dir, seq, allocs>>

-----------------------------------------------------------------------------
Next ==
    \/ \E t \in Token, d \in Dir, c \in Cls \cup {None} : Reserve(t, d, c)
    \/ \E d \in Dir, c \in Cls \cup {None} : ReserveRefused(d, c)
    \/ \E t \in Token : Release(t)
    \/ \E t \in Token, m \in MeshId : Allocate(t, m)
    \/ \E t \in Token : Negotiating(t)
    \/ \E t \in Token : Open(t)
    \/ \E m \in MeshId : Bind(m)
    \/ \E m \in MeshId : Unbind(m)
    \/ \E t \in Token : Closing(t)
    \/ \E t \in Token : Reclass(t)
    \/ \E t \in Token, a \in Token : ReclassDeferred(t, a)
    \/ \E t \in Token : Gone(t)

Spec == Init /\ [][Next]_vars

-----------------------------------------------------------------------------
TypeOK ==
    /\ state   \in [Token -> State]
    /\ mesh    \in [Token -> MeshId \cup {None}]
    /\ dir     \in [Token -> Dir \cup {None}]
    /\ cls     \in [Token -> Cls \cup {None}]
    /\ node    \in [Token -> Node \cup {None}]
    /\ seq     \in [Token -> Nat]
    /\ allocs  \in Nat
    /\ current \in [MeshId -> Token \cup {None}]
    /\ peer    \in [Node -> Token \cup {None}]
    /\ pending \in [Token -> Token \cup {None}]

\* The bounds of the header comment hold of an armed, enforcing ledger with
\* the open reservations counted in: whatever order reservations are taken,
\* consumed, swept and released, channels closed and identities unbound, no
\* bound is ever exceeded, so a consumed reservation never needs a new check.
CapacityBounds ==
    Enforce /\ Armed =>
        /\ Cardinality(ChargedAll) <= CPhys
        /\ \A k \in Cls : Cardinality(ChargedOf(k)) <= Pool[k]
        /\ Cardinality(InboundUnbound) <= CInbound
        /\ Cardinality(OutboundPending) <= PPending

\* A peer record points at a pointable channel bound to that very identity:
\* a CLOSING or GONE channel is never the pointer (closing, gone, unbind).
PointerValid ==
    \A n \in Node : peer[n] # None => state[peer[n]] \in POINTABLE /\ node[peer[n]] = n

\* "The peer record is the CURRENT bound set": while some pointable channel
\* binds an identity, that identity has a record, through every duplicate
\* channel, retirement, late unbind and unprompted close.
BoundHasRecord ==
    \A t \in Token : state[t] \in POINTABLE /\ node[t] # None => peer[node[t]] # None

\* The handle index names only the live serving channel of that handle, so an
\* event of a replaced channel cannot act on its successor's record.
CurrentValid ==
    \A m \in MeshId : current[m] # None => state[current[m]] \in POINTABLE /\ mesh[current[m]] = m

\* The two indexes, by identity and by handle, agree with the channels.
IndexesAgree == PointerValid /\ BoundHasRecord /\ CurrentValid

\* A promotion that waits for a close waits for a channel that can still
\* close: neither it nor the channel it waits for is GONE.
DeferredCanSettle ==
    \A t \in Token : pending[t] # None =>
        /\ state[t] \in LIVE /\ state[pending[t]] \in LIVE /\ pending[t] # t

=============================================================================
