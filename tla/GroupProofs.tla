----------------------------- MODULE GroupProofs ----------------------------
(***************************************************************************)
(* One among several: what a node holds no more of than it may, its          *)
(* channels, for every number of tokens, handles and identities, every bound *)
(* and both modes of the two switches Armed and Enforce; who keeps a message *)
(* through departures, for any number of relays; and who serves a reader     *)
(* through the delegations of a delivery tree.                               *)
(***************************************************************************)
EXTENDS MCGroup, FiniteSetTheorems, TLAPS

(***************************************************************************)
(* The ledger.                                                               *)
(***************************************************************************)
\* What the properties need besides each other: the handshake that binds runs
\* on an open channel, and proves the identity of the handle it runs on.
BoundIsOpened ==
    \A t \in Token : node[t] # None =>
        /\ state[t] \in {"OPEN", "CLOSING"}
        /\ mesh[t] \in MeshId
        /\ node[t] = NodeOf[mesh[t]]

IndexInv == /\ TypeOK
            /\ BoundIsOpened
            /\ PointerValid
            /\ BoundHasRecord
            /\ CurrentValid
            /\ DeferredCanSettle

USE DEF Cls, Dir, State, LIVE, POINTABLE, PRE_OPEN

-----------------------------------------------------------------------------
\* The initial state, in which nothing is reserved, satisfies the invariant.
LEMMA IndexInit == Init => IndexInv
  BY LedgerAssumption
  DEF Init, IndexInv, TypeOK, BoundIsOpened, PointerValid, BoundHasRecord,
      CurrentValid, DeferredCanSettle

\* What _settlePeer(n, t) does to the peer records: only n's record changes,
\* it never points at t afterwards, it points at a pointable channel bound to
\* n, and it is absent only if no other pointable channel is bound to n.
LEMMA SettlePeerLemma ==
  ASSUME IndexInv, NEW t \in Token, NEW n \in Node \cup {None}, SettlePeer(n, t)
  PROVE  /\ peer' \in [Node -> Token \cup {None}]
         /\ \A k \in Node : k # n => peer'[k] = peer[k]
         /\ n # None /\ peer'[n] # None =>
               /\ peer'[n] # t
               /\ state[peer'[n]] \in POINTABLE
               /\ node[peer'[n]] = n
         /\ n # None => \A o \in Token \ {t} :
               node[o] = n /\ state[o] \in POINTABLE => peer'[n] # None
  <1> USE LedgerAssumption
  <1> USE DEF IndexInv, TypeOK, PointerValid, BoundHasRecord
  <1>1. CASE n = None
    BY <1>1 DEF SettlePeer
  <1>2. CASE n # None /\ peer[n] = None
    BY <1>2 DEF SettlePeer
  <1>3. CASE n # None /\ peer[n] # None /\ OtherPointable(n, t) = {}
    BY <1>3 DEF SettlePeer, OtherPointable
  <1>4. CASE n # None /\ peer[n] # None /\ OtherPointable(n, t) # {} /\ peer[n] # t
    BY <1>4 DEF SettlePeer
  <1>5. CASE n # None /\ peer[n] # None /\ OtherPointable(n, t) # {} /\ peer[n] = t
    <2>1. PICK o \in OtherPointable(n, t) : peer' = [peer EXCEPT ![n] = o]
      BY <1>5 DEF SettlePeer
    <2>2. o \in Token \ {t} /\ node[o] = n /\ state[o] \in POINTABLE
      BY DEF OtherPointable
    <2> QED
      BY <1>5, <2>1, <2>2
  <1> QED
    BY <1>1, <1>2, <1>3, <1>4, <1>5

-----------------------------------------------------------------------------
\* Every action preserves the index invariant.
LEMMA IndexStep == IndexInv /\ [Next]_vars => IndexInv'
  <1> SUFFICES ASSUME IndexInv, [Next]_vars PROVE IndexInv'
    OBVIOUS
  <1> USE LedgerAssumption
  <1> USE DEF IndexInv, TypeOK, BoundIsOpened, PointerValid, BoundHasRecord,
              CurrentValid, DeferredCanSettle
  <1>1. ASSUME NEW t \in Token, NEW d \in Dir, NEW c \in Cls \cup {None}, Reserve(t, d, c)
        PROVE  IndexInv'
    <2>1. PICK X \in Expirable : state' = [Swept(X) EXCEPT ![t] = "RESERVED"]
      BY <1>1 DEF Reserve
    <2>2. \A u \in Token : state[u] \in LIVE => state'[u] = state[u]
      BY <1>1, <2>1 DEF Reserve, Swept, Expirable
    <2>3. \A u \in Token : state'[u] \in LIVE => state'[u] = state[u]
      BY <2>1 DEF Swept
    <2>4. state' \in [Token -> State]
      BY <2>1 DEF Swept
    <2>5. dir' \in [Token -> Dir \cup {None}] /\ cls' \in [Token -> Cls \cup {None}]
      BY <1>1 DEF Reserve, ClassFor
    <2>6. UNCHANGED <<mesh, node, seq, allocs, current, peer, pending>>
      BY <1>1 DEF Reserve
    <2> QED
      BY <2>2, <2>3, <2>4, <2>5, <2>6
  <1>2. ASSUME NEW d \in Dir, NEW c \in Cls \cup {None}, ReserveRefused(d, c)
        PROVE  IndexInv'
    <2>1. PICK X \in Expirable : state' = Swept(X)
      BY <1>2 DEF ReserveRefused
    <2>2. \A u \in Token : state[u] \in LIVE => state'[u] = state[u]
      BY <2>1 DEF Swept, Expirable
    <2>3. \A u \in Token : state'[u] \in LIVE => state'[u] = state[u]
      BY <2>1 DEF Swept
    <2>4. state' \in [Token -> State]
      BY <2>1 DEF Swept
    <2>5. UNCHANGED <<mesh, dir, cls, node, seq, allocs, current, peer, pending>>
      BY <1>2 DEF ReserveRefused
    <2> QED
      BY <2>2, <2>3, <2>4, <2>5
  <1>3. ASSUME NEW t \in Token, Release(t) PROVE IndexInv'
    BY <1>3 DEF Release
  <1>4. ASSUME NEW t \in Token, NEW m \in MeshId, Allocate(t, m) PROVE IndexInv'
    <2>1. node[t] = None /\ state[t] \notin LIVE
      BY <1>4 DEF Allocate
    <2>2. TypeOK'
      BY <1>4 DEF Allocate
    <2>3. BoundIsOpened' /\ PointerValid' /\ BoundHasRecord'
      BY <1>4, <2>1 DEF Allocate
    <2>4. CurrentValid'
      BY <1>4, <2>1 DEF Allocate
    <2>5. DeferredCanSettle'
      BY <1>4, <2>1 DEF Allocate
    <2> QED
      BY <2>2, <2>3, <2>4, <2>5
  <1>5. ASSUME NEW t \in Token, Negotiating(t) PROVE IndexInv'
    BY <1>5 DEF Negotiating
  <1>6. ASSUME NEW t \in Token, Open(t) PROVE IndexInv'
    BY <1>6 DEF Open
  <1>7. ASSUME NEW m \in MeshId, Bind(m) PROVE IndexInv'
    <2>1. current[m] \in Token /\ mesh[current[m]] = m /\ NodeOf[m] \in Node
      BY <1>7 DEF Bind
    <2>2. TypeOK' /\ CurrentValid' /\ DeferredCanSettle'
      BY <1>7, <2>1 DEF Bind
    <2>3. BoundIsOpened' /\ BoundHasRecord'
      BY <1>7, <2>1 DEF Bind
    <2>4. PointerValid'
      BY <1>7, <2>1 DEF Bind
    <2> QED
      BY <2>2, <2>3, <2>4
  <1>8. ASSUME NEW m \in MeshId, Unbind(m) PROVE IndexInv'
    <2>1. PICK t \in Unbindable(m) :
             /\ node' = [node EXCEPT ![t] = None]
             /\ SettlePeer(node[t], t)
             /\ UNCHANGED <<state, mesh, dir, cls, seq, allocs, current, pending>>
      BY <1>8 DEF Unbind
    <2>2. t \in Token /\ node[t] \in Node
      BY DEF Unbindable, BoundOf
    <2>3. /\ peer' \in [Node -> Token \cup {None}]
          /\ \A k \in Node : k # node[t] => peer'[k] = peer[k]
          /\ peer'[node[t]] # None =>
                /\ peer'[node[t]] # t
                /\ state[peer'[node[t]]] \in POINTABLE
                /\ node[peer'[node[t]]] = node[t]
          /\ \A o \in Token \ {t} :
                node[o] = node[t] /\ state[o] \in POINTABLE => peer'[node[t]] # None
      BY <2>1, <2>2, SettlePeerLemma
    <2>4. TypeOK' /\ CurrentValid' /\ DeferredCanSettle' /\ BoundIsOpened'
      BY <2>1, <2>2, <2>3
    <2>5. PointerValid'
      BY <2>1, <2>2, <2>3
    <2>6. BoundHasRecord'
      BY <2>1, <2>2, <2>3
    <2> QED
      BY <2>4, <2>5, <2>6
  <1>9. ASSUME NEW t \in Token, Closing(t) PROVE IndexInv'
    <2>1. /\ peer' \in [Node -> Token \cup {None}]
          /\ \A k \in Node : k # node[t] => peer'[k] = peer[k]
          /\ node[t] # None /\ peer'[node[t]] # None =>
                /\ peer'[node[t]] # t
                /\ state[peer'[node[t]]] \in POINTABLE
                /\ node[peer'[node[t]]] = node[t]
          /\ node[t] # None => \A o \in Token \ {t} :
                node[o] = node[t] /\ state[o] \in POINTABLE => peer'[node[t]] # None
      <3>1. CASE node[t] # None /\ peer[node[t]] = t
        BY <1>9, <3>1, SettlePeerLemma DEF Closing
      <3>2. CASE ~(node[t] # None /\ peer[node[t]] = t)
        BY <1>9, <3>2 DEF Closing
      <3> QED
        BY <3>1, <3>2
    <2>2. TypeOK' /\ BoundIsOpened' /\ DeferredCanSettle'
      BY <1>9, <2>1 DEF Closing, Uncurrent
    <2>3. CurrentValid'
      BY <1>9 DEF Closing, Uncurrent
    <2>4. PointerValid'
      BY <1>9, <2>1 DEF Closing
    <2>5. BoundHasRecord'
      BY <1>9, <2>1 DEF Closing
    <2> QED
      BY <2>2, <2>3, <2>4, <2>5
  <1>10. ASSUME NEW t \in Token, Reclass(t) PROVE IndexInv'
    BY <1>10 DEF Reclass
  <1>11. ASSUME NEW t \in Token, NEW a \in Token, ReclassDeferred(t, a) PROVE IndexInv'
    BY <1>11 DEF ReclassDeferred
  <1>12. ASSUME NEW t \in Token, Gone(t) PROVE IndexInv'
    <2>1. PICK done \in SUBSET Waiting(t) : ApplyPending(t, done)
      BY <1>12 DEF Gone
    <2>2. /\ cls' \in [Token -> Cls \cup {None}]
          /\ pending' = [u \in Token |-> IF u = t \/ pending[u] = t THEN None ELSE pending[u]]
      BY <2>1 DEF ApplyPending
    <2>3. /\ state' = [state EXCEPT ![t] = "GONE"]
          /\ node' = [node EXCEPT ![t] = None]
          /\ current' = Uncurrent(t)
          /\ UNCHANGED <<mesh, dir, seq, allocs>>
      BY <1>12 DEF Gone
    <2>4. /\ peer' \in [Node -> Token \cup {None}]
          /\ \A k \in Node : k # node[t] => peer'[k] = peer[k]
          /\ node[t] # None /\ peer'[node[t]] # None =>
                /\ peer'[node[t]] # t
                /\ state[peer'[node[t]]] \in POINTABLE
                /\ node[peer'[node[t]]] = node[t]
          /\ node[t] # None => \A o \in Token \ {t} :
                node[o] = node[t] /\ state[o] \in POINTABLE => peer'[node[t]] # None
      BY <1>12, SettlePeerLemma DEF Gone
    <2>5. TypeOK' /\ BoundIsOpened'
      BY <2>2, <2>3, <2>4 DEF Uncurrent
    <2>6. DeferredCanSettle'
      BY <2>2, <2>3
    <2>7. CurrentValid'
      BY <2>3 DEF Uncurrent
    <2>8. PointerValid'
      BY <2>3, <2>4
    <2>9. BoundHasRecord'
      BY <2>3, <2>4
    <2> QED
      BY <2>5, <2>6, <2>7, <2>8, <2>9
  <1>13. CASE UNCHANGED vars
    BY <1>13 DEF vars
  <1> QED
    BY <1>1, <1>2, <1>3, <1>4, <1>5, <1>6, <1>7, <1>8, <1>9, <1>10, <1>11, <1>12, <1>13
    DEF Next

\* Type correctness of the ledger's maps and records.
THEOREM TypeCorrect == Spec => []TypeOK
  <1>1. IndexInv => TypeOK
    BY DEF IndexInv
  <1> QED
    BY IndexInit, IndexStep, <1>1, PTL DEF Spec

\* The peer records and the handle index stay valid through every order of
\* allocate, bind, unbind, closing and gone, duplicate channels included.
THEOREM IndexesValid == Spec => []IndexesAgree
  <1>1. IndexInv => IndexesAgree
    BY DEF IndexInv, IndexesAgree
  <1> QED
    BY IndexInit, IndexStep, <1>1, PTL DEF Spec

\* A deferred reclass always waits for a channel whose close will settle it.
THEOREM DeferredSettle == Spec => []DeferredCanSettle
  <1>1. IndexInv => DeferredCanSettle
    BY DEF IndexInv
  <1> QED
    BY IndexInit, IndexStep, <1>1, PTL DEF Spec

-----------------------------------------------------------------------------
(***************************************************************************)
(* The capacity bounds.                                                    *)
(***************************************************************************)
\* A set of tokens that does not grow keeps its bound.
LEMMA SubsetBound ==
  ASSUME NEW T \in SUBSET Token, NEW S \in SUBSET T, NEW b \in Nat, Cardinality(T) <= b
  PROVE  Cardinality(S) <= b
  <1>1. IsFiniteSet(T) /\ Cardinality(S) <= Cardinality(T) /\ IsFiniteSet(S)
    BY LedgerAssumption, FS_Subset
  <1>2. Cardinality(S) \in Nat /\ Cardinality(T) \in Nat
    BY <1>1, FS_CardinalityType
  <1> QED
    BY <1>1, <1>2

\* A set of tokens with room takes one more.
LEMMA RoomForOne ==
  ASSUME NEW T \in SUBSET Token, NEW t \in Token, NEW S \in SUBSET (T \cup {t}),
         NEW b \in Nat, Cardinality(T) < b
  PROVE  Cardinality(S) <= b
  <1>1. IsFiniteSet(T)
    BY LedgerAssumption, FS_Subset
  <1>2. Cardinality(T) \in Nat
    BY <1>1, FS_CardinalityType
  <1>3. Cardinality(T \cup {t}) <= Cardinality(T) + 1
    BY <1>1, <1>2, FS_AddElement
  <1>4. Cardinality(T \cup {t}) \in Nat
    BY <1>1, FS_AddElement, FS_CardinalityType
  <1>5. Cardinality(T \cup {t}) <= b
    BY <1>2, <1>3, <1>4
  <1> QED
    BY <1>5, SubsetBound

\* A step after which each bounded set of tokens is contained in what it was
\* keeps the bounds.
LEMMA NoGrowth ==
  ASSUME CapacityBounds,
         Enforce /\ Armed =>
            /\ ChargedAll' \subseteq ChargedAll
            /\ \A k \in Cls : ChargedOf(k)' \subseteq ChargedOf(k)
            /\ InboundUnbound' \subseteq InboundUnbound
            /\ OutboundPending' \subseteq OutboundPending
  PROVE  CapacityBounds'
  <1> SUFFICES ASSUME Enforce, Armed
               PROVE  /\ Cardinality(ChargedAll') <= CPhys
                      /\ \A k \in Cls : Cardinality(ChargedOf(k)') <= Pool[k]
                      /\ Cardinality(InboundUnbound') <= CInbound
                      /\ Cardinality(OutboundPending') <= PPending
    BY DEF CapacityBounds
  <1>1. /\ ChargedAll \in SUBSET Token
        /\ \A k \in Cls : ChargedOf(k) \in SUBSET Token
        /\ InboundUnbound \in SUBSET Token
        /\ OutboundPending \in SUBSET Token
    BY DEF ChargedAll, ChargedOf, InboundUnbound, OutboundPending
  <1>2. Cardinality(ChargedAll') <= CPhys
    BY <1>1, SubsetBound, LedgerAssumption DEF CapacityBounds
  <1>3. ASSUME NEW k \in Cls PROVE Cardinality(ChargedOf(k)') <= Pool[k]
    <2>1. Pool[k] \in Nat /\ Cardinality(ChargedOf(k)) <= Pool[k] /\ ChargedOf(k)' \in SUBSET ChargedOf(k)
      BY LedgerAssumption DEF CapacityBounds
    <2> QED
      BY <1>1, <2>1, SubsetBound
  <1>4. Cardinality(InboundUnbound') <= CInbound
    BY <1>1, SubsetBound, LedgerAssumption DEF CapacityBounds
  <1>5. Cardinality(OutboundPending') <= PPending
    BY <1>1, SubsetBound, LedgerAssumption DEF CapacityBounds
  <1> QED
    BY <1>2, <1>3, <1>4, <1>5

\* Every action preserves the bounds, given the index invariant: Reserve and
\* Reclass take room they have tested, Gone hands a pool's room on, and no
\* other action charges anything.
LEMMA CapacityStep ==
  ASSUME IndexInv, CapacityBounds, [Next]_vars
  PROVE  CapacityBounds'
  <1> USE LedgerAssumption
  <1> DEFINE Sets == /\ ChargedAll' \subseteq ChargedAll
                     /\ \A k \in Cls : ChargedOf(k)' \subseteq ChargedOf(k)
                     /\ InboundUnbound' \subseteq InboundUnbound
                     /\ OutboundPending' \subseteq OutboundPending
  <1>0. (Enforce /\ Armed => Sets) => CapacityBounds'
    BY NoGrowth
  <1> HIDE DEF Sets
  <1>1. ASSUME NEW t \in Token, NEW d \in Dir, NEW c \in Cls \cup {None}, Reserve(t, d, c)
        PROVE  CapacityBounds'
    <2> SUFFICES ASSUME Enforce, Armed
                 PROVE  /\ Cardinality(ChargedAll') <= CPhys
                        /\ \A k \in Cls : Cardinality(ChargedOf(k)') <= Pool[k]
                        /\ Cardinality(InboundUnbound') <= CInbound
                        /\ Cardinality(OutboundPending') <= PPending
      BY DEF CapacityBounds
    <2> DEFINE kk == ClassFor(d, c)
    <2>1. PICK X \in Expirable : /\ Room(X, d, kk)
                                 /\ state' = [Swept(X) EXCEPT ![t] = "RESERVED"]
      BY <1>1 DEF Reserve
    <2>2. kk \in Cls
      BY DEF ClassFor
    <2>3. /\ dir' = [dir EXCEPT ![t] = d]
          /\ cls' = [cls EXCEPT ![t] = kk]
          /\ node' = node
          /\ state[t] = "FREE"
      BY <1>1 DEF Reserve
    <2> HIDE DEF kk
    <2>4. /\ state'[t] = "RESERVED" /\ dir'[t] = d /\ cls'[t] = kk
          /\ \A u \in Token \ {t} : /\ dir'[u] = dir[u] /\ cls'[u] = cls[u]
                                    /\ state'[u] = IF u \in X THEN "EXPIRED" ELSE state[u]
      BY <2>1, <2>3 DEF IndexInv, TypeOK, Swept
    <2>5. /\ ChargedAll \ X \in SUBSET Token
          /\ \A k \in Cls : ChargedOf(k) \ X \in SUBSET Token
          /\ InboundUnbound \ X \in SUBSET Token
          /\ OutboundPending \ X \in SUBSET Token
      BY DEF ChargedAll, ChargedOf, InboundUnbound, OutboundPending
    <2>6. Cardinality(ChargedAll') <= CPhys
      <3>1. ChargedAll' \subseteq (ChargedAll \ X) \cup {t}
        BY <2>4 DEF ChargedAll, Held
      <3>2. Cardinality(ChargedAll \ X) < CPhys
        BY <2>1 DEF Room
      <3> QED
        BY <2>5, <3>1, <3>2, RoomForOne
    <2>7. ASSUME NEW k \in Cls PROVE Cardinality(ChargedOf(k)') <= Pool[k]
      <3>0. Pool[k] \in Nat
        OBVIOUS
      <3>1. CASE k = kk
        <4>1. ChargedOf(k)' \subseteq (ChargedOf(k) \ X) \cup {t}
          BY <2>4 DEF ChargedOf, Held
        <4>2. Cardinality(ChargedOf(k) \ X) < Pool[k]
          BY <2>1, <2>2, <3>1 DEF Room
        <4> QED
          BY <2>5, <3>0, <4>1, <4>2, RoomForOne
      <3>2. CASE k # kk
        <4>1. ChargedOf(k)' \subseteq ChargedOf(k)
          BY <2>4, <3>2 DEF ChargedOf, Held
        <4>2. ChargedOf(k) \in SUBSET Token /\ Cardinality(ChargedOf(k)) <= Pool[k]
          BY DEF CapacityBounds, ChargedOf
        <4> QED
          BY <3>0, <4>1, <4>2, SubsetBound
      <3> QED
        BY <3>1, <3>2
    <2>8. Cardinality(InboundUnbound') <= CInbound
      <3>1. CASE d = "in"
        <4>1. InboundUnbound' \subseteq (InboundUnbound \ X) \cup {t}
          BY <2>3, <2>4 DEF InboundUnbound
        <4>2. Cardinality(InboundUnbound \ X) < CInbound
          BY <2>1, <3>1 DEF Room
        <4> QED
          BY <2>5, <4>1, <4>2, RoomForOne
      <3>2. CASE d # "in"
        <4>1. InboundUnbound' \subseteq InboundUnbound
          BY <2>3, <2>4, <3>2 DEF InboundUnbound
        <4>2. InboundUnbound \in SUBSET Token /\ Cardinality(InboundUnbound) <= CInbound
          BY DEF CapacityBounds, InboundUnbound
        <4> QED
          BY <4>1, <4>2, SubsetBound
      <3> QED
        BY <3>1, <3>2
    <2>9. Cardinality(OutboundPending') <= PPending
      <3>1. CASE d = "out"
        <4>1. OutboundPending' \subseteq (OutboundPending \ X) \cup {t}
          BY <2>4 DEF OutboundPending
        <4>2. Cardinality(OutboundPending \ X) < PPending
          BY <2>1, <3>1 DEF Room
        <4> QED
          BY <2>5, <4>1, <4>2, RoomForOne
      <3>2. CASE d # "out"
        <4>1. OutboundPending' \subseteq OutboundPending
          BY <2>4, <3>2 DEF OutboundPending
        <4>2. OutboundPending \in SUBSET Token /\ Cardinality(OutboundPending) <= PPending
          BY DEF CapacityBounds, OutboundPending
        <4> QED
          BY <4>1, <4>2, SubsetBound
      <3> QED
        BY <3>1, <3>2
    <2> QED
      BY <2>6, <2>7, <2>8, <2>9
  <1>2. ASSUME NEW d \in Dir, NEW c \in Cls \cup {None}, ReserveRefused(d, c)
        PROVE  CapacityBounds'
    <2>1. PICK X \in Expirable : state' = Swept(X)
      BY <1>2 DEF ReserveRefused
    <2>2. Sets
      BY <1>2, <2>1 DEF ReserveRefused, Swept, Sets, ChargedAll, ChargedOf, Held,
                        InboundUnbound, OutboundPending
    <2> QED
      BY <1>0, <2>2
  <1>3. ASSUME NEW t \in Token, Release(t) PROVE CapacityBounds'
    <2>1. Sets
      BY <1>3 DEF Release, Sets, ChargedAll, ChargedOf, Held, InboundUnbound,
                  OutboundPending, IndexInv, TypeOK
    <2> QED
      BY <1>0, <2>1
  <1>4. ASSUME NEW t \in Token, NEW m \in MeshId, Allocate(t, m) PROVE CapacityBounds'
    <2>1. Armed => Sets
      BY <1>4 DEF Allocate, Sets, ChargedAll, ChargedOf, Held, InboundUnbound,
                  OutboundPending, IndexInv, TypeOK
    <2> QED
      BY <1>0, <2>1
  <1>5. ASSUME NEW t \in Token, Negotiating(t) PROVE CapacityBounds'
    <2>1. Sets
      BY <1>5 DEF Negotiating, Sets, ChargedAll, ChargedOf, Held, InboundUnbound,
                  OutboundPending, IndexInv, TypeOK
    <2> QED
      BY <1>0, <2>1
  <1>6. ASSUME NEW t \in Token, Open(t) PROVE CapacityBounds'
    <2>1. Sets
      BY <1>6 DEF Open, Sets, ChargedAll, ChargedOf, Held, InboundUnbound,
                  OutboundPending, IndexInv, TypeOK
    <2> QED
      BY <1>0, <2>1
  <1>7. ASSUME NEW m \in MeshId, Bind(m) PROVE CapacityBounds'
    <2>1. Sets
      BY <1>7 DEF Bind, Sets, ChargedAll, ChargedOf, Held, InboundUnbound,
                  OutboundPending, IndexInv, TypeOK
    <2> QED
      BY <1>0, <2>1
  <1>8. ASSUME NEW m \in MeshId, Unbind(m) PROVE CapacityBounds'
    <2>1. PICK t \in Unbindable(m) :
             /\ node' = [node EXCEPT ![t] = None]
             /\ UNCHANGED <<state, dir, cls>>
      BY <1>8 DEF Unbind
    <2>2. t \in Token /\ state[t] \in {"OPEN", "CLOSING"}
      BY DEF Unbindable, BoundOf, IndexInv, TypeOK, BoundIsOpened
    <2>3. Sets
      BY <2>1, <2>2 DEF Sets, ChargedAll, ChargedOf, Held, InboundUnbound,
                        OutboundPending, IndexInv, TypeOK
    <2> QED
      BY <1>0, <2>3
  <1>9. ASSUME NEW t \in Token, Closing(t) PROVE CapacityBounds'
    <2>1. Sets
      BY <1>9 DEF Closing, Sets, ChargedAll, ChargedOf, Held, InboundUnbound,
                  OutboundPending, IndexInv, TypeOK
    <2> QED
      BY <1>0, <2>1
  <1>10. ASSUME NEW t \in Token, Reclass(t) PROVE CapacityBounds'
    <2> SUFFICES ASSUME Enforce, Armed PROVE CapacityBounds'
      BY DEF CapacityBounds
    <2>1. /\ Cardinality(ChargedOf("M")) < Pool["M"]
          /\ cls' = [cls EXCEPT ![t] = "M"]
          /\ UNCHANGED <<state, dir, node>>
      BY <1>10 DEF Reclass, PoolRoom
    <2>2. ChargedOf("M") \in SUBSET Token /\ ChargedOf("M")' \in SUBSET (ChargedOf("M") \cup {t})
      BY <2>1 DEF ChargedOf, IndexInv, TypeOK
    <2>3. Pool["M"] \in Nat /\ Pool["I"] \in Nat
      OBVIOUS
    <2>4. Cardinality(ChargedOf("M")') <= Pool["M"]
      BY <2>1, <2>2, <2>3, RoomForOne
    <2>5. ChargedOf("I")' \in SUBSET ChargedOf("I") /\ ChargedOf("I") \in SUBSET Token
      BY <2>1 DEF ChargedOf, IndexInv, TypeOK
    <2>6. Cardinality(ChargedOf("I")) <= Pool["I"]
      BY DEF CapacityBounds
    <2>7. Cardinality(ChargedOf("I")') <= Pool["I"]
      BY <2>3, <2>5, <2>6, SubsetBound
    <2>8. ChargedAll' = ChargedAll /\ InboundUnbound' = InboundUnbound /\ OutboundPending' = OutboundPending
      BY <2>1 DEF ChargedAll, InboundUnbound, OutboundPending
    <2> QED
      BY <2>4, <2>7, <2>8 DEF CapacityBounds
  <1>11. ASSUME NEW t \in Token, NEW a \in Token, ReclassDeferred(t, a) PROVE CapacityBounds'
    <2>1. Sets
      BY <1>11 DEF ReclassDeferred, Sets, ChargedAll, ChargedOf, InboundUnbound, OutboundPending
    <2> QED
      BY <1>0, <2>1
  <1>12. ASSUME NEW t \in Token, Gone(t) PROVE CapacityBounds'
    <2> SUFFICES ASSUME Enforce, Armed PROVE CapacityBounds'
      BY DEF CapacityBounds
    <2>1. PICK done \in SUBSET Waiting(t) : ApplyPending(t, done)
      BY <1>12 DEF Gone
    <2>2. /\ state' = [state EXCEPT ![t] = "GONE"]
          /\ node' = [node EXCEPT ![t] = None]
          /\ dir' = dir
          /\ cls' = [u \in Token |-> IF u \in done THEN "M" ELSE cls[u]]
      BY <1>12, <2>1 DEF Gone, ApplyPending
    <2>3. Pool["M"] \in Nat /\ Pool["I"] \in Nat
      OBVIOUS
    <2>4. /\ ChargedOf("M")' \in SUBSET ((ChargedOf("M") \ {t}) \cup done)
          /\ ChargedOf("M") \in SUBSET Token /\ done \in SUBSET Token
          /\ ChargedOf("I")' \in SUBSET ChargedOf("I") /\ ChargedOf("I") \in SUBSET Token
      BY <2>2 DEF ChargedOf, Held, Waiting, IndexInv, TypeOK
    <2>5. Cardinality(ChargedOf("M")') <= Pool["M"]
      <3>1. CASE done = {}
        <4>1. ChargedOf("M")' \in SUBSET ChargedOf("M") /\ Cardinality(ChargedOf("M")) <= Pool["M"]
          BY <2>4, <3>1 DEF CapacityBounds
        <4> QED
          BY <2>3, <2>4, <4>1, SubsetBound
      <3>2. CASE done # {}
        <4>1. Cardinality((ChargedOf("M") \ {t}) \cup done) <= Pool["M"]
          BY <2>1, <3>2 DEF ApplyPending
        <4>2. (ChargedOf("M") \ {t}) \cup done \in SUBSET Token
          BY <2>4
        <4> QED
          BY <2>3, <2>4, <4>1, <4>2, SubsetBound
      <3> QED
        BY <3>1, <3>2
    <2>6. Cardinality(ChargedOf("I")') <= Pool["I"]
      <3>1. Cardinality(ChargedOf("I")) <= Pool["I"]
        BY DEF CapacityBounds
      <3> QED
        BY <2>3, <2>4, <3>1, SubsetBound
    <2>7. /\ ChargedAll' \in SUBSET ChargedAll /\ ChargedAll \in SUBSET Token
          /\ InboundUnbound' \in SUBSET InboundUnbound /\ InboundUnbound \in SUBSET Token
          /\ OutboundPending' \in SUBSET OutboundPending /\ OutboundPending \in SUBSET Token
      BY <2>2 DEF ChargedAll, Held, InboundUnbound, OutboundPending, IndexInv, TypeOK
    <2>8. /\ Cardinality(ChargedAll) <= CPhys
          /\ Cardinality(InboundUnbound) <= CInbound
          /\ Cardinality(OutboundPending) <= PPending
      BY DEF CapacityBounds
    <2>9. /\ Cardinality(ChargedAll') <= CPhys
          /\ Cardinality(InboundUnbound') <= CInbound
          /\ Cardinality(OutboundPending') <= PPending
      BY <2>7, <2>8, SubsetBound
    <2> QED
      BY <2>5, <2>6, <2>9 DEF CapacityBounds
  <1>13. CASE UNCHANGED vars
    <2>1. Sets
      BY <1>13 DEF vars, Sets, ChargedAll, ChargedOf, InboundUnbound, OutboundPending
    <2> QED
      BY <1>0, <2>1
  <1> QED
    BY <1>1, <1>2, <1>3, <1>4, <1>5, <1>6, <1>7, <1>8, <1>9, <1>10, <1>11, <1>12, <1>13
    DEF Next

\* Nothing is charged initially.
LEMMA CapacityInit == Init => CapacityBounds
  <1> SUFFICES ASSUME Init PROVE CapacityBounds
    OBVIOUS
  <1>1. ChargedAll = {} /\ (\A k \in Cls : ChargedOf(k) = {}) /\ InboundUnbound = {} /\ OutboundPending = {}
    BY LedgerAssumption DEF Init, ChargedAll, ChargedOf, Held, InboundUnbound, OutboundPending
  <1> QED
    BY <1>1, FS_EmptySet, LedgerAssumption DEF CapacityBounds

\* An armed, enforcing ledger never exceeds the physical bound, a pool, the
\* inbound-unbound bound or the outbound-pending bound, reservations counted.
THEOREM CapacityNeverExceeded == Spec => []CapacityBounds
  <1>1. IndexInv /\ CapacityBounds /\ [Next]_vars => IndexInv' /\ CapacityBounds'
    BY IndexStep, CapacityStep
  <1> QED
    BY IndexInit, CapacityInit, <1>1, PTL DEF Spec

HIDE DEF Cls, Dir, State, LIVE, POINTABLE, PRE_OPEN

-----------------------------------------------------------------------------
(***************************************************************************)
(* Departures, one at a time.                                              *)
(***************************************************************************)
Stages == {"none", "resolve", "send", "window", "tail", "done"}
CustodyType == [kind : {"none", "root", "backup"}, body : BOOLEAN, of : Relay \cup {NoRelay}]
JobType == [stage : Stages, heir : Relay \cup {NoRelay}, alt : Relay \cup {NoRelay},
            round : 0..(HandoffTries - 1), acked : BOOLEAN]
FrameType == [kind : {"HANDOFF", "HANDOFFACK", "REPLICATE"}, from : Relay, to : Relay, ok : BOOLEAN]
CopyType == [from : Relay, to : Relay]

\* The message is safe with a root that runs.
Keeps(n) == Runs(n) /\ custody[n].kind = "root" /\ custody[n].body

\* Who departs has a job, and one node departs at a time.
Departing ==
    /\ \A n \in Relay : status[n] = "leaving" <=> job[n].stage # "none"
    /\ \A n \in Relay : job[n].stage = "none" => ~job[n].acked
    /\ \A m, n \in Relay : status[m] = "leaving" /\ status[n] = "leaving" => m = n

Sending == {"send", "window"}

\* A node hands over to another.
Others ==
    /\ \A n \in Relay : n \notin sees[n]
    /\ \A n \in Relay : job[n].heir # n /\ job[n].alt # n
    /\ \A n \in Relay : job[n].stage \in Sending => job[n].heir # NoRelay

\* A claim is handed over by a node on its way out, and an honest ack comes from
\* a node that keeps the message.
Acks ==
    /\ \A p \in post : p.kind = "HANDOFF" => p.from # p.to /\ status[p.from] # "up"
    /\ \A p \in post : p.kind = "HANDOFFACK" =>
          /\ p.from # p.to /\ status[p.to] # "up"
          /\ p.ok /\ Runs(p.to) => Keeps(p.from)

\* Somebody keeps the message; once the leaver may go, somebody else does.
Safe ==
    published /\ blame = {} =>
        /\ \E n \in Relay : Keeps(n)
        /\ \A n \in Relay : status[n] = "leaving" /\ (job[n].acked \/ job[n].stage = "done") =>
              \E h \in Relay \ {n} : Keeps(h)

LeaveInv == HoTypeOK /\ Departing /\ Others /\ Acks /\ Safe

LEMMA HandoffTypes ==
    HoTypeOK <=>
    /\ status \in [Relay -> {"up", "leaving", "gone"}] /\ custody \in [Relay -> CustodyType]
    /\ sees \in [Relay -> SUBSET Relay] /\ job \in [Relay -> JobType]
    /\ post \subseteq FrameType /\ inbox \subseteq CopyType
    /\ refused \in 0..MaxRefuse /\ dropped \in 0..MaxDrop
    /\ published \in BOOLEAN /\ blame \subseteq {"cutoff", "unacked", "dispatch"}
  BY DEF HoTypeOK, CustodyType, JobType, Stages, FrameType, CopyType

LEMMA HandoffTyped ==
  ASSUME status' \in [Relay -> {"up", "leaving", "gone"}], custody' \in [Relay -> CustodyType],
         sees' \in [Relay -> SUBSET Relay], job' \in [Relay -> JobType],
         post' \subseteq FrameType, inbox' \subseteq CopyType,
         refused' \in 0..MaxRefuse, dropped' \in 0..MaxDrop,
         published' \in BOOLEAN, blame' \subseteq {"cutoff", "unacked", "dispatch"}
  PROVE  HoTypeOK'
  BY DEF HoTypeOK, CustodyType, JobType, Stages, FrameType, CopyType

LEMMA NoJobs ==
    /\ NoRole \in CustodyType /\ NoJob \in JobType /\ NoRelay \notin Relay
    /\ NoJob.stage = "none" /\ NoJob.acked = FALSE /\ NoJob.heir = NoRelay /\ NoJob.alt = NoRelay
  BY HandoffAssumption DEF NoRole, NoJob, CustodyType, JobType, Stages

LEMMA LeaveInit == HoInit => LeaveInv
  <1> SUFFICES ASSUME HoInit PROVE LeaveInv
    OBVIOUS
  <1>1. HoTypeOK
    <2>1. status \in [Relay -> {"up", "leaving", "gone"}] /\ sees \in [Relay -> SUBSET Relay]
      BY DEF HoInit
    <2>2. custody \in [Relay -> CustodyType] /\ job \in [Relay -> JobType]
      BY NoJobs DEF HoInit
    <2>3. /\ post \subseteq FrameType /\ inbox \subseteq CopyType /\ published \in BOOLEAN
          /\ blame \subseteq {"cutoff", "unacked", "dispatch"}
      BY DEF HoInit
    <2>4. refused \in 0..MaxRefuse /\ dropped \in 0..MaxDrop
      BY HandoffAssumption DEF HoInit
    <2> QED
      BY <2>1, <2>2, <2>3, <2>4, HandoffTypes
  <1>2. Departing /\ Others
    BY NoJobs DEF HoInit, Departing, Others, Sending
  <1>3. Acks /\ Safe
    BY DEF HoInit, Acks, Safe
  <1> QED
    BY <1>1, <1>2, <1>3 DEF LeaveInv

\* While nobody departs, jobs are untouched and no claim is handed over, the rest
\* holds as long as whoever keeps the message keeps it.
LEMMA SteadyKeeps ==
  ASSUME LeaveInv, HoTypeOK', UNCHANGED <<status, job, published>>, blame \subseteq blame',
         \A n \in Relay : n \notin sees'[n],
         \A p \in post' : p \in post \/ p.kind = "REPLICATE",
         \A n \in Relay : Keeps(n) => Keeps(n)'
  PROVE  LeaveInv'
  <1>1. HoTypeOK /\ Departing /\ Others /\ Acks /\ Safe
    BY DEF LeaveInv
  <1>2. Departing' /\ Others'
    BY <1>1 DEF Departing, Others
  <1>3. ASSUME NEW p \in post', p.kind # "REPLICATE"
        PROVE  p \in post /\ p.from \in Relay /\ p.to \in Relay
    BY <1>1, <1>3, HandoffTypes DEF FrameType
  <1>4. Acks'
    BY <1>1, <1>3 DEF Acks, Runs
  <1>5. Safe'
    BY <1>1 DEF Safe
  <1> QED
    BY <1>2, <1>4, <1>5 DEF LeaveInv

LEMMA QuietSteps ==
  ASSUME LeaveInv, NEW n \in Relay, NEW m \in Relay, Replicate(n, m) \/ NoticeGone(n, m) \/ Promote(n)
  PROVE  LeaveInv'
  <1>1. HoTypeOK /\ Others
    BY DEF LeaveInv
  <1>2. custody \in [Relay -> CustodyType] /\ sees \in [Relay -> SUBSET Relay] /\ post \subseteq FrameType
    BY <1>1, HandoffTypes
  <1>3. CASE Replicate(n, m)
    <2>1. /\ post' = post \cup {Frame("REPLICATE", n, m)}
          /\ UNCHANGED <<status, custody, sees, job, inbox, published, refused, dropped, blame>>
      BY <1>3 DEF Replicate
    <2>2. Frame("REPLICATE", n, m) \in FrameType /\ Frame("REPLICATE", n, m).kind = "REPLICATE"
      BY DEF Frame, FrameType
    <2>3. HoTypeOK'
      BY <1>1, <1>2, <2>1, <2>2, HandoffTypes, HandoffTyped
    <2>4. (\A k \in Relay : k \notin sees'[k]) /\ (\A k \in Relay : Keeps(k) => Keeps(k)')
      BY <1>1, <2>1 DEF Others, Keeps, Runs
    <2> QED
      BY <2>1, <2>2, <2>3, <2>4, SteadyKeeps
  <1>4. CASE NoticeGone(n, m)
    <2>1. /\ sees' = [sees EXCEPT ![n] = @ \ {m}]
          /\ UNCHANGED <<status, custody, job, post, inbox, published, refused, dropped, blame>>
      BY <1>4 DEF NoticeGone
    <2>2. HoTypeOK'
      BY <1>1, <1>2, <2>1, HandoffTypes, HandoffTyped
    <2>3. (\A k \in Relay : k \notin sees'[k]) /\ (\A k \in Relay : Keeps(k) => Keeps(k)')
      BY <1>1, <1>2, <2>1 DEF Others, Keeps, Runs
    <2> QED
      BY <2>1, <2>2, <2>3, SteadyKeeps
  <1>5. CASE Promote(n)
    <2>1. /\ custody' = [custody EXCEPT ![n] = [kind |-> "root", body |-> custody[n].body, of |-> NoRelay]]
          /\ UNCHANGED <<status, sees, job, post, inbox, published, refused, dropped, blame>>
      BY <1>2, <1>5 DEF Promote
    <2>2. [kind |-> "root", body |-> custody[n].body, of |-> NoRelay] \in CustodyType
      BY <1>2 DEF CustodyType
    <2>3. HoTypeOK'
      BY <1>1, <1>2, <2>1, <2>2, HandoffTypes, HandoffTyped
    <2>4. \A k \in Relay : Keeps(k) => Keeps(k)'
      BY <1>2, <2>1 DEF Keeps, Runs
    <2> QED
      BY <1>1, <2>1, <2>3, <2>4, SteadyKeeps DEF Others
  <1> QED
    BY <1>3, <1>4, <1>5

LEMMA IngestKeeps ==
  ASSUME LeaveInv, NEW q \in inbox, Ingest(q)
  PROVE  LeaveInv'
  <1>1. HoTypeOK /\ Others
    BY DEF LeaveInv
  <1>2. custody \in [Relay -> CustodyType] /\ inbox \subseteq CopyType /\ q \in CopyType
    BY <1>1, HandoffTypes
  <1>3. PICK n \in Relay, m \in Relay : n = q.to /\ m = q.from
    BY <1>2 DEF CopyType
  <1> DEFINE taken == IF custody[n].kind = "root" THEN [custody[n] EXCEPT !.body = TRUE]
                      ELSE [kind |-> "backup", body |-> TRUE, of |-> m]
  <1>4. taken \in CustodyType /\ (custody[n].kind = "root" => taken.kind = "root" /\ taken.body)
    BY <1>2 DEF CustodyType
  <1>5. /\ custody' = [custody EXCEPT ![n] = taken] \/ custody' = custody
        /\ inbox' = inbox \ {q} /\ UNCHANGED <<status, sees, job, post, published, dropped, blame>>
    BY <1>2, <1>3 DEF Ingest
  <1>6. refused' \in 0..MaxRefuse
    BY <1>1, HandoffTypes, HandoffAssumption DEF Ingest, Refuses
  <1>7. custody' \in [Relay -> CustodyType]
    BY <1>2, <1>4, <1>5
  <1>8. HoTypeOK'
    BY <1>1, <1>2, <1>5, <1>6, <1>7, HandoffTypes, HandoffTyped
  <1> HIDE DEF taken
  <1>9. \A k \in Relay : Keeps(k) => Keeps(k)'
    <2>1. custody'[n] \in {custody[n], taken} /\ \A k \in Relay \ {n} : custody'[k] = custody[k]
      BY <1>2, <1>5
    <2> QED
      BY <1>4, <1>5, <2>1 DEF Keeps, Runs
  <1>10. UNCHANGED <<status, job, published>> /\ blame \subseteq blame' /\ (\A k \in Relay : k \notin sees'[k])
         /\ (\A p \in post' : p \in post)
    BY <1>1, <1>5 DEF Others
  <1> QED
    BY <1>8, <1>9, <1>10, SteadyKeeps

LEMMA LossKeeps ==
  ASSUME LeaveInv, NEW p \in post, LoseFrame(p)
  PROVE  LeaveInv'
  <1>1. HoTypeOK /\ Others
    BY DEF LeaveInv
  <1>2. post' = post \ {p} /\ UNCHANGED <<status, custody, sees, job, inbox, published, refused, blame>>
    BY DEF LoseFrame
  <1>3. dropped' \in 0..MaxDrop
    BY <1>1, HandoffTypes, HandoffAssumption DEF LoseFrame
  <1>4. HoTypeOK'
    BY <1>1, <1>2, <1>3, HandoffTypes, HandoffTyped
  <1>5. (\A k \in Relay : k \notin sees'[k]) /\ (\A k \in Relay : Keeps(k) => Keeps(k)')
    BY <1>1, <1>2 DEF Others, Keeps, Runs
  <1> QED
    BY <1>2, <1>4, <1>5, SteadyKeeps

\* The job of the node on its way out moves on; it sends copies, or its claim.
LEMMA JobKeeps ==
  ASSUME LeaveInv, NEW n \in Relay, NEW j \in JobType, status[n] = "leaving", job' = [job EXCEPT ![n] = j],
         j.stage # "none", j.heir # n, j.alt # n, j.stage \in Sending => j.heir # NoRelay,
         published /\ blame' = {} /\ (j.acked \/ j.stage = "done") => \E h \in Relay \ {n} : Keeps(h),
         post' \subseteq FrameType,
         \A p \in post' : p \in post \/ p.kind = "REPLICATE" \/ (p.kind = "HANDOFF" /\ p.from = n /\ p.to # n),
         inbox' \subseteq CopyType, blame \subseteq blame', blame' \subseteq {"cutoff", "unacked", "dispatch"},
         UNCHANGED <<status, custody, sees, published, refused, dropped>>
  PROVE  LeaveInv'
  <1>1. HoTypeOK /\ Departing /\ Others /\ Acks /\ Safe
    BY DEF LeaveInv
  <1>2. job \in [Relay -> JobType]
    BY <1>1, HandoffTypes
  <1>3. job'[n] = j /\ (\A m \in Relay \ {n} : job'[m] = job[m]) /\ job' \in [Relay -> JobType]
    BY <1>2
  <1>4. HoTypeOK'
    BY <1>1, <1>3, HandoffTypes, HandoffTyped
  <1>5. Departing'
    BY <1>1, <1>3 DEF Departing
  <1>6. Others'
    BY <1>1, <1>3 DEF Others
  <1>7. \A k \in Relay : Keeps(k)' <=> Keeps(k)
    BY DEF Keeps, Runs
  <1>8. Acks'
    <2>1. ASSUME NEW p \in post', p.kind = "HANDOFF"
          PROVE  p.from # p.to /\ status'[p.from] # "up"
      BY <2>1, <1>1 DEF Acks
    <2>2. ASSUME NEW p \in post', p.kind = "HANDOFFACK"
          PROVE  /\ p.from # p.to /\ status'[p.to] # "up"
                 /\ p.ok /\ Runs(p.to)' => Keeps(p.from)'
      <3>1. p \in post /\ p.from \in Relay
        BY <2>2 DEF FrameType
      <3> QED
        BY <2>2, <3>1, <1>1, <1>7 DEF Acks, Runs
    <2> QED
      BY <2>1, <2>2 DEF Acks
  <1>9. Safe'
    <2> SUFFICES ASSUME published, blame' = {}
                 PROVE  /\ \E m \in Relay : Keeps(m)
                        /\ \A m \in Relay : status[m] = "leaving" /\ (job'[m].acked \/ job'[m].stage = "done") =>
                              \E h \in Relay \ {m} : Keeps(h)
      BY <1>7 DEF Safe
    <2>1. blame = {}
      OBVIOUS
    <2>2. \E m \in Relay : Keeps(m)
      BY <1>1, <2>1 DEF Safe
    <2>3. ASSUME NEW m \in Relay, status[m] = "leaving", job'[m].acked \/ job'[m].stage = "done"
          PROVE  \E h \in Relay \ {m} : Keeps(h)
      <3>1. CASE m = n
        BY <2>3, <3>1, <1>3
      <3>2. CASE m # n
        BY <2>1, <2>3, <3>2, <1>1, <1>3 DEF Safe
      <3> QED
        BY <3>1, <3>2
    <2> QED
      BY <2>2, <2>3
  <1> QED
    BY <1>4, <1>5, <1>6, <1>8, <1>9 DEF LeaveInv

\* What a job tells of its node.
LEMMA OnTheWayOut ==
  ASSUME LeaveInv, NEW n \in Relay, job[n].stage # "none"
  PROVE  /\ status[n] = "leaving" /\ job[n] \in JobType /\ job[n].heir # n /\ job[n].alt # n /\ n \notin sees[n]
         /\ job[n].stage \in Sending => job[n].heir \in Relay
         /\ published /\ blame = {} /\ job[n].acked => \E h \in Relay \ {n} : Keeps(h)
  <1>1. HoTypeOK /\ Departing /\ Others /\ Safe
    BY DEF LeaveInv
  <1>2. job[n] \in JobType
    BY <1>1, HandoffTypes
  <1> QED
    BY <1>1, <1>2 DEF Departing, Others, Safe, JobType

LEMMA Pushing ==
  ASSUME LeaveInv, NEW n \in Relay, NEW h \in Relay \ {n}, NEW a \in (Relay \ {n}) \cup {NoRelay}
  PROVE  \A p \in Pushes(n, h, a) :
            p \in FrameType /\ (p.kind = "REPLICATE" \/ (p.kind = "HANDOFF" /\ p.from = n /\ p.to # n))
  <1>1. Frame("HANDOFF", n, h) \in FrameType /\ Frame("HANDOFF", n, h).kind = "HANDOFF"
        /\ Frame("HANDOFF", n, h).from = n /\ Frame("HANDOFF", n, h).to = h
    BY DEF Frame, FrameType
  <1>2. \A m \in Relay : Frame("REPLICATE", n, m) \in FrameType /\ Frame("REPLICATE", n, m).kind = "REPLICATE"
    BY DEF Frame, FrameType
  <1> QED
    BY <1>1, <1>2 DEF Pushes

LEMMA ResolveKeeps ==
  ASSUME LeaveInv, NEW n \in Relay, ResolveHeirs(n)
  PROVE  LeaveInv'
  <1>1. HoTypeOK
    BY DEF LeaveInv
  <1>2. job[n].stage = "resolve" /\ UNCHANGED <<status, custody, sees, post, inbox, published, refused, dropped, blame>>
    BY DEF ResolveHeirs
  <1>3. /\ status[n] = "leaving" /\ job[n] \in JobType /\ job[n].heir # n /\ job[n].alt # n /\ n \notin sees[n]
        /\ published /\ blame = {} /\ job[n].acked => \E h \in Relay \ {n} : Keeps(h)
    BY <1>2, OnTheWayOut
  <1>4. sees[n] \subseteq Relay /\ post \subseteq FrameType /\ inbox \subseteq CopyType /\ blame \subseteq {"cutoff", "unacked", "dispatch"}
    BY <1>1, HandoffTypes
  <1>5. PICK h \in (Relay \ {n}) \cup {job[n].heir}, a \in (Relay \ {n}) \cup {NoRelay, job[n].alt}, st \in {"send", "tail"} :
          /\ st = "send" => h \in Relay
          /\ job' = [job EXCEPT ![n] = [job[n] EXCEPT !.stage = st, !.heir = h, !.alt = a]]
    <2> DEFINE known == IF sees[n] # {} THEN sees[n] ELSE {m \in Relay \ {n} : Runs(m)}
    <2>1. known \subseteq Relay \ {n}
      BY <1>3, <1>4
    <2>2. \/ \E h \in known : \E a \in (known \ {h}) \cup (IF known = {h} THEN {NoRelay} ELSE {}) :
                job' = [job EXCEPT ![n] = [job[n] EXCEPT !.stage = "send", !.heir = h, !.alt = a]]
          \/ job' = [job EXCEPT ![n].stage = "tail"]
      <3>1. job \in [Relay -> JobType]
        BY <1>1, HandoffTypes
      <3> QED
        BY <3>1 DEF ResolveHeirs
    <2> HIDE DEF known
    <2>3. CASE job' = [job EXCEPT ![n].stage = "tail"]
      <3>1. job \in [Relay -> JobType]
        BY <1>1, HandoffTypes
      <3>2. [job[n] EXCEPT !.stage = "tail"] = [job[n] EXCEPT !.stage = "tail", !.heir = job[n].heir, !.alt = job[n].alt]
        BY <1>3 DEF JobType
      <3>3. job' = [job EXCEPT ![n] = [job[n] EXCEPT !.stage = "tail", !.heir = job[n].heir, !.alt = job[n].alt]]
        BY <2>3, <3>1, <3>2
      <3> QED
        BY <3>3
    <2>4. CASE \E h \in known : \E a \in (known \ {h}) \cup (IF known = {h} THEN {NoRelay} ELSE {}) :
                job' = [job EXCEPT ![n] = [job[n] EXCEPT !.stage = "send", !.heir = h, !.alt = a]]
      <3>1. PICK h \in Relay \ {n}, a \in (Relay \ {n}) \cup {NoRelay} :
              job' = [job EXCEPT ![n] = [job[n] EXCEPT !.stage = "send", !.heir = h, !.alt = a]]
        BY <2>1, <2>4
      <3> QED
        BY <3>1
    <2> QED
      BY <2>2, <2>3, <2>4
  <1>6. PICK j \in JobType : j = [job[n] EXCEPT !.stage = st, !.heir = h, !.alt = a]
    BY <1>3 DEF JobType, Stages
  <1>7. j.stage = st /\ j.heir = h /\ j.alt = a /\ j.acked = job[n].acked
    BY <1>3, <1>6 DEF JobType
  <1>8. job' = [job EXCEPT ![n] = j] /\ j.stage \notin {"none", "done"} /\ j.heir # n /\ j.alt # n
        /\ (j.stage \in Sending => j.heir # NoRelay)
    BY <1>3, <1>5, <1>6, <1>7, NoJobs DEF Sending
  <1> QED
    BY <1>2, <1>3, <1>4, <1>7, <1>8, JobKeeps

LEMMA SendKeeps ==
  ASSUME LeaveInv, NEW n \in Relay, SendRound(n)
  PROVE  LeaveInv'
  <1>1. HoTypeOK
    BY DEF LeaveInv
  <1>2. job[n].stage = "send" /\ UNCHANGED <<status, custody, sees, inbox, published, refused, dropped, blame>>
    BY DEF SendRound
  <1>3. /\ status[n] = "leaving" /\ job[n] \in JobType /\ job[n].heir # n /\ job[n].alt # n /\ n \notin sees[n]
        /\ job[n].heir \in Relay
        /\ published /\ blame = {} /\ job[n].acked => \E h \in Relay \ {n} : Keeps(h)
    BY <1>2, OnTheWayOut DEF Sending
  <1>4. sees[n] \subseteq Relay /\ post \subseteq FrameType /\ inbox \subseteq CopyType /\ blame \subseteq {"cutoff", "unacked", "dispatch"}
    BY <1>1, HandoffTypes
  <1>5. PICK h \in Relay \ {n}, a \in (Relay \ {n}) \cup {NoRelay} :
          /\ job' = [job EXCEPT ![n] = [job[n] EXCEPT !.stage = "window", !.heir = h, !.alt = a]]
          /\ post' = post \cup Pushes(n, h, a)
    <2>1. PICK h \in {job[n].heir} \cup (IF job[n].round > 0 THEN sees[n] ELSE {}) :
            LET a == IF h = job[n].heir THEN job[n].alt ELSE job[n].heir
            IN  /\ job' = [job EXCEPT ![n] = [job[n] EXCEPT !.stage = "window", !.heir = h, !.alt = a]]
                /\ post' = post \cup Pushes(n, h, a)
      <3>1. job \in [Relay -> JobType]
        BY <1>1, HandoffTypes
      <3> QED
        BY <3>1 DEF SendRound
    <2>2. h \in Relay \ {n}
      BY <2>1, <1>3, <1>4
    <2>3. job[n].alt \in (Relay \ {n}) \cup {NoRelay}
      BY <1>3 DEF JobType
    <2> QED
      BY <2>1, <2>2, <2>3, <1>3
  <1>6. PICK j \in JobType : j = [job[n] EXCEPT !.stage = "window", !.heir = h, !.alt = a]
    BY <1>3 DEF JobType, Stages
  <1>7. j.stage = "window" /\ j.heir = h /\ j.alt = a /\ j.acked = job[n].acked
    BY <1>3, <1>6 DEF JobType
  <1>8. \A p \in Pushes(n, h, a) :
            p \in FrameType /\ (p.kind = "REPLICATE" \/ (p.kind = "HANDOFF" /\ p.from = n /\ p.to # n))
    BY Pushing
  <1>9. job' = [job EXCEPT ![n] = j] /\ j.stage \notin {"none", "done"} /\ j.heir # n /\ j.alt # n
        /\ j.heir # NoRelay
    BY <1>5, <1>6, <1>7, NoJobs
  <1>10. /\ post' \subseteq FrameType
         /\ \A p \in post' : p \in post \/ p.kind = "REPLICATE" \/ (p.kind = "HANDOFF" /\ p.from = n /\ p.to # n)
    BY <1>4, <1>5, <1>8
  <1> QED
    BY <1>2, <1>3, <1>4, <1>7, <1>9, <1>10, JobKeeps

LEMMA WindowKeeps ==
  ASSUME LeaveInv, NEW n \in Relay, WindowEnds(n)
  PROVE  LeaveInv'
  <1>1. HoTypeOK
    BY DEF LeaveInv
  <1>2. job[n].stage = "window" /\ UNCHANGED <<status, custody, sees, post, inbox, published, refused, dropped, blame>>
    BY DEF WindowEnds
  <1>3. /\ status[n] = "leaving" /\ job[n] \in JobType /\ job[n].heir # n /\ job[n].alt # n
        /\ job[n].heir \in Relay
        /\ published /\ blame = {} /\ job[n].acked => \E h \in Relay \ {n} : Keeps(h)
    BY <1>2, OnTheWayOut DEF Sending
  <1>4. post \subseteq FrameType /\ inbox \subseteq CopyType /\ blame \subseteq {"cutoff", "unacked", "dispatch"}
        /\ job \in [Relay -> JobType]
    BY <1>1, HandoffTypes
  <1> DEFINE j == IF job[n].acked \/ job[n].round + 1 >= HandoffTries THEN [job[n] EXCEPT !.stage = "tail"]
                  ELSE [job[n] EXCEPT !.stage = "send", !.round = job[n].round + 1]
  <1>5. job' = [job EXCEPT ![n] = j]
    <2>1. CASE job[n].acked \/ job[n].round + 1 >= HandoffTries
      <3>1. job' = [job EXCEPT ![n] = [job[n] EXCEPT !.stage = "tail"]]
        BY <1>4, <2>1 DEF WindowEnds
      <3> QED
        BY <2>1, <3>1
    <2>2. CASE ~(job[n].acked \/ job[n].round + 1 >= HandoffTries)
      <3>1. job' = [job EXCEPT ![n] = [job[n] EXCEPT !.stage = "send", !.round = job[n].round + 1]]
        BY <1>3, <1>4, <2>2 DEF WindowEnds
      <3> QED
        BY <2>2, <3>1
    <2> QED
      BY <2>1, <2>2
  <1>6. j \in JobType /\ j.stage \in {"tail", "send"} /\ j.heir = job[n].heir /\ j.alt = job[n].alt /\ j.acked = job[n].acked
    <2>1. job[n].round + 1 < HandoffTries => job[n].round + 1 \in 0..(HandoffTries - 1)
      BY <1>3, HandoffAssumption DEF JobType
    <2>2. CASE job[n].acked \/ job[n].round + 1 >= HandoffTries
      BY <2>2, <1>3 DEF JobType, Stages
    <2>3. CASE ~(job[n].acked \/ job[n].round + 1 >= HandoffTries)
      <3>1. job[n].round + 1 \in 0..(HandoffTries - 1)
        BY <2>1, <2>3, <1>3, HandoffAssumption DEF JobType
      <3>2. j = [job[n] EXCEPT !.stage = "send", !.round = job[n].round + 1]
        BY <2>3
      <3> QED
        BY <3>1, <3>2, <1>3 DEF JobType, Stages
    <2> QED
      BY <2>2, <2>3
  <1> HIDE DEF j
  <1>7. j.stage \notin {"none", "done"} /\ j.heir # n /\ j.alt # n /\ (j.stage \in Sending => j.heir # NoRelay)
    BY <1>3, <1>6, NoJobs
  <1> QED
    BY <1>2, <1>3, <1>4, <1>5, <1>6, <1>7, JobKeeps

LEMMA LastKeeps ==
  ASSUME LeaveInv, NEW n \in Relay, LastPush(n)
  PROVE  LeaveInv'
  <1>1. HoTypeOK
    BY DEF LeaveInv
  <1>2. job[n].stage = "tail" /\ UNCHANGED <<status, custody, sees, inbox, published, refused, dropped>>
    BY DEF LastPush
  <1>3. /\ status[n] = "leaving" /\ job[n] \in JobType /\ job[n].heir # n /\ job[n].alt # n
        /\ published /\ blame = {} /\ job[n].acked => \E h \in Relay \ {n} : Keeps(h)
    BY <1>2, OnTheWayOut
  <1>4. post \subseteq FrameType /\ inbox \subseteq CopyType /\ blame \subseteq {"cutoff", "unacked", "dispatch"}
    BY <1>1, HandoffTypes
  <1>5. PICK j \in JobType : j = [NoJob EXCEPT !.stage = "done"]
    BY NoJobs DEF JobType, Stages
  <1>6. j.stage = "done" /\ j.heir = NoRelay /\ j.alt = NoRelay
    BY <1>5 DEF NoJob
  <1>7. job' = [job EXCEPT ![n] = j] /\ blame' = (IF job[n].acked THEN blame ELSE blame \cup {"unacked"})
    BY <1>5 DEF LastPush
  <1>8. post' = post \/ \E t \in Relay \ {n} : post' = post \cup Pushes(n, t, NoRelay)
    <2>1. (job[n].alt # NoRelay => job[n].alt \in Relay \ {n}) /\ (job[n].heir # NoRelay => job[n].heir \in Relay \ {n})
      BY <1>3 DEF JobType
    <2> DEFINE t == IF job[n].alt # NoRelay THEN job[n].alt ELSE job[n].heir
    <2>2. post' = IF job[n].acked \/ t = NoRelay THEN post ELSE post \cup Pushes(n, t, NoRelay)
      BY DEF LastPush
    <2>3. t # NoRelay => t \in Relay \ {n}
      BY <2>1
    <2> HIDE DEF t
    <2> QED
      BY <2>2, <2>3
  <1>9. \A t \in Relay \ {n} : \A p \in Pushes(n, t, NoRelay) :
            p \in FrameType /\ (p.kind = "REPLICATE" \/ (p.kind = "HANDOFF" /\ p.from = n /\ p.to # n))
    BY Pushing
  <1>10. /\ post' \subseteq FrameType
         /\ \A p \in post' : p \in post \/ p.kind = "REPLICATE" \/ (p.kind = "HANDOFF" /\ p.from = n /\ p.to # n)
    BY <1>4, <1>8, <1>9
  <1>11. /\ j.stage # "none" /\ j.heir # n /\ j.alt # n /\ (j.stage \in Sending => j.heir # NoRelay)
         /\ blame \subseteq blame' /\ blame' \subseteq {"cutoff", "unacked", "dispatch"}
         /\ (blame' = {} => blame = {} /\ job[n].acked)
    BY <1>4, <1>6, <1>7, NoJobs DEF Sending
  <1>12. inbox' \subseteq CopyType
    BY <1>2, <1>4
  <1> QED
    BY <1>2, <1>3, <1>7, <1>10, <1>11, <1>12, JobKeeps

\* What is acked is kept by who acked it.
LEMMA AckKeeps ==
  ASSUME LeaveInv, NEW p \in post, OnHandoffAck(p)
  PROVE  LeaveInv'
  <1>1. HoTypeOK /\ Others /\ Acks
    BY DEF LeaveInv
  <1>2. post \subseteq FrameType /\ inbox \subseteq CopyType /\ blame \subseteq {"cutoff", "unacked", "dispatch"}
        /\ job \in [Relay -> JobType]
    BY <1>1, HandoffTypes
  <1>3. PICK n \in Relay, h \in Relay : n = p.to /\ h = p.from
    BY <1>2 DEF FrameType
  <1>4. /\ p.kind = "HANDOFFACK" /\ Runs(n) /\ post' = post \ {p}
        /\ UNCHANGED <<status, custody, sees, inbox, published, refused, dropped, blame>>
    BY <1>3 DEF OnHandoffAck
  <1>5. h # n /\ (p.ok => Keeps(h))
    BY <1>1, <1>3, <1>4 DEF Acks
  <1>6. CASE AckCounts(p) /\ job[n].stage # "none"
    <2>1. job' = [job EXCEPT ![n].acked = TRUE] /\ Keeps(h)
      BY <1>3, <1>5, <1>6 DEF OnHandoffAck, AckCounts
    <2>2. /\ status[n] = "leaving" /\ job[n] \in JobType /\ job[n].heir # n /\ job[n].alt # n
          /\ (job[n].stage \in Sending => job[n].heir \in Relay)
      BY <1>6, OnTheWayOut
    <2>3. PICK j \in JobType : j = [job[n] EXCEPT !.acked = TRUE]
      BY <2>2 DEF JobType
    <2>4. j.stage = job[n].stage /\ j.heir = job[n].heir /\ j.alt = job[n].alt
      BY <2>2, <2>3 DEF JobType
    <2>5. job' = [job EXCEPT ![n] = j]
      BY <1>2, <2>1, <2>3
    <2>6. /\ j.stage # "none" /\ j.heir # n /\ j.alt # n /\ (j.stage \in Sending => j.heir # NoRelay)
          /\ h \in Relay \ {n} /\ post' \subseteq FrameType /\ inbox' \subseteq CopyType
          /\ blame \subseteq blame' /\ blame' \subseteq {"cutoff", "unacked", "dispatch"}
          /\ \A q \in post' : q \in post
      BY <1>2, <1>4, <1>5, <1>6, <2>2, <2>4, NoJobs
    <2> QED
      BY <1>4, <2>1, <2>2, <2>5, <2>6, JobKeeps
  <1>7. CASE ~(AckCounts(p) /\ job[n].stage # "none")
    <2>1. job' = job
      BY <1>3, <1>7 DEF OnHandoffAck
    <2>2. HoTypeOK'
      BY <1>1, <1>4, <2>1, HandoffTypes, HandoffTyped
    <2>3. (\A k \in Relay : k \notin sees'[k]) /\ (\A k \in Relay : Keeps(k) => Keeps(k)')
      BY <1>1, <1>4 DEF Others, Keeps, Runs
    <2> QED
      BY <1>4, <2>1, <2>2, <2>3, SteadyKeeps
  <1> QED
    BY <1>6, <1>7

LEMMA ReplicaKeeps ==
  ASSUME LeaveInv, NEW p \in post, OnReplicate(p)
  PROVE  LeaveInv'
  <1>1. HoTypeOK /\ Others
    BY DEF LeaveInv
  <1>2. post \subseteq FrameType /\ inbox \subseteq CopyType /\ blame \subseteq {"cutoff", "unacked", "dispatch"}
        /\ job \in [Relay -> JobType]
    BY <1>1, HandoffTypes
  <1>3. PICK n \in Relay, m \in Relay : n = p.from /\ m = p.to
    BY <1>2 DEF FrameType
  <1>4. /\ post' = post \ {p} /\ inbox' = inbox \cup {[from |-> n, to |-> m]}
        /\ UNCHANGED <<status, custody, sees, published, refused, dropped>>
    BY <1>3 DEF OnReplicate
  <1>5. inbox' \subseteq CopyType
    BY <1>2, <1>4 DEF CopyType
  <1>6. CASE job[n].stage \in Sending /\ job' = [job EXCEPT ![n].acked = TRUE] /\ blame' = blame \cup {"dispatch"}
    <2>1. /\ status[n] = "leaving" /\ job[n] \in JobType /\ job[n].heir # n /\ job[n].alt # n
          /\ job[n].heir \in Relay
      BY <1>6, OnTheWayOut DEF Sending
    <2>2. PICK j \in JobType : j = [job[n] EXCEPT !.acked = TRUE]
      BY <2>1 DEF JobType
    <2>3. j.stage = job[n].stage /\ j.heir = job[n].heir /\ j.alt = job[n].alt
      BY <2>1, <2>2 DEF JobType
    <2>4. job' = [job EXCEPT ![n] = j]
      BY <1>2, <1>6, <2>2
    <2>5. /\ j.stage # "none" /\ j.heir # n /\ j.alt # n /\ j.heir # NoRelay
          /\ post' \subseteq FrameType /\ blame' # {}
          /\ blame \subseteq blame' /\ blame' \subseteq {"cutoff", "unacked", "dispatch"}
          /\ \A q \in post' : q \in post
      BY <1>2, <1>4, <1>6, <2>1, <2>3, NoJobs DEF Sending
    <2> QED
      BY <1>4, <1>5, <2>1, <2>4, <2>5, JobKeeps
  <1>7. CASE UNCHANGED <<job, blame>>
    <2>1. HoTypeOK'
      BY <1>1, <1>2, <1>4, <1>5, <1>7, HandoffTypes, HandoffTyped
    <2>2. (\A k \in Relay : k \notin sees'[k]) /\ (\A k \in Relay : Keeps(k) => Keeps(k)')
      BY <1>1, <1>4 DEF Others, Keeps, Runs
    <2> QED
      BY <1>4, <1>7, <2>1, <2>2, SteadyKeeps
  <1> QED
    BY <1>3, <1>6, <1>7 DEF OnReplicate, Sending

\* The topic's first root is a node that stays.
LEMMA PublishKeeps ==
  ASSUME LeaveInv, NEW n \in Relay, Publish(n)
  PROVE  LeaveInv'
  <1>1. HoTypeOK /\ Departing /\ Others /\ Acks /\ Safe
    BY DEF LeaveInv
  <1>2. custody \in [Relay -> CustodyType] /\ post \subseteq FrameType /\ inbox \subseteq CopyType
    BY <1>1, HandoffTypes
  <1>3. /\ status[n] = "up" /\ published' = TRUE
        /\ custody' = [custody EXCEPT ![n] = [kind |-> "root", body |-> TRUE, of |-> NoRelay]]
        /\ UNCHANGED <<status, sees, job, post, inbox, refused, dropped, blame>>
    BY DEF Publish
  <1>4. [kind |-> "root", body |-> TRUE, of |-> NoRelay] \in CustodyType
    BY DEF CustodyType
  <1>5. custody' \in [Relay -> CustodyType]
    BY <1>2, <1>3, <1>4
  <1>6. HoTypeOK'
    BY <1>1, <1>3, <1>5, HandoffTypes, HandoffTyped
  <1>7. Departing' /\ Others'
    BY <1>1, <1>3 DEF Departing, Others
  <1>8. Keeps(n)' /\ \A k \in Relay : Keeps(k) => Keeps(k)'
    BY <1>2, <1>3 DEF Keeps, Runs
  <1>9. \A p \in post' : p \in post /\ p.from \in Relay /\ p.to \in Relay
    BY <1>2, <1>3 DEF FrameType
  <1>10. Acks'
    BY <1>1, <1>3, <1>8, <1>9 DEF Acks, Runs
  <1>11. Safe'
    <2>1. \A m \in Relay : status'[m] = "leaving" => n \in Relay \ {m}
      BY <1>3
    <2> QED
      BY <1>8, <2>1 DEF Safe
  <1> QED
    BY <1>6, <1>7, <1>10, <1>11 DEF LeaveInv

\* Who leaves with nothing to hand over is not the one that keeps the message.
LEMMA LeaveKeeps ==
  ASSUME MaxLeaving <= 1, LeaveInv, NEW n \in Relay, Leave(n)
  PROVE  LeaveInv'
  <1>1. HoTypeOK /\ Departing /\ Others /\ Acks /\ Safe
    BY DEF LeaveInv
  <1>2. /\ status \in [Relay -> {"up", "leaving", "gone"}] /\ job \in [Relay -> JobType] /\ post \subseteq FrameType
        /\ job[n] \in JobType
    BY <1>1, HandoffTypes
  <1> DEFINE stage == IF custody[n].body /\ (custody[n].kind = "root" \/ ~RootAliveForLeave(n)) THEN "resolve" ELSE "done"
             j == [job[n] EXCEPT !.stage = stage]
  <1>3. /\ status[n] = "up" /\ status' = [status EXCEPT ![n] = "leaving"] /\ job' = [job EXCEPT ![n] = j]
        /\ UNCHANGED <<custody, sees, post, inbox, published, refused, dropped, blame>>
    <2>1. job' = [job EXCEPT ![n].stage = stage]
      BY DEF Leave
    <2> HIDE DEF stage
    <2>2. job' = [job EXCEPT ![n] = j]
      BY <1>2, <2>1
    <2> QED
      BY <2>2 DEF Leave
  <1>4. stage \in {"resolve", "done"} /\ (stage = "done" => ~Keeps(n))
    BY DEF Keeps
  <1> HIDE DEF stage
  <1>5. j \in JobType /\ j.stage = stage /\ j.heir = job[n].heir /\ j.alt = job[n].alt /\ j.acked = job[n].acked
    BY <1>2, <1>4 DEF JobType, Stages
  <1> HIDE DEF j
  <1>6. job[n].stage = "none" /\ ~job[n].acked
    BY <1>1, <1>3 DEF Departing
  <1>7. /\ job'[n] = j /\ (\A m \in Relay \ {n} : job'[m] = job[m]) /\ job' \in [Relay -> JobType]
        /\ status'[n] = "leaving" /\ (\A m \in Relay \ {n} : status'[m] = status[m])
        /\ status' \in [Relay -> {"up", "leaving", "gone"}]
    BY <1>2, <1>3, <1>5
  <1>8. HoTypeOK'
    BY <1>1, <1>3, <1>7, HandoffTypes, HandoffTyped
  <1>9. \A m \in Relay : status[m] # "leaving"
    <2> DEFINE L == {m \in Relay : status[m] = "leaving"}
    <2>1. IsFiniteSet(L)
      BY HandoffAssumption, FS_Subset
    <2>2. Cardinality(L) < MaxLeaving /\ Cardinality(L) \in Nat
      BY <2>1, FS_CardinalityType DEF Leave
    <2>3. Cardinality(L) = 0
      BY <2>2, HandoffAssumption
    <2>4. L = {}
      BY <2>1, <2>3, FS_EmptySet
    <2> QED
      BY <2>4
  <1>10. Departing'
    BY <1>1, <1>4, <1>5, <1>6, <1>7, <1>9 DEF Departing
  <1>11. Others'
    BY <1>1, <1>3, <1>4, <1>5, <1>7 DEF Others, Sending
  <1>12. \A k \in Relay : Keeps(k)' <=> Keeps(k)
    BY <1>3, <1>7 DEF Keeps, Runs
  <1>13. Acks'
    <2>1. \A p \in post' : p \in post /\ p.from \in Relay /\ p.to \in Relay
      BY <1>2, <1>3 DEF FrameType
    <2>2. \A m \in Relay : (status[m] # "up" => status'[m] # "up") /\ (Runs(m)' => Runs(m))
      BY <1>3, <1>7 DEF Runs
    <2> QED
      BY <1>1, <1>12, <2>1, <2>2 DEF Acks
  <1>14. Safe'
    <2> SUFFICES ASSUME published, blame = {}
                 PROVE  /\ \E m \in Relay : Keeps(m)
                        /\ \A m \in Relay : status'[m] = "leaving" /\ (job'[m].acked \/ job'[m].stage = "done") =>
                              \E h \in Relay \ {m} : Keeps(h)
      BY <1>3, <1>12 DEF Safe
    <2>1. PICK k \in Relay : Keeps(k)
      BY <1>1 DEF Safe
    <2>2. ASSUME NEW m \in Relay, status'[m] = "leaving", job'[m].acked \/ job'[m].stage = "done"
          PROVE  \E h \in Relay \ {m} : Keeps(h)
      <3>1. m = n
        BY <2>2, <1>7, <1>9
      <3>2. j.stage = "done"
        BY <2>2, <3>1, <1>5, <1>6, <1>7
      <3>3. k # n
        BY <2>1, <3>2, <1>4, <1>5
      <3> QED
        BY <2>1, <3>1, <3>3
    <2> QED
      BY <2>1, <2>2
  <1> QED
    BY <1>8, <1>10, <1>11, <1>13, <1>14 DEF LeaveInv

\* Who goes in its own time leaves another that keeps the message.
LEMMA DepartKeeps ==
  ASSUME LeaveInv, NEW n \in Relay, Depart(n)
  PROVE  LeaveInv'
  <1>1. HoTypeOK /\ Departing /\ Others /\ Acks /\ Safe
    BY DEF LeaveInv
  <1>2. /\ status \in [Relay -> {"up", "leaving", "gone"}] /\ job \in [Relay -> JobType] /\ post \subseteq FrameType
        /\ custody \in [Relay -> CustodyType] /\ sees \in [Relay -> SUBSET Relay]
        /\ blame \subseteq {"cutoff", "unacked", "dispatch"}
    BY <1>1, HandoffTypes
  <1>3. /\ status[n] = "leaving" /\ status' = [status EXCEPT ![n] = "gone"]
        /\ custody' = [custody EXCEPT ![n] = NoRole] /\ job' = [job EXCEPT ![n] = NoJob]
        /\ blame' = (IF job[n].stage # "done" THEN blame \cup {"cutoff"} ELSE blame)
        /\ UNCHANGED <<post, inbox, published, refused, dropped>>
    BY DEF Depart
  <1>4. PICK told \in BOOLEAN :
          sees' = [m \in Relay |-> IF m = n THEN {} ELSE IF told THEN sees[m] \ {n} ELSE sees[m]]
    BY DEF Depart
  <1>5. sees' \in [Relay -> SUBSET Relay] /\ \A m \in Relay : m \notin sees'[m]
    BY <1>1, <1>2, <1>4 DEF Others
  <1>6. /\ status'[n] = "gone" /\ custody'[n] = NoRole /\ job'[n] = NoJob
        /\ \A m \in Relay \ {n} : status'[m] = status[m] /\ custody'[m] = custody[m] /\ job'[m] = job[m]
        /\ status' \in [Relay -> {"up", "leaving", "gone"}] /\ custody' \in [Relay -> CustodyType]
        /\ job' \in [Relay -> JobType]
    BY <1>2, <1>3, NoJobs
  <1>7. blame' \subseteq {"cutoff", "unacked", "dispatch"}
    BY <1>2, <1>3
  <1>8. HoTypeOK'
    BY <1>1, <1>3, <1>5, <1>6, <1>7, HandoffTypes, HandoffTyped
  <1>9. Departing'
    BY <1>1, <1>6, NoJobs DEF Departing
  <1>10. Others'
    BY <1>1, <1>5, <1>6, NoJobs DEF Others, Sending
  <1>11. \A k \in Relay \ {n} : Keeps(k)' <=> Keeps(k)
    BY <1>6 DEF Keeps, Runs
  <1>12. Acks'
    <2>1. ASSUME NEW p \in post', p.kind = "HANDOFF"
          PROVE  p.from # p.to /\ status'[p.from] # "up"
      BY <2>1, <1>1, <1>2, <1>3, <1>6 DEF Acks, FrameType
    <2>2. ASSUME NEW p \in post', p.kind = "HANDOFFACK"
          PROVE  /\ p.from # p.to /\ status'[p.to] # "up"
                 /\ p.ok /\ Runs(p.to)' => Keeps(p.from)'
      <3>1. p \in post /\ p.from \in Relay /\ p.to \in Relay
        BY <2>2, <1>2, <1>3 DEF FrameType
      <3>2. /\ p.from # p.to /\ status[p.to] # "up"
            /\ p.ok /\ Runs(p.to) => Keeps(p.from)
        BY <2>2, <3>1, <1>1 DEF Acks
      <3>3. status'[p.to] # "up"
        BY <3>1, <3>2, <1>6
      <3>4. ASSUME p.ok, Runs(p.to)'
            PROVE  Keeps(p.from)'
        <4>1. p.to # n /\ Runs(p.to)
          BY <3>1, <3>4, <1>6 DEF Runs
        <4>2. status[p.to] = "leaving"
          BY <3>1, <3>2, <4>1, <1>2 DEF Runs
        <4>3. FALSE
          BY <3>1, <4>1, <4>2, <1>1, <1>3 DEF Departing
        <4> QED
          BY <4>3
      <3> QED
        BY <3>2, <3>3, <3>4
    <2> QED
      BY <2>1, <2>2 DEF Acks
  <1>13. Safe'
    <2> SUFFICES ASSUME published, blame' = {}
                 PROVE  /\ \E m \in Relay : Keeps(m)'
                        /\ \A m \in Relay : status'[m] # "leaving"
      BY <1>3 DEF Safe
    <2>1. job[n].stage = "done" /\ blame = {}
      BY <1>3
    <2>2. PICK h \in Relay \ {n} : Keeps(h)
      BY <2>1, <1>1, <1>3 DEF Safe
    <2>3. \A m \in Relay : status'[m] # "leaving"
      BY <1>1, <1>3, <1>6 DEF Departing
    <2> QED
      BY <2>2, <2>3, <1>11
  <1> QED
    BY <1>8, <1>9, <1>10, <1>12, <1>13 DEF LeaveInv

\* Who takes a claim over is root with what it holds, and says how much.
LEMMA TakeOverKeeps ==
  ASSUME LeaveInv, NEW p \in post, OnHandoff(p)
  PROVE  LeaveInv'
  <1>1. HoTypeOK /\ Departing /\ Others /\ Acks /\ Safe
    BY DEF LeaveInv
  <1>2. post \subseteq FrameType /\ custody \in [Relay -> CustodyType] /\ p \in FrameType
    BY <1>1, HandoffTypes
  <1>3. PICK n \in Relay, m \in Relay : n = p.to /\ m = p.from
    BY <1>2 DEF FrameType
  <1>4. /\ p.kind = "HANDOFF" /\ Runs(n)
        /\ UNCHANGED <<status, sees, job, inbox, published, dropped, blame>>
    BY <1>3 DEF OnHandoff
  <1>5. m # n /\ status[m] # "up"
    BY <1>1, <1>3, <1>4 DEF Acks
  <1>6. refused' \in 0..MaxRefuse
    BY <1>1, HandoffTypes, HandoffAssumption DEF OnHandoff, Refuses
  <1>7. CASE post' = post \ {p} /\ UNCHANGED custody
    <2>1. HoTypeOK'
      BY <1>1, <1>4, <1>6, <1>7, HandoffTypes, HandoffTyped
    <2>2. (\A k \in Relay : k \notin sees'[k]) /\ (\A k \in Relay : Keeps(k) => Keeps(k)')
      BY <1>1, <1>4, <1>7 DEF Others, Keeps, Runs
    <2>3. \A q \in post' : q \in post
      BY <1>7
    <2> QED
      BY <1>4, <2>1, <2>2, <2>3, SteadyKeeps
  <1>8. ASSUME NEW full \in BOOLEAN,
               custody' = [custody EXCEPT ![n] = [kind |-> "root", body |-> custody[n].body \/ full, of |-> NoRelay]],
               post' = (post \ {p}) \cup {[kind |-> "HANDOFFACK", from |-> n, to |-> m, ok |-> full]}
        PROVE  LeaveInv'
    <2>1. [kind |-> "root", body |-> custody[n].body \/ full, of |-> NoRelay] \in CustodyType
      BY <1>2 DEF CustodyType
    <2> DEFINE ack == [kind |-> "HANDOFFACK", from |-> n, to |-> m, ok |-> full]
    <2>2. ack \in FrameType /\ ack.kind = "HANDOFFACK" /\ ack.from = n /\ ack.to = m /\ ack.ok = full
      BY DEF FrameType
    <2>3. custody' \in [Relay -> CustodyType]
      BY <1>2, <1>8, <2>1
    <2>4. post' \subseteq FrameType /\ \A q \in post' : q \in post \/ q = ack
      BY <1>2, <1>8, <2>2
    <2>5. HoTypeOK'
      BY <1>1, <1>4, <1>6, <2>3, <2>4, HandoffTypes, HandoffTyped
    <2>6. Departing' /\ Others'
      BY <1>1, <1>4 DEF Departing, Others
    <2>7. (\A k \in Relay : Keeps(k) => Keeps(k)') /\ (full => Keeps(n)')
      <3>1. custody'[n] = [kind |-> "root", body |-> custody[n].body \/ full, of |-> NoRelay]
            /\ \A k \in Relay \ {n} : custody'[k] = custody[k]
        BY <1>2, <1>8
      <3>2. custody'[n].kind = "root" /\ custody'[n].body = (custody[n].body \/ full)
        BY <3>1
      <3> QED
        BY <1>4, <3>1, <3>2 DEF Keeps, Runs
    <2> HIDE DEF ack
    <2>8. Acks'
      <3>1. ASSUME NEW q \in post', q.kind = "HANDOFF"
            PROVE  q.from # q.to /\ status'[q.from] # "up"
        BY <3>1, <2>2, <2>4, <1>1, <1>4 DEF Acks
      <3>2. ASSUME NEW q \in post', q.kind = "HANDOFFACK"
            PROVE  /\ q.from # q.to /\ status'[q.to] # "up"
                   /\ q.ok /\ Runs(q.to)' => Keeps(q.from)'
        <4>1. CASE q = ack
          BY <4>1, <2>2, <2>7, <1>4, <1>5
        <4>2. CASE q \in post
          <5>1. q.from \in Relay /\ q.to \in Relay
            BY <4>2, <1>2 DEF FrameType
          <5> QED
            BY <3>2, <4>2, <5>1, <2>7, <1>1, <1>4 DEF Acks, Runs
        <4> QED
          BY <4>1, <4>2, <2>4
      <3> QED
        BY <3>1, <3>2 DEF Acks
    <2>9. Safe'
      BY <1>1, <1>4, <2>7 DEF Safe
    <2> QED
      BY <2>5, <2>6, <2>8, <2>9 DEF LeaveInv
  <1> QED
    <2>1. \/ post' = post \ {p} /\ UNCHANGED custody
          \/ \E full \in BOOLEAN :
               /\ custody' = [custody EXCEPT ![n] = [kind |-> "root", body |-> custody[n].body \/ full, of |-> NoRelay]]
               /\ post' = (post \ {p}) \cup {[kind |-> "HANDOFFACK", from |-> n, to |-> m, ok |-> full]}
      BY <1>2, <1>3 DEF OnHandoff
    <2> QED
      BY <2>1, <1>7, <1>8

LEMMA LeaveStep ==
  ASSUME MaxLeaving <= 1
  PROVE  LeaveInv /\ [HoNext]_hoVars => LeaveInv'
  <1> SUFFICES ASSUME LeaveInv, [HoNext]_hoVars PROVE LeaveInv'
    OBVIOUS
  <1>1. ASSUME NEW n \in Relay, Publish(n) PROVE LeaveInv'
    BY <1>1, PublishKeeps
  <1>2. ASSUME NEW n \in Relay, Leave(n) PROVE LeaveInv'
    BY <1>2, LeaveKeeps
  <1>3. ASSUME NEW n \in Relay, ResolveHeirs(n) PROVE LeaveInv'
    BY <1>3, ResolveKeeps
  <1>4. ASSUME NEW n \in Relay, SendRound(n) PROVE LeaveInv'
    BY <1>4, SendKeeps
  <1>5. ASSUME NEW n \in Relay, WindowEnds(n) PROVE LeaveInv'
    BY <1>5, WindowKeeps
  <1>6. ASSUME NEW n \in Relay, LastPush(n) PROVE LeaveInv'
    BY <1>6, LastKeeps
  <1>7. ASSUME NEW n \in Relay, Depart(n) PROVE LeaveInv'
    BY <1>7, DepartKeeps
  <1>8. ASSUME NEW n \in Relay, NEW m \in Relay, Replicate(n, m) \/ NoticeGone(n, m) \/ Promote(n) PROVE LeaveInv'
    BY <1>8, QuietSteps
  <1>9. ASSUME NEW p \in post, OnHandoff(p) PROVE LeaveInv'
    BY <1>9, TakeOverKeeps
  <1>10. ASSUME NEW p \in post, OnHandoffAck(p) PROVE LeaveInv'
    BY <1>10, AckKeeps
  <1>11. ASSUME NEW p \in post, OnReplicate(p) PROVE LeaveInv'
    BY <1>11, ReplicaKeeps
  <1>12. ASSUME NEW p \in post, LoseFrame(p) PROVE LeaveInv'
    BY <1>12, LossKeeps
  <1>13. ASSUME NEW q \in inbox, Ingest(q) PROVE LeaveInv'
    BY <1>13, IngestKeeps
  <1>14. CASE UNCHANGED hoVars
    <2>1. UNCHANGED <<status, custody, sees, job, post, inbox, published, refused, dropped, blame>>
      BY <1>14 DEF hoVars
    <2>2. HoTypeOK'
      BY <2>1, HandoffTypes, HandoffTyped DEF LeaveInv
    <2>3. (\A k \in Relay : k \notin sees'[k]) /\ (\A k \in Relay : Keeps(k) => Keeps(k)')
      BY <2>1 DEF LeaveInv, Others, Keeps, Runs
    <2> QED
      BY <2>1, <2>2, <2>3, SteadyKeeps
  <1> QED
    BY <1>1, <1>2, <1>3, <1>4, <1>5, <1>6, <1>7, <1>8, <1>9, <1>10, <1>11, <1>12, <1>13, <1>14 DEF HoNext

\* One departure at a time: however many nodes leave in turn, whatever leave() and
\* its receivers lose, refuse, retry or hold short, a departure that ended in its
\* own time on an honest ack leaves the message at a root that runs.
THEOREM HandoffKeepsBodyAlways == ASSUME MaxLeaving <= 1 PROVE HoSpec => []HandoffKeepsBody
  <1>1. LeaveInv => HandoffKeepsBody
    BY DEF LeaveInv, Safe, HandoffKeepsBody, BodyHeld, Keeps
  <1> QED
    BY <1>1, LeaveInit, LeaveStep, PTL DEF HoSpec

\* HoTypeOK, and one fact the steps need: a claim that is sent has an heir.
HandoffTyping == HoTypeOK /\ \A n \in Relay : job[n].stage \in Sending => job[n].heir \in Relay

\* The job of one node changes, and what it sends.
LEMMA JobTyped ==
  ASSUME HandoffTyping, NEW n \in Relay, NEW j \in JobType, job' = [job EXCEPT ![n] = j],
         j.stage \in Sending => j.heir \in Relay,
         post' \subseteq FrameType, inbox' \subseteq CopyType, blame' \subseteq {"cutoff", "unacked", "dispatch"},
         UNCHANGED <<status, custody, sees, published, refused, dropped>>
  PROVE  HandoffTyping'
  <1>1. job \in [Relay -> JobType]
    BY HandoffTypes DEF HandoffTyping
  <1>2. job'[n] = j /\ (\A m \in Relay \ {n} : job'[m] = job[m]) /\ job' \in [Relay -> JobType]
    BY <1>1
  <1>3. HoTypeOK'
    BY <1>2, HandoffTypes, HandoffTyped DEF HandoffTyping
  <1> QED
    BY <1>2, <1>3 DEF HandoffTyping

\* No job changes.
LEMMA JobsAlone ==
  ASSUME HandoffTyping, job' = job, HoTypeOK'
  PROVE  HandoffTyping'
  BY DEF HandoffTyping

\* What is pushed is a frame, to a node that is there.
LEMMA PushTyped ==
  ASSUME NEW n \in Relay, NEW h \in Relay, NEW a \in Relay \cup {NoRelay}
  PROVE  Pushes(n, h, a) \subseteq FrameType
  <1>1. \A m \in Relay : Frame("REPLICATE", n, m) \in FrameType /\ Frame("HANDOFF", n, m) \in FrameType
    BY DEF Frame, FrameType
  <1> QED
    BY <1>1 DEF Pushes

LEMMA ResolveTyped ==
  ASSUME HandoffTyping, NEW n \in Relay, ResolveHeirs(n) PROVE HandoffTyping'
  <1>1. /\ job \in [Relay -> JobType] /\ sees[n] \subseteq Relay /\ job[n] \in JobType /\ job[n].heir \in Relay \cup {NoRelay}
        /\ post \subseteq FrameType /\ inbox \subseteq CopyType /\ blame \subseteq {"cutoff", "unacked", "dispatch"}
    BY HandoffTypes DEF HandoffTyping, JobType
  <1>2. UNCHANGED <<status, custody, sees, post, inbox, published, refused, dropped, blame>>
    BY DEF ResolveHeirs
  <1>3. CASE job' = [job EXCEPT ![n].stage = "tail"]
    <2>1. PICK j \in JobType : j = [job[n] EXCEPT !.stage = "tail"]
      BY <1>1 DEF JobType, Stages
    <2>2. j.stage = "tail"
      BY <1>1, <2>1 DEF JobType
    <2>3. job' = [job EXCEPT ![n] = j]
      BY <1>1, <1>3, <2>1
    <2> QED
      BY <1>1, <1>2, <2>2, <2>3, JobTyped DEF Sending
  <1>4. ASSUME NEW h \in Relay, NEW a \in Relay \cup {NoRelay},
               job' = [job EXCEPT ![n] = [job[n] EXCEPT !.stage = "send", !.heir = h, !.alt = a]]
        PROVE  HandoffTyping'
    <2>1. PICK j \in JobType : j = [job[n] EXCEPT !.stage = "send", !.heir = h, !.alt = a]
      BY <1>1 DEF JobType, Stages
    <2>2. j.heir = h
      BY <1>1, <2>1 DEF JobType
    <2>3. job' = [job EXCEPT ![n] = j]
      BY <1>4, <2>1
    <2> QED
      BY <1>1, <1>2, <2>2, <2>3, JobTyped
  <1>5. \/ \E h \in Relay : \E a \in Relay \cup {NoRelay} :
              job' = [job EXCEPT ![n] = [job[n] EXCEPT !.stage = "send", !.heir = h, !.alt = a]]
        \/ job' = [job EXCEPT ![n].stage = "tail"]
    <2> DEFINE known == IF sees[n] # {} THEN sees[n] ELSE {m \in Relay \ {n} : Runs(m)}
    <2>1. known \subseteq Relay
      BY <1>1
    <2>2. \/ \E h \in known : \E a \in (known \ {h}) \cup (IF known = {h} THEN {NoRelay} ELSE {}) :
                job' = [job EXCEPT ![n] = [job[n] EXCEPT !.stage = "send", !.heir = h, !.alt = a]]
          \/ job' = [job EXCEPT ![n].stage = "tail"]
      BY <1>1 DEF ResolveHeirs
    <2> HIDE DEF known
    <2> QED
      BY <2>1, <2>2
  <1> QED
    BY <1>3, <1>4, <1>5

LEMMA SendTyped ==
  ASSUME HandoffTyping, NEW n \in Relay, SendRound(n) PROVE HandoffTyping'
  <1>1. /\ job \in [Relay -> JobType] /\ sees[n] \subseteq Relay /\ job[n] \in JobType
        /\ post \subseteq FrameType /\ inbox \subseteq CopyType /\ blame \subseteq {"cutoff", "unacked", "dispatch"}
    BY HandoffTypes DEF HandoffTyping
  <1>2. job[n].stage = "send" /\ UNCHANGED <<status, custody, sees, inbox, published, refused, dropped, blame>>
    BY DEF SendRound
  <1>3. job[n].heir \in Relay /\ job[n].alt \in Relay \cup {NoRelay}
    BY <1>1, <1>2 DEF HandoffTyping, Sending, JobType
  <1>4. PICK h \in {job[n].heir} \cup (IF job[n].round > 0 THEN sees[n] ELSE {}) :
            LET a == IF h = job[n].heir THEN job[n].alt ELSE job[n].heir
            IN  /\ job' = [job EXCEPT ![n] = [job[n] EXCEPT !.stage = "window", !.heir = h, !.alt = a]]
                /\ post' = post \cup Pushes(n, h, a)
    BY <1>1 DEF SendRound
  <1>5. PICK k \in Relay, a \in Relay \cup {NoRelay} :
            /\ job' = [job EXCEPT ![n] = [job[n] EXCEPT !.stage = "window", !.heir = k, !.alt = a]]
            /\ post' = post \cup Pushes(n, k, a)
    BY <1>1, <1>3, <1>4
  <1>6. PICK j \in JobType : j = [job[n] EXCEPT !.stage = "window", !.heir = k, !.alt = a]
    BY <1>1 DEF JobType, Stages
  <1>7. j.heir = k /\ job' = [job EXCEPT ![n] = j]
    BY <1>1, <1>5, <1>6 DEF JobType
  <1>8. post' \subseteq FrameType
    BY <1>1, <1>5, PushTyped
  <1> QED
    BY <1>1, <1>2, <1>7, <1>8, JobTyped

LEMMA WindowTyped ==
  ASSUME HandoffTyping, NEW n \in Relay, WindowEnds(n) PROVE HandoffTyping'
  <1>1. /\ job \in [Relay -> JobType] /\ job[n] \in JobType
        /\ post \subseteq FrameType /\ inbox \subseteq CopyType /\ blame \subseteq {"cutoff", "unacked", "dispatch"}
    BY HandoffTypes DEF HandoffTyping
  <1>2. job[n].stage = "window" /\ UNCHANGED <<status, custody, sees, post, inbox, published, refused, dropped, blame>>
    BY DEF WindowEnds
  <1>3. job[n].heir \in Relay /\ job[n].round \in 0..(HandoffTries - 1)
    BY <1>1, <1>2 DEF HandoffTyping, Sending, JobType
  <1>4. CASE job[n].acked \/ job[n].round + 1 >= HandoffTries
    <2>1. PICK j \in JobType : j = [job[n] EXCEPT !.stage = "tail"]
      BY <1>1 DEF JobType, Stages
    <2>2. j.heir = job[n].heir
      BY <1>1, <2>1 DEF JobType
    <2>3. job' = [job EXCEPT ![n] = j]
      BY <1>1, <1>4, <2>1 DEF WindowEnds
    <2> QED
      BY <1>1, <1>2, <1>3, <2>2, <2>3, JobTyped
  <1>5. CASE ~(job[n].acked \/ job[n].round + 1 >= HandoffTries)
    <2>1. job[n].round + 1 \in 0..(HandoffTries - 1)
      BY <1>3, <1>5, HandoffAssumption
    <2>2. PICK j \in JobType : j = [job[n] EXCEPT !.stage = "send", !.round = job[n].round + 1]
      BY <1>1, <2>1 DEF JobType, Stages
    <2>3. j.heir = job[n].heir
      BY <1>1, <2>2 DEF JobType
    <2>4. job' = [job EXCEPT ![n] = j]
      BY <1>1, <1>5, <2>2 DEF WindowEnds
    <2> QED
      BY <1>1, <1>2, <1>3, <2>3, <2>4, JobTyped
  <1> QED
    BY <1>4, <1>5

LEMMA LastTyped ==
  ASSUME HandoffTyping, NEW n \in Relay, LastPush(n) PROVE HandoffTyping'
  <1>1. /\ job \in [Relay -> JobType] /\ job[n] \in JobType
        /\ post \subseteq FrameType /\ inbox \subseteq CopyType /\ blame \subseteq {"cutoff", "unacked", "dispatch"}
    BY HandoffTypes DEF HandoffTyping
  <1>2. UNCHANGED <<status, custody, sees, inbox, published, refused, dropped>>
    BY DEF LastPush
  <1>3. PICK j \in JobType : j = [NoJob EXCEPT !.stage = "done"]
    BY NoJobs DEF JobType, Stages
  <1>4. j.stage = "done" /\ job' = [job EXCEPT ![n] = j] /\ blame' \subseteq blame \cup {"unacked"}
    BY <1>3 DEF LastPush, NoJob
  <1> DEFINE target == IF job[n].alt # NoRelay THEN job[n].alt ELSE job[n].heir
  <1>5. target \in Relay \cup {NoRelay}
    BY <1>1 DEF JobType
  <1>6. post' = IF job[n].acked \/ target = NoRelay THEN post ELSE post \cup Pushes(n, target, NoRelay)
    BY DEF LastPush
  <1> HIDE DEF target
  <1>7. post' \subseteq FrameType
    <2>1. target \in Relay => Pushes(n, target, NoRelay) \subseteq FrameType
      BY PushTyped
    <2> QED
      BY <1>1, <1>5, <1>6, <2>1
  <1> QED
    BY <1>1, <1>2, <1>4, <1>7, JobTyped DEF Sending

\* A departure begins, or ends.
LEMMA LeavingTyped ==
  ASSUME HandoffTyping, NEW n \in Relay, Leave(n) \/ Depart(n) PROVE HandoffTyping'
  <1>1. /\ job \in [Relay -> JobType] /\ job[n] \in JobType /\ status \in [Relay -> {"up", "leaving", "gone"}]
        /\ custody \in [Relay -> CustodyType] /\ sees \in [Relay -> SUBSET Relay]
        /\ blame \subseteq {"cutoff", "unacked", "dispatch"}
    BY HandoffTypes DEF HandoffTyping
  <1>2. CASE Leave(n)
    <2> DEFINE stage == IF custody[n].body /\ (custody[n].kind = "root" \/ ~RootAliveForLeave(n)) THEN "resolve" ELSE "done"
    <2>1. /\ status' = [status EXCEPT ![n] = "leaving"] /\ job' = [job EXCEPT ![n].stage = stage]
          /\ UNCHANGED <<custody, sees, post, inbox, published, refused, dropped, blame>>
      BY <1>2 DEF Leave
    <2>2. stage \in {"resolve", "done"}
      OBVIOUS
    <2> HIDE DEF stage
    <2>3. PICK j \in JobType : j = [job[n] EXCEPT !.stage = stage]
      BY <1>1, <2>2 DEF JobType, Stages
    <2>4. j.stage = stage /\ job' = [job EXCEPT ![n] = j]
      BY <1>1, <2>1, <2>3 DEF JobType
    <2>5. job' \in [Relay -> JobType] /\ status' \in [Relay -> {"up", "leaving", "gone"}]
      BY <1>1, <2>1, <2>4
    <2>6. HoTypeOK'
      BY <2>1, <2>5, HandoffTypes, HandoffTyped DEF HandoffTyping
    <2>7. job'[n].stage = stage /\ \A m \in Relay \ {n} : job'[m] = job[m]
      BY <1>1, <2>4
    <2> QED
      BY <2>2, <2>6, <2>7 DEF HandoffTyping, Sending
  <1>3. CASE Depart(n)
    <2>1. /\ status' = [status EXCEPT ![n] = "gone"] /\ job' = [job EXCEPT ![n] = NoJob]
          /\ custody' = [custody EXCEPT ![n] = NoRole] /\ blame' \subseteq blame \cup {"cutoff"}
          /\ UNCHANGED <<post, inbox, published, refused, dropped>>
      BY <1>3 DEF Depart
    <2>2. PICK told \in BOOLEAN :
            sees' = [m \in Relay |-> IF m = n THEN {} ELSE IF told THEN sees[m] \ {n} ELSE sees[m]]
      BY <1>3 DEF Depart
    <2>3. sees' \in [Relay -> SUBSET Relay]
      BY <1>1, <2>2
    <2>4. /\ job' \in [Relay -> JobType] /\ status' \in [Relay -> {"up", "leaving", "gone"}]
          /\ custody' \in [Relay -> CustodyType] /\ blame' \subseteq {"cutoff", "unacked", "dispatch"}
      BY <1>1, <2>1, NoJobs
    <2>5. HoTypeOK'
      BY <2>1, <2>3, <2>4, HandoffTypes, HandoffTyped DEF HandoffTyping
    <2>6. job'[n].stage = "none" /\ \A m \in Relay \ {n} : job'[m] = job[m]
      BY <1>1, <2>1, NoJobs
    <2> QED
      BY <2>5, <2>6 DEF HandoffTyping, Sending
  <1> QED
    BY <1>2, <1>3

\* What the root and its backups do, and who notices a departure.
LEMMA RoleTyped ==
  ASSUME HandoffTyping, NEW n \in Relay, NEW m \in Relay,
         Publish(n) \/ Replicate(n, m) \/ NoticeGone(n, m) \/ Promote(n)
  PROVE  HandoffTyping'
  <1>1. HoTypeOK /\ custody \in [Relay -> CustodyType] /\ sees \in [Relay -> SUBSET Relay] /\ post \subseteq FrameType
    BY HandoffTypes DEF HandoffTyping
  <1>2. CASE Publish(n)
    <2>1. /\ published' = TRUE /\ custody' = [custody EXCEPT ![n] = [kind |-> "root", body |-> TRUE, of |-> NoRelay]]
          /\ UNCHANGED <<status, sees, job, post, inbox, refused, dropped, blame>>
      BY <1>2 DEF Publish
    <2>2. [kind |-> "root", body |-> TRUE, of |-> NoRelay] \in CustodyType
      BY DEF CustodyType
    <2>3. custody' \in [Relay -> CustodyType]
      BY <1>1, <2>1, <2>2
    <2> QED
      BY <1>1, <2>1, <2>3, HandoffTypes, HandoffTyped, JobsAlone
  <1>3. CASE Replicate(n, m)
    <2>1. /\ post' = post \cup {Frame("REPLICATE", n, m)}
          /\ UNCHANGED <<status, custody, sees, job, inbox, published, refused, dropped, blame>>
      BY <1>3 DEF Replicate
    <2>2. Frame("REPLICATE", n, m) \in FrameType
      BY DEF Frame, FrameType
    <2>3. post' \subseteq FrameType
      BY <1>1, <2>1, <2>2
    <2> QED
      BY <1>1, <2>1, <2>3, HandoffTypes, HandoffTyped, JobsAlone
  <1>4. CASE NoticeGone(n, m)
    <2>1. /\ sees' = [sees EXCEPT ![n] = @ \ {m}]
          /\ UNCHANGED <<status, custody, job, post, inbox, published, refused, dropped, blame>>
      BY <1>4 DEF NoticeGone
    <2>2. sees' \in [Relay -> SUBSET Relay]
      BY <1>1, <2>1
    <2> QED
      BY <1>1, <2>1, <2>2, HandoffTypes, HandoffTyped, JobsAlone
  <1>5. CASE Promote(n)
    <2>1. /\ custody' = [custody EXCEPT ![n] = [kind |-> "root", body |-> custody[n].body, of |-> NoRelay]]
          /\ UNCHANGED <<status, sees, job, post, inbox, published, refused, dropped, blame>>
      BY <1>1, <1>5 DEF Promote
    <2>2. [kind |-> "root", body |-> custody[n].body, of |-> NoRelay] \in CustodyType
      BY <1>1 DEF CustodyType
    <2>3. custody' \in [Relay -> CustodyType]
      BY <1>1, <2>1, <2>2
    <2> QED
      BY <1>1, <2>1, <2>3, HandoffTypes, HandoffTyped, JobsAlone
  <1> QED
    BY <1>2, <1>3, <1>4, <1>5

LEMMA AckTyped ==
  ASSUME HandoffTyping, NEW p \in post, OnHandoffAck(p) \/ OnReplicate(p) PROVE HandoffTyping'
  <1>1. /\ job \in [Relay -> JobType] /\ post \subseteq FrameType /\ inbox \subseteq CopyType
        /\ blame \subseteq {"cutoff", "unacked", "dispatch"} /\ HoTypeOK
    BY HandoffTypes DEF HandoffTyping
  <1>2. PICK f \in Relay, t \in Relay : f = p.from /\ t = p.to
    BY <1>1 DEF FrameType
  <1>3. /\ post' \subseteq FrameType /\ UNCHANGED <<status, custody, sees, published, refused, dropped>>
        /\ inbox' \subseteq inbox \cup {[from |-> f, to |-> t]} /\ blame' \subseteq blame \cup {"dispatch"}
        /\ job' = job \/ \E n \in Relay : job' = [job EXCEPT ![n].acked = TRUE]
    BY <1>1, <1>2 DEF OnHandoffAck, OnReplicate
  <1>4. inbox' \subseteq CopyType /\ blame' \subseteq {"cutoff", "unacked", "dispatch"}
    BY <1>1, <1>3 DEF CopyType
  <1>5. CASE job' = job
    BY <1>1, <1>3, <1>4, <1>5, HandoffTypes, HandoffTyped, JobsAlone
  <1>6. ASSUME NEW n \in Relay, job' = [job EXCEPT ![n].acked = TRUE] PROVE HandoffTyping'
    <2>1. PICK j \in JobType : j = [job[n] EXCEPT !.acked = TRUE]
      BY <1>1 DEF JobType
    <2>2. j.stage = job[n].stage /\ j.heir = job[n].heir /\ job' = [job EXCEPT ![n] = j]
      BY <1>1, <1>6, <2>1 DEF JobType
    <2> QED
      BY <1>3, <1>4, <2>2, JobTyped DEF HandoffTyping
  <1> QED
    BY <1>3, <1>5, <1>6

LEMMA TakeOverTyped ==
  ASSUME HandoffTyping, NEW p \in post, OnHandoff(p) PROVE HandoffTyping'
  <1>1. HoTypeOK /\ post \subseteq FrameType /\ custody \in [Relay -> CustodyType] /\ refused \in 0..MaxRefuse
    BY HandoffTypes DEF HandoffTyping
  <1>2. PICK n \in Relay, m \in Relay : n = p.to /\ m = p.from
    BY <1>1 DEF FrameType
  <1>3. /\ UNCHANGED <<status, sees, job, inbox, published, dropped, blame>> /\ refused' \in 0..MaxRefuse
    BY <1>1, HandoffAssumption DEF OnHandoff, Refuses
  <1>4. \/ post' = post \ {p} /\ UNCHANGED custody
        \/ \E full \in BOOLEAN :
             /\ custody' = [custody EXCEPT ![n] = [kind |-> "root", body |-> custody[n].body \/ full, of |-> NoRelay]]
             /\ post' = (post \ {p}) \cup {[kind |-> "HANDOFFACK", from |-> n, to |-> m, ok |-> full]}
    BY <1>1, <1>2 DEF OnHandoff
  <1>5. \A full \in BOOLEAN :
           /\ [kind |-> "root", body |-> custody[n].body \/ full, of |-> NoRelay] \in CustodyType
           /\ [kind |-> "HANDOFFACK", from |-> n, to |-> m, ok |-> full] \in FrameType
    BY <1>1 DEF CustodyType, FrameType
  <1>6. post' \subseteq FrameType /\ custody' \in [Relay -> CustodyType]
    BY <1>1, <1>4, <1>5
  <1> QED
    BY <1>1, <1>3, <1>6, HandoffTypes, HandoffTyped, JobsAlone

LEMMA IngestTyped ==
  ASSUME HandoffTyping, NEW q \in inbox, Ingest(q) PROVE HandoffTyping'
  <1>1. HoTypeOK /\ inbox \subseteq CopyType /\ custody \in [Relay -> CustodyType] /\ refused \in 0..MaxRefuse
    BY HandoffTypes DEF HandoffTyping
  <1>2. PICK n \in Relay, m \in Relay : n = q.to /\ m = q.from
    BY <1>1 DEF CopyType
  <1> DEFINE taken == IF custody[n].kind = "root" THEN [custody[n] EXCEPT !.body = TRUE]
                      ELSE [kind |-> "backup", body |-> TRUE, of |-> m]
  <1>3. taken \in CustodyType
    BY <1>1 DEF CustodyType
  <1>4. /\ custody' = [custody EXCEPT ![n] = taken] \/ custody' = custody
        /\ inbox' = inbox \ {q} /\ UNCHANGED <<status, sees, job, post, published, dropped, blame>>
    BY <1>1, <1>2 DEF Ingest
  <1> HIDE DEF taken
  <1>5. refused' \in 0..MaxRefuse /\ custody' \in [Relay -> CustodyType] /\ inbox' \subseteq CopyType
    BY <1>1, <1>3, <1>4, HandoffAssumption DEF Ingest, Refuses
  <1> QED
    BY <1>1, <1>4, <1>5, HandoffTypes, HandoffTyped, JobsAlone

LEMMA LossTyped ==
  ASSUME HandoffTyping, NEW p \in post, LoseFrame(p) PROVE HandoffTyping'
  <1>1. HoTypeOK /\ dropped \in 0..MaxDrop /\ post \subseteq FrameType
    BY HandoffTypes DEF HandoffTyping
  <1>2. post' = post \ {p} /\ UNCHANGED <<status, custody, sees, job, inbox, published, refused, blame>>
    BY DEF LoseFrame
  <1>3. dropped' \in 0..MaxDrop /\ post' \subseteq FrameType
    BY <1>1, <1>2, HandoffAssumption DEF LoseFrame
  <1> QED
    BY <1>1, <1>2, <1>3, HandoffTypes, HandoffTyped, JobsAlone

LEMMA HandoffTypingStep == HandoffTyping /\ [HoNext]_hoVars => HandoffTyping'
  <1> SUFFICES ASSUME HandoffTyping, [HoNext]_hoVars PROVE HandoffTyping'
    OBVIOUS
  <1>1. CASE UNCHANGED hoVars
    BY <1>1, HandoffTypes, HandoffTyped, JobsAlone DEF hoVars, HandoffTyping
  <1>2. ASSUME NEW n \in Relay, NEW m \in Relay, Publish(n) \/ Promote(n) \/ Replicate(n, m) \/ NoticeGone(n, m)
        PROVE  HandoffTyping'
    BY <1>2, RoleTyped
  <1>3. ASSUME NEW n \in Relay, Leave(n) \/ Depart(n) PROVE HandoffTyping'
    BY <1>3, LeavingTyped
  <1>4. ASSUME NEW n \in Relay, ResolveHeirs(n) \/ SendRound(n) \/ WindowEnds(n) \/ LastPush(n) PROVE HandoffTyping'
    BY <1>4, ResolveTyped, SendTyped, WindowTyped, LastTyped
  <1>5. ASSUME NEW p \in post, OnHandoff(p) \/ OnHandoffAck(p) \/ OnReplicate(p) \/ LoseFrame(p) PROVE HandoffTyping'
    BY <1>5, TakeOverTyped, AckTyped, LossTyped
  <1>6. ASSUME NEW q \in inbox, Ingest(q) PROVE HandoffTyping'
    BY <1>6, IngestTyped
  <1> QED
    BY <1>1, <1>2, <1>3, <1>4, <1>5, <1>6 DEF HoNext

\* However many relays depart at once, a role, a job and a frame of a handoff have
\* the shape pubsubLeaveHandoff and its receivers give them.
THEOREM HandoffTypesAlways == HoSpec => []HoTypeOK
  <1>1. HoInit => HandoffTyping
    BY LeaveInit, NoJobs DEF LeaveInv, HandoffTyping, HoInit, Sending
  <1>2. HandoffTyping => HoTypeOK
    BY DEF HandoffTyping
  <1> QED
    BY <1>1, <1>2, HandoffTypingStep, PTL DEF HoSpec

-----------------------------------------------------------------------------
(***************************************************************************)
(* The delivery tree: D are the readers that were ever to be a child.        *)
(***************************************************************************)
TreeMail(m, D) ==
    \/ \E n \in Reader, p \in Member : \E k : m = Sub(n, p, k)
    \/ \E p \in D \cup {Root}, n \in Reader, d \in D \cup {Nobody} : \E k, g : p # n /\ m = Delivers(p, n, k, g, d)
    \/ \E c \in D, S \in SUBSET Reader, i \in Nat : m = Adopt(Root, c, S, i)
    \/ \E c \in D, S \in SUBSET Reader, i \in Nat : m = AdoptAck(c, Root, S, i)
    \/ \E n \in Reader, p \in Member : m = Unsub(n, p)
    \/ \E p \in D, n \in Reader, u \in D \cup {Root} : p # n /\ m = Rehome(p, n, u)

Delegation(D) == [nonce : Nat, child : D, subs : SUBSET Reader]

\* Only the root delegates; a node that is no relay seats nobody.
TreeShape(D) ==
    /\ want \subseteq Reader \ dead /\ dead \subseteq Reader /\ relay \subseteq D \ dead
    /\ attached \subseteq Reader /\ left \subseteq Reader
    /\ seats \in [Member -> SUBSET Reader] /\ kids \in [Member -> SUBSET D] /\ pend \in [Member -> SUBSET Delegation(D)]
    /\ pin \in [Reader -> D \cup {Root, Nobody}]
    /\ \A n \in Reader : pin[n] # n /\ n \notin seats[n] /\ (n \notin relay => seats[n] = {}) /\ kids[n] = {} /\ pend[n] = {}
    /\ promotes \in 0..MaxPromote /\ losses \in 0..MaxLoss

TreeOver(D) == TreeShape(D) /\ \A m \in mail : TreeMail(m, D)

\* What the fields of a message are.
LEMMA TreeFields ==
  ASSUME NEW D \in SUBSET Reader, NEW m, TreeMail(m, D)
  PROVE  /\ m.t \in {"sub", "deliver", "adopt", "ack", "unsub", "rehome"}
         /\ m.t = "sub" => m.from \in Reader /\ m.to \in Member
         /\ m.t = "deliver" => m.from \in D \cup {Root} /\ m.to \in Reader /\ m.from # m.to /\ m.delegate \in D \cup {Nobody}
         /\ m.t = "adopt" => m.from = Root /\ m.to \in D /\ m.subs \in SUBSET Reader /\ m.nonce \in Nat
         /\ m.t = "ack" => m.from \in D /\ m.to = Root /\ m.subs \in SUBSET Reader /\ m.nonce \in Nat
         /\ m.t = "unsub" => m.from \in Reader /\ m.to \in Member
         /\ m.t = "rehome" => m.from \in D /\ m.to \in Reader /\ m.from # m.to /\ m.upstream \in D \cup {Root}
  <1>1. CASE \E n \in Reader, p \in Member : \E k : m = Sub(n, p, k)
    BY <1>1 DEF Sub
  <1>2. CASE \E p \in D \cup {Root}, n \in Reader, d \in D \cup {Nobody} : \E k, g : p # n /\ m = Delivers(p, n, k, g, d)
    BY <1>2 DEF Delivers
  <1>3. CASE \E c \in D, S \in SUBSET Reader, i \in Nat : m = Adopt(Root, c, S, i)
    BY <1>3 DEF Adopt
  <1>4. CASE \E c \in D, S \in SUBSET Reader, i \in Nat : m = AdoptAck(c, Root, S, i)
    BY <1>4 DEF AdoptAck
  <1>5. CASE \E n \in Reader, p \in Member : m = Unsub(n, p)
    BY <1>5 DEF Unsub
  <1>6. CASE \E p \in D, n \in Reader, u \in D \cup {Root} : p # n /\ m = Rehome(p, n, u)
    BY <1>6 DEF Rehome
  <1> QED
    BY <1>1, <1>2, <1>3, <1>4, <1>5, <1>6 DEF TreeMail

\* A message whose attempt is numbered anew, or that is rerouted.
LEMMA TreeAltered ==
  ASSUME NEW D \in SUBSET Reader, NEW m, TreeMail(m, D)
  PROVE  /\ m.t \in {"sub", "deliver"} =>
              \A k : /\ TreeMail([m EXCEPT !.k = k], D) /\ [m EXCEPT !.k = k].t = m.t
         /\ m.t = "sub" => TreeMail([m EXCEPT !.to = Root], D) /\ [m EXCEPT !.to = Root].t = "sub"
  <1>1. CASE \E n \in Reader, p \in Member : \E k : m = Sub(n, p, k)
    <2>1. PICK n \in Reader, p \in Member : \E k : m = Sub(n, p, k)
      BY <1>1
    <2>2. PICK k : m = Sub(n, p, k)
      BY <2>1
    <2>3. (\A j : [m EXCEPT !.k = j] = Sub(n, p, j)) /\ [m EXCEPT !.to = Root] = Sub(n, Root, k)
      BY <2>2 DEF Sub
    <2>4. \A j : Sub(n, p, j).t = "sub" /\ Sub(n, Root, j).t = "sub" /\ TreeMail(Sub(n, p, j), D) /\ TreeMail(Sub(n, Root, j), D)
      <3>1. Root \in Member
        BY DEF Member
      <3>2. \A j : Sub(n, p, j).t = "sub" /\ Sub(n, Root, j).t = "sub"
        BY DEF Sub
      <3> QED
        BY <3>1, <3>2 DEF TreeMail
    <2>5. ASSUME NEW j PROVE TreeMail([m EXCEPT !.k = j], D) /\ [m EXCEPT !.k = j].t = "sub"
      <3>1. PICK x : x = Sub(n, p, j)
        OBVIOUS
      <3>2. [m EXCEPT !.k = j] = x
        BY <2>3, <3>1
      <3>3. TreeMail(x, D) /\ x.t = "sub"
        BY <2>4, <3>1
      <3> QED
        BY <3>2, <3>3
    <2>7. TreeMail([m EXCEPT !.to = Root], D) /\ [m EXCEPT !.to = Root].t = "sub"
      BY <2>3, <2>4
    <2>6. m.t = "sub"
      BY <2>2 DEF Sub
    <2> QED
      BY <2>5, <2>6, <2>7
  <1>2. CASE \E p \in D \cup {Root}, n \in Reader, d \in D \cup {Nobody} : \E k, g : p # n /\ m = Delivers(p, n, k, g, d)
    <2>1. PICK p \in D \cup {Root}, n \in Reader, d \in D \cup {Nobody} : \E k, g : p # n /\ m = Delivers(p, n, k, g, d)
      BY <1>2
    <2>2. PICK k, g : p # n /\ m = Delivers(p, n, k, g, d)
      BY <2>1
    <2>3. \A j : [m EXCEPT !.k = j] = Delivers(p, n, j, g, d)
      BY <2>2 DEF Delivers
    <2>4. \A j : Delivers(p, n, j, g, d).t = "deliver"
      BY DEF Delivers
    <2>5. \A j : TreeMail(Delivers(p, n, j, g, d), D)
      BY <2>2 DEF TreeMail
    <2>6. \A j : TreeMail([m EXCEPT !.k = j], D) /\ [m EXCEPT !.k = j].t = "deliver"
      BY <2>3, <2>4, <2>5
    <2>7. m.t = "deliver"
      BY <2>2 DEF Delivers
    <2> QED
      BY <2>6, <2>7
  <1>3. CASE m.t \notin {"sub", "deliver"}
    BY <1>3
  <1> QED
    <2>1. \/ m.t \notin {"sub", "deliver"}
          \/ \E n \in Reader, p \in Member : \E k : m = Sub(n, p, k)
          \/ \E p \in D \cup {Root}, n \in Reader, d \in D \cup {Nobody} : \E k, g : p # n /\ m = Delivers(p, n, k, g, d)
      BY DEF TreeMail, Adopt, AdoptAck, Unsub, Rehome
    <2> QED
      BY <1>1, <1>2, <1>3, <2>1

LEMMA TreeInit == DtInit => \A D \in SUBSET Reader : TreeOver(D)
  BY TreeAssumption DEF DtInit, TreeOver, TreeShape, Member, Delegation

\* A child of the root is never over capacity.
LEMMA NeverFull ==
  ASSUME NEW D \in SUBSET Reader, TreeOver(D), NEW p \in Reader, NEW n \in Reader, n \notin seats[p], n # p
  PROVE  ~Full(p)
  <1>1. seats[p] \subseteq (Reader \ {p}) \ {n}
    BY DEF TreeOver, TreeShape, Member
  <1>2. IsFiniteSet(Reader) /\ Cardinality(Reader) \in Nat /\ Cardinality(Reader) <= MaxDirect + 1 /\ MaxDirect \in Nat
    BY TreeAssumption, FS_CardinalityType
  <1>3. IsFiniteSet(Reader \ {p}) /\ Cardinality(Reader \ {p}) = Cardinality(Reader) - 1
    BY <1>2, FS_RemoveElement
  <1>4. IsFiniteSet((Reader \ {p}) \ {n}) /\ Cardinality((Reader \ {p}) \ {n}) = Cardinality(Reader) - 2
    BY <1>2, <1>3, FS_RemoveElement
  <1>5. Cardinality(seats[p]) <= Cardinality(Reader) - 2 /\ Cardinality(seats[p]) \in Nat
    BY <1>1, <1>4, FS_Subset, FS_CardinalityType
  <1> QED
    BY <1>2, <1>5 DEF Full

\* Messages that are built.
LEMMA TreeBuilt ==
  ASSUME NEW D \in SUBSET Reader
  PROVE  /\ \A n \in Reader, p \in Member : (\A k : TreeMail(Sub(n, p, k), D)) /\ TreeMail(Unsub(n, p), D)
         /\ \A p \in D \cup {Root}, n \in Reader, d \in D \cup {Nobody} : \A k, g : p # n => TreeMail(Delivers(p, n, k, g, d), D)
         /\ \A c \in D, S \in SUBSET Reader, i \in Nat : TreeMail(Adopt(Root, c, S, i), D) /\ TreeMail(AdoptAck(c, Root, S, i), D)
         /\ \A p \in D, n \in Reader, u \in D \cup {Root} : p # n => TreeMail(Rehome(p, n, u), D)
  <1>1. \A n \in Reader, p \in Member : (\A k : TreeMail(Sub(n, p, k), D)) /\ TreeMail(Unsub(n, p), D)
    BY DEF TreeMail
  <1>2. \A p \in D \cup {Root}, n \in Reader, d \in D \cup {Nobody} : \A k, g : p # n => TreeMail(Delivers(p, n, k, g, d), D)
    <2>1. ASSUME NEW p \in D \cup {Root}, NEW n \in Reader, NEW d \in D \cup {Nobody}, NEW k, NEW g, p # n
          PROVE  TreeMail(Delivers(p, n, k, g, d), D)
      BY <2>1, Zenon DEF TreeMail
    <2> QED
      BY <2>1
  <1>3. \A c \in D, S \in SUBSET Reader, i \in Nat : TreeMail(Adopt(Root, c, S, i), D) /\ TreeMail(AdoptAck(c, Root, S, i), D)
    BY DEF TreeMail
  <1>4. \A p \in D, n \in Reader, u \in D \cup {Root} : p # n => TreeMail(Rehome(p, n, u), D)
    BY DEF TreeMail
  <1> QED
    BY <1>1, <1>2, <1>3, <1>4

LEMMA RootIsApart == Root \notin Reader /\ Nobody \notin Reader /\ Root # Nobody /\ Member = Reader \cup {Root}
  BY TreeAssumption DEF Member, Root, Nobody

\* Subscribing, leaving, renewing.
LEMMA ReaderSteps ==
  ASSUME NEW D \in SUBSET Reader, TreeOver(D), NEW n \in Reader, Subscribe(n) \/ Unsubscribe(n) \/ RenewSeat(n)
  PROVE  TreeOver(D)'
  <1>1. Target(n) \in Member
    BY RootIsApart DEF TreeOver, TreeShape, Target
  <1>2. PICK p \in Member : p = Target(n)
    BY <1>1
  <1>3. /\ UNCHANGED <<dead, relay, seats, kids, pend, promotes, losses>>
        /\ want' \subseteq Reader \ dead /\ attached' \subseteq Reader /\ left' \subseteq Reader
        /\ pin' = [pin EXCEPT ![n] = Nobody] \/ pin' = pin
    BY DEF TreeOver, TreeShape, Subscribe, Unsubscribe, RenewSeat, counts
  <1>4. \A x \in mail' : x \in mail \/ (\E k : x = Sub(n, p, k)) \/ x = Unsub(n, p)
    BY <1>2 DEF Subscribe, Unsubscribe, RenewSeat, Subscribing, Target
  <1>5. \A x \in mail' : TreeMail(x, D)
    BY <1>4, TreeBuilt DEF TreeOver
  <1>6. TreeShape(D)'
    BY <1>3, RootIsApart DEF TreeOver, TreeShape
  <1> QED
    BY <1>5, <1>6 DEF TreeOver

\* A SUB that opens no delegation.
LEMMA SubSteps ==
  ASSUME NEW D \in SUBSET Reader, TreeOver(D), NEW m \in mail, SubRerouted(m) \/ SubRenewed(m) \/ SubSeated(m) \/ SubDeepens(m)
  PROVE  TreeOver(D)'
  <1>1. TreeMail(m, D) /\ m.t = "sub" /\ m.from \in Reader /\ m.to \in Member
    BY TreeFields DEF TreeOver, SubRerouted, SubRenewed, SubSeated, SubDeepens, Heads
  <1>2. PICK n \in Reader, p \in Member : n = m.from /\ p = m.to
    BY <1>1
  <1>3. CASE SubRerouted(m)
    <2>1. UNCHANGED <<want, dead, relay, seats, kids, pend, pin, attached, counts>> /\ \A x \in mail' : x \in mail \/ x = [m EXCEPT !.to = Root]
      BY <1>3 DEF SubRerouted
    <2>2. \A x \in mail' : TreeMail(x, D)
      BY <1>1, <2>1, TreeAltered DEF TreeOver
    <2> QED
      BY <2>1, <2>2 DEF TreeOver, TreeShape, counts
  <1>4. ASSUME Heads(m) PROVE p \in D \cup {Root}
    BY <1>2, <1>4 DEF Heads, Serves, TreeOver, TreeShape
  <1>5. CASE SubRenewed(m)
    <2>1. /\ UNCHANGED <<want, dead, relay, seats, kids, pend, pin, attached, counts>> /\ Heads(m) /\ n \in seats[p]
          /\ \A x \in mail' : x \in mail \/ \E k, g : x = Delivers(p, n, k, g, Nobody)
      BY <1>2, <1>5 DEF SubRenewed
    <2>2. p # n
      BY <2>1, RootIsApart DEF TreeOver, TreeShape
    <2>3. \A x \in mail' : TreeMail(x, D)
      BY <1>4, <2>1, <2>2, TreeBuilt DEF TreeOver
    <2> QED
      BY <2>1, <2>3 DEF TreeOver, TreeShape, counts
  <1>6. CASE SubSeated(m)
    <2>1. /\ UNCHANGED <<want, dead, relay, kids, pend, pin, attached, counts>> /\ Heads(m) /\ n # p
          /\ seats' = [seats EXCEPT ![p] = @ \cup {n}]
          /\ \A x \in mail' : x \in mail \/ \E k, g : x = Delivers(p, n, k, g, Nobody)
      BY <1>2, <1>6 DEF SubSeated
    <2>2. \A x \in mail' : TreeMail(x, D)
      BY <1>4, <2>1, TreeBuilt DEF TreeOver
    <2>3. p = Root \/ p \in relay
      BY <1>2, <2>1 DEF Heads, Serves
    <2>4. TreeShape(D)'
      BY <2>1, <2>3, RootIsApart DEF TreeOver, TreeShape, counts
    <2> QED
      BY <2>2, <2>4 DEF TreeOver
  <1>7. CASE SubDeepens(m)
    <2>1. /\ UNCHANGED <<want, dead, relay, seats, pend, pin, attached, counts>> /\ n # p /\ n \notin seats[p] /\ Full(p)
          /\ kids' = [kids EXCEPT ![p] = @ \cap seats[p]]
          /\ \E c \in kids[p] \cap seats[p] : \A x \in mail' :
                x \in mail \/ x = Adopt(p, c, {n}, 0) \/ \E k, g : x = Delivers(p, n, k, g, c)
      BY <1>2, <1>7 DEF SubDeepens
    <2>2. p = Root
      BY <2>1, NeverFull, RootIsApart
    <2>3. \A x \in mail' : TreeMail(x, D)
      <3>1. PICK c \in kids[p] \cap seats[p] : \A x \in mail' :
                x \in mail \/ x = Adopt(p, c, {n}, 0) \/ \E k, g : x = Delivers(p, n, k, g, c)
        BY <2>1
      <3>2. c \in D /\ {n} \in SUBSET Reader /\ 0 \in Nat
        BY <2>2, RootIsApart DEF TreeOver, TreeShape
      <3>3. TreeMail(Adopt(p, c, {n}, 0), D)
        BY <2>2, <3>2, TreeBuilt
      <3>4. \A k, g : TreeMail(Delivers(p, n, k, g, c), D)
        BY <2>1, <2>2, <3>2, TreeBuilt
      <3> QED
        BY <3>1, <3>3, <3>4 DEF TreeOver
    <2>4. TreeShape(D)'
      BY <2>1, <2>2, RootIsApart DEF TreeOver, TreeShape, counts
    <2> QED
      BY <2>3, <2>4 DEF TreeOver
  <1> QED
    BY <1>3, <1>5, <1>6, <1>7

\* A SUB that opens a delegation, at the root only: one reader more is to be a child.
PromotesTo(n, c, S) ==
    /\ c \in Reader /\ n \notin seats[Root] /\ promotes < MaxPromote /\ promotes' = promotes + 1
    /\ kids' = [kids EXCEPT ![Root] = @ \cup {c}]
    /\ pend' = [pend EXCEPT ![Root] = @ \cup {[nonce |-> promotes + 1, child |-> c, subs |-> S]}]
    /\ seats' = [seats EXCEPT ![Root] = @ \cup {n}]
    /\ \A x \in mail' : \/ x \in mail \/ x = Adopt(Root, c, S, promotes + 1)
                        \/ \E b \in Reader : \E k, g : x = Delivers(Root, b, k, g, c)
                        \/ \E k, g : x = Delivers(Root, n, k, g, Nobody)
    /\ UNCHANGED <<want, dead, relay, pin, attached, losses, left>>

LEMMA PromoteIs ==
  ASSUME NEW D \in SUBSET Reader, TreeOver(D), NEW m \in mail, SubPromotes(m)
  PROVE  m.t = "sub" /\ \E n \in Reader, c \in Leaves(Root) : PromotesTo(n, c, Leaves(Root) \ {c})
  <1>1. TreeMail(m, D) /\ m.t = "sub" /\ m.from \in Reader /\ m.to \in Member
    BY TreeFields DEF TreeOver, SubPromotes, Heads
  <1>2. m.from \notin seats[m.to] /\ m.from # m.to /\ Full(m.to)
    BY DEF SubPromotes
  <1>3. m.to = Root
    BY <1>1, <1>2, NeverFull, RootIsApart
  <1>4. PICK n \in Reader : n = m.from
    BY <1>1
  <1>5. Leaves(Root) \subseteq Reader
    BY RootIsApart DEF Leaves, TreeOver, TreeShape
  <1>6. PICK i : i = promotes + 1 /\ i = promotes'
    BY DEF SubPromotes
  <1>7. PICK c \in Leaves(Root) :
           /\ kids' = [kids EXCEPT ![Root] = @ \cup {c}]
           /\ pend' = [pend EXCEPT ![Root] = @ \cup {[nonce |-> i, child |-> c, subs |-> Leaves(Root) \ {c}]}]
           /\ mail' = (mail \ {m}) \cup {Adopt(Root, c, Leaves(Root) \ {c}, i)}
                         \cup {Delivers(Root, b, 0, GenCarried(Root), c) : b \in Leaves(Root) \ {c}}
                         \cup {Delivers(Root, n, m.k, GenCarried(Root), Nobody)}
    <2>1. PICK c \in Leaves(m.to) :
           /\ kids' = [kids EXCEPT ![m.to] = @ \cup {c}]
           /\ pend' = [pend EXCEPT ![m.to] = @ \cup {[nonce |-> promotes', child |-> c, subs |-> Leaves(m.to) \ {c}]}]
           /\ mail' = (mail \ {m}) \cup {Adopt(m.to, c, Leaves(m.to) \ {c}, promotes')}
                         \cup {Delivers(m.to, b, 0, GenCarried(m.to), c) : b \in Leaves(m.to) \ {c}}
                         \cup {Delivers(m.to, m.from, m.k, GenCarried(m.to), Nobody)}
      BY Zenon DEF SubPromotes
    <2>2. kids' = [kids EXCEPT ![Root] = @ \cup {c}]
      BY <1>3, <2>1
    <2>3. pend' = [pend EXCEPT ![Root] = @ \cup {[nonce |-> i, child |-> c, subs |-> Leaves(Root) \ {c}]}]
      BY <1>3, <1>6, <2>1
    <2>4. mail' = (mail \ {m}) \cup {Adopt(Root, c, Leaves(Root) \ {c}, i)}
                         \cup {Delivers(Root, b, 0, GenCarried(Root), c) : b \in Leaves(Root) \ {c}}
                         \cup {Delivers(Root, n, m.k, GenCarried(Root), Nobody)}
      BY <1>3, <1>4, <1>6, <2>1
    <2> QED
      BY <1>3, <2>1, <2>2, <2>3, <2>4
  <1>8. \A x \in mail' : \/ x \in mail \/ x = Adopt(Root, c, Leaves(Root) \ {c}, promotes + 1)
                         \/ \E b \in Reader : \E k, g : x = Delivers(Root, b, k, g, c)
                         \/ \E k, g : x = Delivers(Root, n, k, g, Nobody)
    BY <1>5, <1>6, <1>7
  <1>9. /\ promotes < MaxPromote /\ promotes' = promotes + 1 /\ seats' = [seats EXCEPT ![Root] = @ \cup {n}]
        /\ UNCHANGED <<want, dead, relay, pin, attached, losses, left>>
    BY <1>3, <1>4 DEF SubPromotes
  <1>10. PromotesTo(n, c, Leaves(Root) \ {c})
    BY <1>2, <1>3, <1>4, <1>5, <1>6, <1>7, <1>8, <1>9 DEF PromotesTo
  <1> QED
    BY <1>1, <1>10

LEMMA PromoteStep ==
  ASSUME NEW D \in SUBSET Reader, TreeOver(D), NEW m \in mail, SubPromotes(m)
  PROVE  \E c \in Reader : TreeOver(D \cup {c})' /\ promotes' = promotes + 1
  <1>1. PICK n \in Reader, c \in Leaves(Root) : PromotesTo(n, c, Leaves(Root) \ {c})
    BY PromoteIs
  <1> USE DEF PromotesTo
  <1>2. PICK E \in SUBSET Reader : E = D \cup {c}
    BY <1>1
  <1>3. promotes \in Nat /\ promotes' \in 0..MaxPromote /\ Leaves(Root) \ {c} \in SUBSET Reader
    BY <1>1, TreeAssumption, RootIsApart DEF TreeOver, TreeShape, Leaves
  <1>4. \A x \in mail : TreeMail(x, E)
    <2>1. ASSUME NEW x, TreeMail(x, D) PROVE TreeMail(x, E)
      BY <1>2, <2>1 DEF TreeMail
    <2> QED
      BY <2>1 DEF TreeOver
  <1>5. /\ TreeMail(Adopt(Root, c, Leaves(Root) \ {c}, promotes + 1), E)
        /\ \A b \in Reader : \A k, g : TreeMail(Delivers(Root, b, k, g, c), E)
        /\ \A k, g : TreeMail(Delivers(Root, n, k, g, Nobody), E)
    <2>1. promotes + 1 \in Nat /\ c \in E
      BY <1>2, <1>3
    <2> QED
      BY <1>3, <2>1, TreeBuilt, RootIsApart
  <1>6. \A x \in mail' : TreeMail(x, E)
    BY <1>1, <1>4, <1>5
  <1>7. pend' \in [Member -> SUBSET Delegation(E)] /\ \A x \in Reader : pend'[x] = {}
    <2>1. [nonce |-> promotes + 1, child |-> c, subs |-> Leaves(Root) \ {c}] \in Delegation(E)
      BY <1>2, <1>3 DEF Delegation
    <2>2. Delegation(D) \subseteq Delegation(E)
      BY <1>2 DEF Delegation
    <2> QED
      BY <1>1, <2>1, <2>2, RootIsApart DEF TreeOver, TreeShape
  <1>8. TreeShape(E)'
    <2>1. /\ want' \subseteq Reader \ dead' /\ dead' \subseteq Reader /\ relay' \subseteq E \ dead'
          /\ attached' \subseteq Reader /\ left' \subseteq Reader /\ pin' \in [Reader -> E \cup {Root, Nobody}] /\ losses' \in 0..MaxLoss
      BY <1>1, <1>2 DEF TreeOver, TreeShape
    <2>2. /\ seats' \in [Member -> SUBSET Reader] /\ kids' \in [Member -> SUBSET E]
          /\ \A x \in Reader : seats'[x] = seats[x] /\ kids'[x] = kids[x]
      BY <1>1, <1>2, RootIsApart DEF TreeOver, TreeShape
    <2>3. \A x \in Reader : pin'[x] # x /\ x \notin seats'[x] /\ (x \notin relay' => seats'[x] = {}) /\ kids'[x] = {}
      BY <1>1, <2>2 DEF TreeOver, TreeShape
    <2> QED
      BY <1>3, <1>7, <2>1, <2>2, <2>3 DEF TreeShape
  <1> QED
    BY <1>1, <1>2, <1>6, <1>8 DEF TreeOver

LEMMA AdoptStep ==
  ASSUME NEW D \in SUBSET Reader, TreeOver(D), NEW m \in mail, OnAdopt(m)
  PROVE  TreeOver(D)'
  <1>1. m.t = "adopt" /\ m.from = Root /\ m.to \in D /\ m.subs \in SUBSET Reader /\ m.nonce \in Nat
    BY TreeFields DEF TreeOver, OnAdopt
  <1>2. PICK c \in D, S \in SUBSET Reader, i \in Nat : c = m.to /\ S = m.subs \ {m.to} /\ i = m.nonce
    BY <1>1
  <1>3. /\ c \notin dead /\ relay' = relay \cup {c} /\ pin' = [pin EXCEPT ![c] = Root]
        /\ seats' = [seats EXCEPT ![c] = @ \cup S] /\ UNCHANGED <<want, dead, kids, pend, attached, counts>>
    BY <1>1, <1>2 DEF OnAdopt
  <1>4. c \in Reader /\ Root \in Member
    BY RootIsApart
  <1>5. \A x \in mail' : x \in mail \/ x = AdoptAck(c, Root, S, i) \/ (\E k : x = Sub(c, Root, k)) \/ \E b \in S : \E k, g : x = Delivers(c, b, k, g, Nobody)
    <2>1. [pin EXCEPT ![c] = Root][c] = Root
      BY <1>4 DEF TreeOver, TreeShape
    <2>2. \E k : Subscribing(c, [pin EXCEPT ![c] = Root]) = Sub(c, Root, k)
      BY <2>1, RootIsApart DEF Subscribing
    <2>3. mail' = (mail \ {m}) \cup {AdoptAck(c, Root, S, i), Subscribing(c, [pin EXCEPT ![c] = Root])}
                    \cup (IF GenCarried(c) THEN {} ELSE {Delivers(c, b, 0, FALSE, Nobody) : b \in S \ seats[c]})
      BY <1>1, <1>2 DEF OnAdopt
    <2> QED
      BY <2>2, <2>3
  <1>6. c \notin S
    BY <1>2
  <1>7. \A x \in mail' : TreeMail(x, D)
    <2>1. TreeMail(AdoptAck(c, Root, S, i), D) /\ \A k : TreeMail(Sub(c, Root, k), D)
      BY <1>4, TreeBuilt
    <2>2. \A b \in S : \A k, g : TreeMail(Delivers(c, b, k, g, Nobody), D)
      BY <1>6, TreeBuilt
    <2> QED
      BY <1>5, <2>1, <2>2 DEF TreeOver
  <1>8. TreeShape(D)'
    BY <1>3, <1>4, <1>6, RootIsApart DEF TreeOver, TreeShape, counts
  <1> QED
    BY <1>7, <1>8 DEF TreeOver

LEMMA SettleStep ==
  ASSUME NEW D \in SUBSET Reader, TreeOver(D), NEW p \in Member, NEW d \in pend[p], NEW S, Settle(p, d, S),
         mail' \subseteq mail, UNCHANGED <<want, dead, relay, pin, attached, counts>>
  PROVE  TreeOver(D)' /\ p = Root
  <1>1. p = Root
    BY RootIsApart DEF TreeOver, TreeShape
  <1>2. /\ pend' = [pend EXCEPT ![p] = @ \ {d}] /\ seats' = [seats EXCEPT ![p] = @ \ Released(p, d, S)]
        /\ kids' = [kids EXCEPT ![p] = @ \ {d.child}] \/ kids' = kids
    BY DEF Settle
  <1>3. TreeShape(D)'
    BY <1>1, <1>2, RootIsApart DEF TreeOver, TreeShape, counts
  <1> QED
    BY <1>1, <1>3 DEF TreeOver

LEMMA DelegationSteps ==
  ASSUME NEW D \in SUBSET Reader, TreeOver(D),
         (\E m \in mail : OnAdoptAck(m)) \/ \E p \in Member : DelegationTimeout(p)
  PROVE  TreeOver(D)'
  <1>1. ASSUME NEW m \in mail, OnAdoptAck(m) PROVE TreeOver(D)'
    <2>1. m.to = Root /\ Root \in Member
      BY <1>1, TreeFields, RootIsApart DEF TreeOver, OnAdoptAck
    <2>2. mail' \subseteq mail /\ UNCHANGED <<want, dead, relay, pin, attached, counts>>
          /\ \/ \E d \in pend[m.to] : Settle(m.to, d, m.subs)
             \/ UNCHANGED <<seats, kids, pend>>
      BY <1>1 DEF OnAdoptAck
    <2>3. CASE \E d \in pend[m.to] : Settle(m.to, d, m.subs)
      BY <2>1, <2>2, <2>3, SettleStep
    <2>4. CASE UNCHANGED <<seats, kids, pend>>
      BY <2>2, <2>4 DEF TreeOver, TreeShape, counts
    <2> QED
      BY <2>2, <2>3, <2>4
  <1>2. ASSUME NEW p \in Member, DelegationTimeout(p) PROVE TreeOver(D)'
    <2>1. PICK d \in pend[p] : Settle(p, d, {})
      BY <1>2 DEF DelegationTimeout
    <2>2. mail' \subseteq mail /\ UNCHANGED <<want, dead, relay, pin, attached, counts>>
      BY <1>2 DEF DelegationTimeout
    <2>3. PICK S : S = {}
      OBVIOUS
    <2> QED
      BY <2>1, <2>2, <2>3, SettleStep
  <1> QED
    BY <1>1, <1>2

\* Every message after a commit is one before it, but for its attempt.
LEMMA CommittedIs ==
  ASSUME NEW D \in SUBSET Reader, NEW N, \A x \in N : TreeMail(x, D), NEW n, NEW k
  PROVE  \A y \in Committed(n, k, N) : y \in N \/ (TreeMail(y, D) /\ y.t \in {"sub", "deliver"})
  <1>1. \A y \in Committed(n, k, N) : y \in N \/ \E x \in N : \E j : y = [x EXCEPT !.k = j] /\ x.t \in {"sub", "deliver"}
    BY DEF Committed
  <1>2. ASSUME NEW x \in N, NEW j, x.t \in {"sub", "deliver"}
        PROVE  TreeMail([x EXCEPT !.k = j], D) /\ [x EXCEPT !.k = j].t \in {"sub", "deliver"}
    BY <1>2, TreeAltered
  <1>3. ASSUME NEW y \in Committed(n, k, N), y \notin N PROVE TreeMail(y, D) /\ y.t \in {"sub", "deliver"}
    <2>1. PICK x \in N : \E j : y = [x EXCEPT !.k = j] /\ x.t \in {"sub", "deliver"}
      BY <1>1, <1>3
    <2>2. PICK j : y = [x EXCEPT !.k = j] /\ x.t \in {"sub", "deliver"}
      BY <2>1
    <2>3. TreeMail([x EXCEPT !.k = j], D) /\ [x EXCEPT !.k = j].t \in {"sub", "deliver"}
      BY <1>2, <2>2
    <2> QED
      BY <2>2, <2>3
  <1> QED
    BY <1>3

LEMMA DeliverStep ==
  ASSUME NEW D \in SUBSET Reader, TreeOver(D), NEW m \in mail, OnDeliver(m)
  PROVE  TreeOver(D)' /\ \A y \in mail' : y \in mail \/ y.t \in {"sub", "deliver"}
  <1>1. m.from \in D \cup {Root} /\ m.to \in Reader /\ m.from # m.to /\ m.delegate \in D \cup {Nobody}
    BY TreeFields DEF TreeOver, OnDeliver
  <1>2. UNCHANGED <<want, dead, relay, seats, kids, pend, counts>> /\ attached' \subseteq Reader
    BY <1>1 DEF OnDeliver, TreeOver, TreeShape
  <1>3. pin' = pin \/ \E p \in D \cup {Root} : p # m.to /\ pin' = [pin EXCEPT ![m.to] = p]
    <2>1. pin' = pin \/ pin' = [pin EXCEPT ![m.to] = m.from]
          \/ (m.delegate \notin {Nobody, m.to} /\ pin' = [pin EXCEPT ![m.to] = m.delegate])
      BY DEF OnDeliver
    <2> QED
      BY <1>1, <2>1
  <1>4. \A y \in mail' : (y \in mail \/ y.t \in {"sub", "deliver"}) /\ TreeMail(y, D)
    <2>1. PICK N : N = mail \ {m}
      OBVIOUS
    <2>2. mail' = Committed(m.to, m.k, N) \/ mail' = N
      BY <2>1 DEF OnDeliver
    <2>3. \A y \in Committed(m.to, m.k, N) : y \in N \/ (TreeMail(y, D) /\ y.t \in {"sub", "deliver"})
      BY <2>1, CommittedIs DEF TreeOver
    <2> QED
      BY <2>1, <2>2, <2>3 DEF TreeOver
  <1>5. TreeShape(D)'
    BY <1>1, <1>2, <1>3, RootIsApart DEF TreeOver, TreeShape, counts
  <1> QED
    BY <1>4, <1>5 DEF TreeOver

LEMMA GoneStep ==
  ASSUME NEW D \in SUBSET Reader, TreeOver(D), NEW n \in Reader, RoleGone(n), UNCHANGED <<want, dead, counts>>
  PROVE  TreeShape(D)'
  BY RootIsApart DEF RoleGone, TreeOver, TreeShape, counts

LEMMA LeaveSteps ==
  ASSUME NEW D \in SUBSET Reader, TreeOver(D),
         \/ \E m \in mail : OnUnsub(m) \/ OnRehome(m) \/ Lose(m)
         \/ \E p \in Member, n \in Reader : Lapse(p, n)
         \/ \E n \in Reader : Reap(n) \/ StepDown(n) \/ Die(n) \/ Unpin(n)
  PROVE  TreeOver(D)'
  <1>1. ASSUME NEW m \in mail, OnUnsub(m) PROVE TreeOver(D)'
    <2>1. m.from \in Reader /\ m.to \in Member
      BY <1>1, TreeFields DEF TreeOver, OnUnsub
    <2>2. PICK n \in Reader, p \in Member : n = m.from /\ p = m.to
      BY <2>1
    <2>3. /\ UNCHANGED <<want, dead, relay, pend, pin, attached, counts>>
          /\ \A x \in mail' : x \in mail \/ x = Unsub(n, Root)
          /\ \/ seats' = [seats EXCEPT ![p] = @ \ {n}] /\ kids' = [kids EXCEPT ![p] = @ \ {n}]
             \/ UNCHANGED <<seats, kids>>
      BY <1>1, <2>2 DEF OnUnsub
    <2>6. TreeMail(Unsub(n, Root), D)
      BY TreeBuilt, RootIsApart
    <2>4. \A x \in mail' : TreeMail(x, D)
      BY <2>3, <2>6 DEF TreeOver
    <2>5. TreeShape(D)'
      BY <2>3, RootIsApart DEF TreeOver, TreeShape, counts
    <2> QED
      BY <2>4, <2>5 DEF TreeOver
  <1>2. ASSUME NEW m \in mail, OnRehome(m) PROVE TreeOver(D)'
    <2>1. m.to \in Reader /\ m.upstream \in D \cup {Root}
      BY <1>2, TreeFields DEF TreeOver, OnRehome
    <2>2. PICK n \in Reader, u \in D \cup {Root, Nobody} : n = m.to /\ u = (IF m.upstream = m.to THEN Nobody ELSE m.upstream) /\ u # n
      BY <2>1, RootIsApart
    <2>3. /\ UNCHANGED <<want, dead, relay, seats, kids, pend, attached, counts>>
          /\ pin' = [pin EXCEPT ![n] = u] \/ pin' = pin
          /\ \A x \in mail' : x \in mail \/ x = Subscribing(n, [pin EXCEPT ![n] = u])
      BY <1>2, <2>2 DEF OnRehome
    <2>4. \E p \in Member : \E k : Subscribing(n, [pin EXCEPT ![n] = u]) = Sub(n, p, k)
      <3>1. [pin EXCEPT ![n] = u][n] = u
        BY DEF TreeOver, TreeShape
      <3> QED
        BY <3>1, RootIsApart DEF Subscribing
    <2>5. \A x \in mail' : TreeMail(x, D)
      BY <2>3, <2>4, TreeBuilt DEF TreeOver
    <2>6. TreeShape(D)'
      BY <2>2, <2>3, RootIsApart DEF TreeOver, TreeShape, counts
    <2> QED
      BY <2>5, <2>6 DEF TreeOver
  <1>3. ASSUME NEW m \in mail, Lose(m) PROVE TreeOver(D)'
    BY <1>3, TreeAssumption DEF Lose, TreeOver, TreeShape
  <1>4. ASSUME NEW p \in Member, NEW n \in Reader, Lapse(p, n) PROVE TreeOver(D)'
    BY <1>4, RootIsApart DEF Lapse, TreeOver, TreeShape, counts
  <1>5. ASSUME NEW n \in Reader, Reap(n) PROVE TreeOver(D)'
    BY <1>5, GoneStep DEF Reap, TreeOver
  <1>6. ASSUME NEW n \in Reader, StepDown(n) PROVE TreeOver(D)'
    <2>1. n \in D /\ pin[n] \in D \cup {Root} /\ seats[n] \subseteq Reader /\ n \notin seats[n]
      BY <1>6, RootIsApart DEF StepDown, ThinBranch, TreeOver, TreeShape
    <2>2. PICK u \in D \cup {Root} : u = pin[n]
      BY <2>1
    <2>3. \A x \in mail' : x \in mail \/ (\E b \in seats[n] : x = Rehome(n, b, u)) \/ x = Unsub(n, u)
      BY <1>6, <2>2 DEF StepDown
    <2>4. TreeMail(Unsub(n, u), D) /\ \A b \in seats[n] : TreeMail(Rehome(n, b, u), D)
      BY <2>1, TreeBuilt, RootIsApart
    <2>5. TreeShape(D)'
      BY <1>6, GoneStep DEF StepDown
    <2> QED
      BY <2>3, <2>4, <2>5 DEF TreeOver
  <1>7. ASSUME NEW n \in Reader, Die(n) PROVE TreeOver(D)'
    <2>1. TreeShape(D)'
      BY <1>7, RootIsApart, TreeAssumption DEF Die, TreeOver, TreeShape
    <2> QED
      BY <1>7, <2>1 DEF Die, TreeOver
  <1>8. ASSUME NEW n \in Reader, Unpin(n) PROVE TreeOver(D)'
    BY <1>8, RootIsApart DEF Unpin, TreeOver, TreeShape, counts
  <1> QED
    BY <1>1, <1>2, <1>3, <1>4, <1>5, <1>6, <1>7, <1>8

LEMMA HandleSteps ==
  ASSUME NEW D \in SUBSET Reader, TreeOver(D), DtNext, \A m \in mail : ~SubPromotes(m)
  PROVE  TreeOver(D)'
  <1>1. CASE \E n \in Reader : Subscribe(n) \/ Unsubscribe(n) \/ RenewSeat(n)
    BY <1>1, ReaderSteps
  <1>2. CASE \E m \in mail : SubRerouted(m) \/ SubRenewed(m) \/ SubSeated(m) \/ SubDeepens(m)
    BY <1>2, SubSteps
  <1>3. CASE \E m \in mail : OnAdopt(m)
    BY <1>3, AdoptStep
  <1>4. CASE \E m \in mail : OnDeliver(m)
    BY <1>4, DeliverStep
  <1>5. CASE (\E m \in mail : OnAdoptAck(m)) \/ \E p \in Member : DelegationTimeout(p)
    BY <1>5, DelegationSteps
  <1>6. CASE \/ \E m \in mail : OnUnsub(m) \/ OnRehome(m) \/ Lose(m)
             \/ \E p \in Member, n \in Reader : Lapse(p, n)
             \/ \E n \in Reader : Reap(n) \/ StepDown(n) \/ Die(n) \/ Unpin(n)
    BY <1>6, LeaveSteps
  <1> QED
    BY <1>1, <1>2, <1>3, <1>4, <1>5, <1>6 DEF DtNext, Handle

LEMMA StillTree ==
  ASSUME NEW D \in SUBSET Reader, TreeOver(D), UNCHANGED dtVars
  PROVE  TreeOver(D)'
  BY DEF TreeOver, TreeShape, dtVars

(***************************************************************************)
(* The types of the delivery tree, whatever is lost, late or reordered: no   *)
(* node is its own parent or holds itself, and what steps down, dies or is   *)
(* reaped keeps no seat (_onAdopt, _onDeliver, _retireRole).                 *)
(***************************************************************************)
THEOREM TreeTypesAlways == DtSpec => []DtTypeOK
  <1>1. DtInit => TreeOver(Reader)
    BY TreeInit
  <1>2. TreeOver(Reader) /\ [DtNext]_dtVars => TreeOver(Reader)'
    <2>1. ASSUME TreeOver(Reader), NEW m \in mail, SubPromotes(m) PROVE TreeOver(Reader)'
      <3>1. PICK c \in Reader : TreeOver(Reader \cup {c})'
        BY <2>1, PromoteStep
      <3>2. PICK E : E = Reader \cup {c} /\ E = Reader
        OBVIOUS
      <3> QED
        BY <3>1, <3>2
    <2>2. ASSUME TreeOver(Reader), UNCHANGED dtVars PROVE TreeOver(Reader)'
      BY <2>2, StillTree
    <2>3. ASSUME TreeOver(Reader), DtNext, \A m \in mail : ~SubPromotes(m) PROVE TreeOver(Reader)'
      BY <2>3, HandleSteps
    <2> QED
      BY <2>1, <2>2, <2>3
  <1>3. TreeOver(Reader) => DtTypeOK
    BY RootIsApart DEF TreeOver, TreeShape, DtTypeOK
  <1> QED
    BY <1>1, <1>2, <1>3, PTL DEF DtSpec

(***************************************************************************)
(* What a delegation gives up.                                               *)
(***************************************************************************)
\* As many delegations as there were children.
Adopted(D) == (D # {} => promotes >= 1) /\ \A x, y \in D : x # y => promotes >= 2

\* A delegation under way is the root's, and its number names its child.
Numbered ==
    /\ \A d \in pend[Root] : d.nonce \in 1..promotes
    /\ \A m \in mail : m.t \in {"adopt", "ack"} => m.nonce <= promotes
    /\ \A m \in mail, d \in pend[Root] :
          /\ m.t = "adopt" /\ m.nonce = d.nonce => m.to = d.child
          /\ m.t = "ack" /\ m.nonce = d.nonce => m.from = d.child

\* What a child acknowledged it holds, until the reader leaves or, if in W, steps
\* down as a child itself.
HoldsAcked(W) == \A m \in mail : m.t = "ack" /\ m.nonce # 0 => m.subs \subseteq seats[m.from] \cup left \cup W

\* A child outside W steps down from another one only when all delegations are spent.
Late(W) == \A m \in mail : m.t = "unsub" /\ m.from \notin left \cup W /\ m.to \in Reader =>
          /\ promotes >= 2 /\ MinReaders # 0
          /\ \A x \in mail : x.t \in {"adopt", "ack"} => x.nonce = 0

\* No child outside W stepped down from another one.
NoneLate(W) == \A m \in mail : m.t = "unsub" /\ m.from \notin left \cup W => m.to = Root

Delegated(D, W) == TreeOver(D) /\ Adopted(D) /\ Numbered /\ HoldsAcked(W) /\ Late(W)

\* A message of a step that opens no delegation.
Follows(y, lf, M, Ss) ==
    \/ y \in M
    \/ y.t \notin {"adopt", "ack", "unsub"}
    \/ y.t = "unsub" /\ (y.from \in lf \/ y.to = Root)
    \/ y.t = "adopt" /\ y.nonce = 0
    \/ /\ y.t = "ack" /\ y.subs \subseteq Ss[y.from]
       /\ \E x \in M : x.t = "adopt" /\ x.nonce = y.nonce /\ x.to = y.from

Quiet(W) ==
    /\ promotes' = promotes /\ left \subseteq left' /\ pend'[Root] \subseteq pend[Root]
    /\ \A y \in mail' : Follows(y, left', mail, seats')
    /\ \A m \in mail' \cap mail : m.t = "ack" /\ m.nonce # 0 => seats[m.from] \subseteq seats'[m.from] \cup left' \cup W

LEMMA QuietStep ==
  ASSUME NEW D \in SUBSET Reader, NEW W \in SUBSET Reader, Delegated(D, W), Quiet(W)
  PROVE  Adopted(D)' /\ Numbered' /\ HoldsAcked(W)' /\ Late(W)'
  <1> USE DEF Delegated
  <1>1. Adopted(D)'
    BY DEF Adopted, Quiet
  <1>2. ASSUME NEW y \in mail', y.t \in {"adopt", "ack"}, y \notin mail
        PROVE  \/ y.nonce = 0
               \/ /\ y.t = "ack" /\ y.subs \subseteq seats'[y.from]
                  /\ \E x \in mail : x.t = "adopt" /\ x.nonce = y.nonce /\ x.to = y.from
    BY <1>2 DEF Quiet, Follows
  <1>3. Numbered'
    <2>1. \A d \in pend'[Root] : d \in pend[Root] /\ d.nonce \in 1..promotes'
      BY DEF Quiet, Numbered
    <2>2. promotes \in Nat /\ promotes' = promotes
      BY DEF Quiet, TreeOver, TreeShape
    <2>3. ASSUME NEW y \in mail', y.t \in {"adopt", "ack"} PROVE y.nonce <= promotes'
      BY <1>2, <2>2, <2>3 DEF Numbered
    <2>4. ASSUME NEW y \in mail', NEW d \in pend'[Root], y.nonce = d.nonce
          PROVE  (y.t = "adopt" => y.to = d.child) /\ (y.t = "ack" => y.from = d.child)
      <3>1. d \in pend[Root] /\ d.nonce # 0
        BY <2>1, <2>2
      <3>2. CASE y \in mail
        BY <2>4, <3>1, <3>2 DEF Numbered
      <3>3. CASE y \notin mail
        BY <1>2, <2>4, <3>1, <3>3 DEF Numbered
      <3> QED
        BY <3>2, <3>3
    <2> QED
      BY <2>1, <2>3, <2>4 DEF Numbered
  <1>4. HoldsAcked(W)'
    <2>1. ASSUME NEW y \in mail', y.t = "ack", y.nonce # 0 PROVE y.subs \subseteq seats'[y.from] \cup left' \cup W
      <3>1. CASE y \in mail
        BY <2>1, <3>1 DEF HoldsAcked, Quiet
      <3>2. CASE y \notin mail
        BY <1>2, <2>1, <3>2
      <3> QED
        BY <3>1, <3>2
    <2> QED
      BY <2>1 DEF HoldsAcked
  <1>5. Late(W)'
    <2>1. ASSUME NEW m \in mail', m.t = "unsub", m.from \notin left' \cup W, m.to \in Reader
          PROVE  /\ promotes' >= 2 /\ MinReaders # 0
                 /\ \A x \in mail' : x.t \in {"adopt", "ack"} => x.nonce = 0
      <3>1. m \in mail
        BY <2>1, RootIsApart DEF Quiet, Follows
      <3>2. m.from \notin left \cup W
        BY <2>1 DEF Quiet
      <3>3. promotes >= 2 /\ MinReaders # 0 /\ \A x \in mail : x.t \in {"adopt", "ack"} => x.nonce = 0
        BY <2>1, <3>1, <3>2 DEF Late
      <3>4. ASSUME NEW x \in mail', x.t \in {"adopt", "ack"} PROVE x.nonce = 0
        BY <1>2, <3>3, <3>4
      <3> QED
        BY <3>3, <3>4 DEF Quiet
    <2> QED
      BY <2>1 DEF Late
  <1> QED
    BY <1>1, <1>3, <1>4, <1>5

\* A step that takes no seat from a child.
LEMMA KeptIsQuiet ==
  ASSUME NEW D \in SUBSET Reader, NEW W \in SUBSET Reader, TreeOver(D), promotes' = promotes, left \subseteq left', pend'[Root] \subseteq pend[Root],
         \A c \in Reader : seats[c] \subseteq seats'[c], \A y \in mail' : Follows(y, left', mail, seats')
  PROVE  Quiet(W)
  <1>1. ASSUME NEW m \in mail, m.t = "ack" PROVE m.from \in Reader
    BY <1>1, TreeFields DEF TreeOver
  <1> QED
    BY <1>1 DEF Quiet

LEMMA ReaderQuiet ==
  ASSUME NEW D \in SUBSET Reader, NEW W \in SUBSET Reader, TreeOver(D), NEW n \in Reader, Subscribe(n) \/ Unsubscribe(n) \/ RenewSeat(n)
  PROVE  Quiet(W)
  <1>1. UNCHANGED <<promotes, pend, seats>> /\ left \subseteq left'
    BY DEF Subscribe, Unsubscribe, RenewSeat, counts
  <1>2. \A y \in mail' : y \in mail \/ y.t = "sub" \/ (y.t = "unsub" /\ y.from \in left')
    BY DEF Subscribe, Unsubscribe, RenewSeat, Subscribing, Sub, Unsub
  <1> QED
    BY <1>1, <1>2, KeptIsQuiet DEF Follows

LEMMA SubQuiet ==
  ASSUME NEW D \in SUBSET Reader, NEW W \in SUBSET Reader, TreeOver(D), NEW m \in mail, SubRerouted(m) \/ SubRenewed(m) \/ SubSeated(m) \/ SubDeepens(m)
  PROVE  Quiet(W)
  <1>1. UNCHANGED <<promotes, pend, left>>
    BY DEF SubRerouted, SubRenewed, SubSeated, SubDeepens, counts
  <1>2. TreeMail(m, D) /\ m.t = "sub"
    BY DEF TreeOver, SubRerouted, SubRenewed, SubSeated, SubDeepens, Heads
  <1>3. \A c \in Reader : seats[c] \subseteq seats'[c]
    BY RootIsApart DEF SubRerouted, SubRenewed, SubSeated, SubDeepens, TreeOver, TreeShape
  <1>4. \A y \in mail' : y \in mail \/ y.t \in {"sub", "deliver"} \/ (y.t = "adopt" /\ y.nonce = 0)
    <2>1. CASE SubRerouted(m)
      BY <1>2, <2>1, TreeAltered DEF SubRerouted
    <2>2. CASE SubRenewed(m)
      BY <2>2 DEF SubRenewed, Delivers
    <2>3. CASE SubSeated(m)
      BY <2>3 DEF SubSeated, Delivers
    <2>4. CASE SubDeepens(m)
      BY <2>4 DEF SubDeepens, Delivers, Adopt
    <2> QED
      BY <2>1, <2>2, <2>3, <2>4
  <1> QED
    BY <1>1, <1>3, <1>4, KeptIsQuiet DEF Follows

LEMMA AdoptQuiet ==
  ASSUME NEW D \in SUBSET Reader, NEW W \in SUBSET Reader, TreeOver(D), NEW m \in mail, OnAdopt(m)
  PROVE  Quiet(W)
  <1>1. m.t = "adopt" /\ m.from = Root /\ m.to \in D /\ m.subs \in SUBSET Reader
    BY TreeFields DEF TreeOver, OnAdopt
  <1>2. PICK c \in D, S \in SUBSET Reader : c = m.to /\ S = m.subs \ {m.to}
    BY <1>1
  <1>3. UNCHANGED <<promotes, pend, left>> /\ seats' = [seats EXCEPT ![c] = @ \cup S]
    BY <1>2 DEF OnAdopt, counts
  <1>4. S \subseteq seats'[c] /\ \A b \in Reader : seats[b] \subseteq seats'[b]
    BY <1>3, RootIsApart DEF TreeOver, TreeShape
  <1>5. \A y \in mail' : y \in mail \/ y.t \in {"sub", "deliver"} \/ y = AdoptAck(c, m.from, S, m.nonce)
    <2>1. mail' = (mail \ {m}) \cup {AdoptAck(c, m.from, S, m.nonce), Subscribing(c, [pin EXCEPT ![c] = m.from])}
                    \cup (IF GenCarried(c) THEN {} ELSE {Delivers(c, b, 0, FALSE, Nobody) : b \in S \ seats[c]})
      BY <1>2 DEF OnAdopt
    <2>2. Subscribing(c, [pin EXCEPT ![c] = m.from]).t = "sub" /\ \A b : Delivers(c, b, 0, FALSE, Nobody).t = "deliver"
      BY DEF Subscribing, Sub, Delivers
    <2> QED
      BY <2>1, <2>2
  <1>6. \A y \in mail' : Follows(y, left', mail, seats')
    BY <1>1, <1>2, <1>4, <1>5 DEF Follows, AdoptAck
  <1> QED
    BY <1>3, <1>4, <1>6, KeptIsQuiet

LEMMA SettleQuiet ==
  ASSUME NEW D \in SUBSET Reader, NEW W \in SUBSET Reader, TreeOver(D),
         (\E m \in mail : OnAdoptAck(m)) \/ \E p \in Member : DelegationTimeout(p)
  PROVE  Quiet(W)
  <1>1. mail' \subseteq mail /\ promotes' = promotes /\ left' = left
    BY DEF OnAdoptAck, DelegationTimeout, counts
  <1>2. \/ UNCHANGED <<seats, pend>>
        \/ \E p \in Member : \E d \in pend[p] : \E S : Settle(p, d, S)
    <2>1. ASSUME NEW m \in mail, OnAdoptAck(m) PROVE m.to \in Member
      BY <2>1, TreeFields, RootIsApart DEF TreeOver, OnAdoptAck
    <2>2. ASSUME NEW p \in Member, DelegationTimeout(p) PROVE \E d \in pend[p] : \E S : Settle(p, d, S)
      <3>1. PICK d \in pend[p] : Settle(p, d, {})
        BY <2>2 DEF DelegationTimeout
      <3>2. PICK S : S = {}
        OBVIOUS
      <3> QED
        BY <3>1, <3>2
    <2>3. ASSUME NEW m \in mail, OnAdoptAck(m), ~UNCHANGED <<seats, pend>>
          PROVE  \E d \in pend[m.to] : \E S : Settle(m.to, d, S)
      <3>1. PICK d \in pend[m.to] : Settle(m.to, d, m.subs)
        BY <2>3 DEF OnAdoptAck
      <3> QED
        BY <3>1
    <2> QED
      BY <2>1, <2>2, <2>3
  <1>3. pend'[Root] \subseteq pend[Root] /\ \A c \in Reader : seats[c] \subseteq seats'[c]
    <2>1. CASE UNCHANGED <<seats, pend>>
      BY <2>1
    <2>2. CASE \E p \in Member : \E d \in pend[p] : \E S : Settle(p, d, S)
      <3>1. PICK p \in Member : \E d \in pend[p] : \E S : Settle(p, d, S)
        BY <2>2
      <3>2. p = Root
        BY <3>1, RootIsApart DEF TreeOver, TreeShape
      <3>3. \E S : pend' = [pend EXCEPT ![Root] = @ \ S]
        BY <3>1, <3>2 DEF Settle
      <3>4. \E S : seats' = [seats EXCEPT ![Root] = @ \ S]
        BY <3>1, <3>2 DEF Settle
      <3> QED
        BY <3>3, <3>4, RootIsApart DEF TreeOver, TreeShape
    <2> QED
      BY <1>2, <2>1, <2>2
  <1> QED
    BY <1>1, <1>3, KeptIsQuiet DEF Follows

\* A reader that goes from a child either left, or nothing is owed to it.
LEMMA UnsubQuiet ==
  ASSUME NEW D \in SUBSET Reader, NEW W \in SUBSET Reader, Delegated(D, W), NEW m \in mail, OnUnsub(m)
  PROVE  Quiet(W)
  <1> USE DEF Delegated
  <1>1. m.t = "unsub" /\ m.from \in Reader /\ m.to \in Member
    BY TreeFields DEF TreeOver, OnUnsub
  <1>2. PICK n \in Reader, p \in Member : n = m.from /\ p = m.to
    BY <1>1
  <1>3. /\ UNCHANGED <<promotes, pend, left>>
        /\ \A y \in mail' : y \in mail \/ y = Unsub(n, Root)
        /\ seats' = [seats EXCEPT ![p] = @ \ {n}] \/ seats' = seats
    BY <1>2 DEF OnUnsub, counts
  <1>4. ASSUME NEW x \in mail' \cap mail, x.t = "ack", x.nonce # 0
        PROVE  seats[x.from] \subseteq seats'[x.from] \cup left' \cup W
    <2>1. x.from \in Reader
      BY <1>4, TreeFields DEF TreeOver
    <2>2. x.from = p => n \in left \cup W
      BY <1>1, <1>2, <1>4, <2>1 DEF Late
    <2> QED
      BY <1>3, <2>1, <2>2, RootIsApart DEF TreeOver, TreeShape
  <1> QED
    BY <1>3, <1>4 DEF Quiet, Follows, Unsub

LEMMA RestQuiet ==
  ASSUME NEW D \in SUBSET Reader, NEW W \in SUBSET Reader, TreeOver(D),
         \/ \E m \in mail : OnDeliver(m) \/ OnRehome(m) \/ Lose(m)
         \/ \E p \in Member, n \in Reader : Lapse(p, n)
         \/ \E n \in Reader : Reap(n) \/ Die(n) \/ Unpin(n)
  PROVE  Quiet(W)
  <1>1. ASSUME NEW m \in mail, OnDeliver(m) \/ OnRehome(m) \/ Lose(m) PROVE Quiet(W)
    <2>1. UNCHANGED <<promotes, pend, seats, left>>
      BY <1>1 DEF OnDeliver, OnRehome, Lose, counts
    <2>2. \A y \in mail' : y \in mail \/ y.t \in {"sub", "deliver"}
      <3>1. CASE OnDeliver(m)
        BY <3>1, DeliverStep
      <3>2. CASE OnRehome(m) \/ Lose(m)
        BY <3>2 DEF OnRehome, Lose, Subscribing, Sub
      <3> QED
        BY <1>1, <3>1, <3>2
    <2> QED
      BY <2>1, <2>2, KeptIsQuiet DEF Follows
  <1>2. ASSUME NEW p \in Member, NEW n \in Reader, Lapse(p, n) PROVE Quiet(W)
    BY <1>2 DEF Lapse, counts, Quiet
  <1>3. ASSUME NEW n \in Reader, Reap(n) PROVE Quiet(W)
    BY <1>3, RootIsApart DEF Reap, RoleGone, counts, Quiet, TreeOver, TreeShape
  <1>4. ASSUME NEW n \in Reader, Die(n) PROVE Quiet(W)
    <2>1. /\ UNCHANGED <<promotes, left>> /\ mail' \subseteq mail /\ \A x \in mail' : x.from # n
          /\ seats' = [seats EXCEPT ![n] = {}] /\ pend' = [pend EXCEPT ![n] = {}]
      BY <1>4 DEF Die
    <2>2. pend'[Root] = pend[Root] /\ \A b \in Reader \ {n} : seats'[b] = seats[b]
      BY <2>1, RootIsApart DEF TreeOver, TreeShape
    <2>3. ASSUME NEW x \in mail' \cap mail, x.t = "ack" PROVE x.from \in Reader \ {n}
      BY <2>1, <2>3, TreeFields DEF TreeOver
    <2> QED
      BY <2>1, <2>2, <2>3 DEF Quiet, Follows
  <1>5. ASSUME NEW n \in Reader, Unpin(n) PROVE Quiet(W)
    BY <1>5, KeptIsQuiet DEF Unpin, counts, Follows
  <1> QED
    BY <1>1, <1>2, <1>3, <1>4, <1>5

LEMMA StepDownStep ==
  ASSUME NEW D \in SUBSET Reader, NEW W \in SUBSET Reader, Delegated(D, W), NEW n \in Reader, StepDown(n)
  PROVE  Adopted(D)' /\ Numbered' /\ HoldsAcked(W)' /\ Late(W)'
  <1> USE DEF Delegated
  <1>1. UNCHANGED <<promotes, left>> /\ \A y \in mail' : y.t = "rehome" \/ y = Unsub(n, pin[n])
    BY DEF StepDown, counts, Rehome
  <1>2. pend'[Root] = pend[Root]
    BY RootIsApart DEF StepDown, RoleGone, TreeOver, TreeShape
  <1>3. \A y \in mail' : y.t \in {"rehome", "unsub"}
    BY <1>1 DEF Unsub
  <1>4. Adopted(D)' /\ Numbered' /\ HoldsAcked(W)'
    BY <1>1, <1>2, <1>3 DEF Adopted, Numbered, HoldsAcked
  <1>5. MinReaders # 0
    <2>1. IsFiniteSet(seats[n] \cap want)
      BY FS_Subset, TreeAssumption, RootIsApart DEF TreeOver, TreeShape
    <2> QED
      BY <2>1, FS_CardinalityType, TreeAssumption DEF StepDown, ThinBranch, Demand
  <1>6. pin[n] \in Reader => promotes >= 2
    BY RootIsApart DEF StepDown, ThinBranch, TreeOver, TreeShape, Adopted
  <1>7. Late(W)'
    BY <1>1, <1>3, <1>5, <1>6 DEF Late, Unsub
  <1> QED
    BY <1>4, <1>7

LEMMA PromoteNumbered ==
  ASSUME NEW D \in SUBSET Reader, NEW W \in SUBSET Reader, Delegated(D, W), NEW m \in mail, SubPromotes(m),
         MaxPromote <= 2 \/ MinReaders = 0 \/ NoneLate(W)
  PROVE  \E E \in SUBSET Reader : TreeOver(E)' /\ Adopted(E)' /\ Numbered' /\ HoldsAcked(W)' /\ Late(W)'
  <1> USE DEF Delegated
  <1>1. PICK c \in Reader : TreeOver(D \cup {c})' /\ promotes' = promotes + 1
    BY PromoteStep
  <1>2. PICK E \in SUBSET Reader : E = D \cup {c}
    BY <1>1
  <1>3. PICK n \in Reader, b \in Leaves(Root) : PromotesTo(n, b, Leaves(Root) \ {b})
    BY PromoteIs
  <1>4. PICK S : PromotesTo(n, b, S)
    BY <1>3
  <1>5. /\ promotes < MaxPromote /\ promotes' = promotes + 1 /\ left' = left /\ promotes \in Nat
        /\ seats' = [seats EXCEPT ![Root] = @ \cup {n}]
        /\ pend' = [pend EXCEPT ![Root] = @ \cup {[nonce |-> promotes + 1, child |-> b, subs |-> S]}]
        /\ \A x \in mail' : x \in mail \/ x = Adopt(Root, b, S, promotes + 1) \/ x.t = "deliver"
    <2>1. promotes \in Nat
      BY DEF TreeOver, TreeShape
    <2>2. \A to : \A k, g : \A d : Delivers(Root, to, k, g, d).t = "deliver"
      BY DEF Delivers
    <2> QED
      BY <1>4, <2>1, <2>2 DEF PromotesTo
  <1>6. Adopted(E)'
    BY <1>2, <1>5 DEF Adopted
  <1>7. pend'[Root] = pend[Root] \cup {[nonce |-> promotes + 1, child |-> b, subs |-> S]} /\ \A a \in Reader : seats'[a] = seats[a]
    BY <1>5, RootIsApart DEF TreeOver, TreeShape
  <1>8. ASSUME NEW x \in mail, x.t \in {"adopt", "ack"} PROVE x.nonce \in Nat /\ x.nonce <= promotes /\ (x.t = "ack" => x.from \in Reader)
    BY <1>8, TreeFields DEF TreeOver, Numbered
  <1>9. Numbered'
    <2>1. \A d \in pend'[Root] : d.nonce \in 1..promotes'
      BY <1>5, <1>7 DEF Numbered
    <2>2. \A x \in mail' : x.t \in {"adopt", "ack"} => x.nonce <= promotes'
      BY <1>5, <1>8 DEF Adopt
    <2>3. ASSUME NEW x \in mail', NEW d \in pend'[Root], x.nonce = d.nonce, x.t \in {"adopt", "ack"}
          PROVE  (x.t = "adopt" => x.to = d.child) /\ (x.t = "ack" => x.from = d.child)
      <3>1. CASE x \in mail
        <4>1. d \in pend[Root]
          BY <1>5, <1>7, <1>8, <2>3, <3>1
        <4> QED
          BY <2>3, <3>1, <4>1 DEF Numbered
      <3>2. CASE x = Adopt(Root, b, S, promotes + 1)
        <4>1. x.t = "adopt" /\ x.to = b /\ x.nonce = promotes + 1
          BY <3>2 DEF Adopt
        <4>2. d \notin pend[Root]
          <5>1. d.nonce \notin 1..promotes
            BY <1>5, <2>3, <4>1
          <5> QED
            BY <5>1 DEF Numbered
        <4> QED
          BY <1>7, <4>1, <4>2
      <3> QED
        BY <1>5, <2>3, <3>1, <3>2
    <2> QED
      BY <2>1, <2>2, <2>3 DEF Numbered
  <1>10. HoldsAcked(W)'
    <2>1. ASSUME NEW x \in mail', x.t = "ack", x.nonce # 0 PROVE x \in mail /\ x.subs \subseteq seats'[x.from] \cup left' \cup W
      <3>1. x \in mail
        BY <1>5, <2>1 DEF Adopt
      <3> QED
        BY <1>5, <1>7, <1>8, <2>1, <3>1 DEF HoldsAcked
    <2> QED
      BY <2>1 DEF HoldsAcked
  <1>11. Late(W)'
    <2>1. ASSUME NEW x \in mail', x.t = "unsub", x.from \notin left' \cup W, x.to \in Reader PROVE FALSE
      <3>1. x \in mail
        BY <1>5, <2>1 DEF Adopt
      <3> QED
        BY <1>5, <2>1, <3>1, TreeAssumption, RootIsApart DEF Late, NoneLate
    <2> QED
      BY <2>1 DEF Late
  <1> QED
    BY <1>1, <1>2, <1>6, <1>9, <1>10, <1>11

DelegatedInv(W) == \E D \in SUBSET Reader : Delegated(D, W)

LEMMA DelegatedInit ==
  ASSUME NEW W \in SUBSET Reader, DtInit
  PROVE  DelegatedInv(W) /\ NoneLate(W)
  <1>1. Delegated({}, W)
    <2>1. \A E \in SUBSET Reader : TreeOver(E)
      BY TreeInit
    <2>2. PICK E \in SUBSET Reader : E = {}
      OBVIOUS
    <2>3. Delegated(E, W)
      BY <2>1, <2>2 DEF DtInit, Member, Delegated, Adopted, Numbered, HoldsAcked, Late
    <2> QED
      BY <2>2, <2>3
  <1> QED
    BY <1>1 DEF DelegatedInv, NoneLate, DtInit

\* A step that opens no delegation is quiet, or a child steps down.
LEMMA DtQuiet ==
  ASSUME NEW D \in SUBSET Reader, NEW W \in SUBSET Reader, Delegated(D, W), DtNext
  PROVE  Quiet(W) \/ (\E n \in Reader : StepDown(n)) \/ \E m \in mail : SubPromotes(m)
  <1>1. TreeOver(D)
    BY DEF Delegated
  <1>2. CASE \E n \in Reader : Subscribe(n) \/ Unsubscribe(n) \/ RenewSeat(n)
    BY <1>1, <1>2, ReaderQuiet
  <1>3. CASE \E m \in mail : SubRerouted(m) \/ SubRenewed(m) \/ SubSeated(m) \/ SubDeepens(m)
    BY <1>1, <1>3, SubQuiet
  <1>4. CASE \E m \in mail : OnAdopt(m)
    BY <1>1, <1>4, AdoptQuiet
  <1>5. CASE (\E m \in mail : OnAdoptAck(m)) \/ \E p \in Member : DelegationTimeout(p)
    BY <1>1, <1>5, SettleQuiet
  <1>6. CASE \E m \in mail : OnUnsub(m)
    BY <1>6, UnsubQuiet
  <1>7. CASE \/ \E m \in mail : OnDeliver(m) \/ OnRehome(m) \/ Lose(m)
             \/ \E p \in Member, n \in Reader : Lapse(p, n)
             \/ \E n \in Reader : Reap(n) \/ Die(n) \/ Unpin(n)
    BY <1>1, <1>7, RestQuiet
  <1> QED
    BY <1>2, <1>3, <1>4, <1>5, <1>6, <1>7 DEF DtNext, Handle

LEMMA DelegatedStep ==
  ASSUME NEW W \in SUBSET Reader, DelegatedInv(W), DtNext, MaxPromote <= 2 \/ MinReaders = 0 \/ NoneLate(W)
  PROVE  DelegatedInv(W)'
  <1>1. PICK D \in SUBSET Reader : Delegated(D, W)
    BY DEF DelegatedInv
  <1>2. TreeOver(D)
    BY <1>1 DEF Delegated
  <1>3. CASE \E m \in mail : SubPromotes(m)
    <2>1. PICK E \in SUBSET Reader : TreeOver(E)' /\ Adopted(E)' /\ Numbered' /\ HoldsAcked(W)' /\ Late(W)'
      BY <1>1, <1>3, PromoteNumbered
    <2> QED
      BY <2>1 DEF DelegatedInv, Delegated
  <1>4. CASE \A m \in mail : ~SubPromotes(m)
    <2>1. TreeOver(D)'
      BY <1>2, <1>4, HandleSteps
    <2>2. CASE Quiet(W)
      <3>1. Adopted(D)' /\ Numbered' /\ HoldsAcked(W)' /\ Late(W)'
        BY <1>1, <2>2, QuietStep
      <3> QED
        BY <2>1, <3>1 DEF DelegatedInv, Delegated
    <2>3. CASE \E n \in Reader : StepDown(n)
      <3>1. Adopted(D)' /\ Numbered' /\ HoldsAcked(W)' /\ Late(W)'
        BY <1>1, <2>3, StepDownStep
      <3> QED
        BY <2>1, <3>1 DEF DelegatedInv, Delegated
    <2> QED
      BY <1>1, <1>4, <2>2, <2>3, DtQuiet
  <1> QED
    BY <1>3, <1>4

LEMMA StillDelegated ==
  ASSUME NEW W \in SUBSET Reader, DelegatedInv(W), UNCHANGED dtVars
  PROVE  DelegatedInv(W)'
  <1>1. PICK D \in SUBSET Reader : Delegated(D, W)
    BY DEF DelegatedInv
  <1>2. TreeOver(D)'
    BY <1>1, StillTree DEF Delegated
  <1>3. Adopted(D)' /\ Numbered' /\ HoldsAcked(W)' /\ Late(W)'
    BY <1>1 DEF Delegated, Adopted, Numbered, HoldsAcked, Late, dtVars
  <1> QED
    BY <1>2, <1>3 DEF DelegatedInv, Delegated

\* Only a settling ends a delegation of the root.
LEMMA OnlySettled ==
  ASSUME NEW D \in SUBSET Reader, NEW W \in SUBSET Reader, TreeOver(D), DtNext, ~(pend[Root] \subseteq pend'[Root])
  PROVE  (\E m \in mail : OnAdoptAck(m)) \/ \E p \in Member : DelegationTimeout(p)
  <1>1. ASSUME NEW m \in mail, SubPromotes(m) PROVE pend[Root] \subseteq pend'[Root]
    <2>1. PICK n \in Reader, c \in Leaves(Root) : PromotesTo(n, c, Leaves(Root) \ {c})
      BY <1>1, PromoteIs
    <2> QED
      BY <2>1, RootIsApart DEF PromotesTo, TreeOver, TreeShape
  <1>2. ASSUME NEW n \in Reader, RoleGone(n) PROVE pend'[Root] = pend[Root]
    BY <1>2, RootIsApart DEF RoleGone, TreeOver, TreeShape
  <1>3. ASSUME NEW n \in Reader, Die(n) PROVE pend'[Root] = pend[Root]
    BY <1>3, RootIsApart DEF Die, TreeOver, TreeShape
  <1>4. ASSUME NEW m \in mail, \/ SubRerouted(m) \/ SubRenewed(m) \/ SubSeated(m) \/ SubDeepens(m) \/ OnAdopt(m)
                               \/ OnDeliver(m) \/ OnUnsub(m) \/ OnRehome(m) \/ Lose(m)
        PROVE pend' = pend
    BY <1>4 DEF SubRerouted, SubRenewed, SubSeated, SubDeepens, OnAdopt, OnDeliver, OnUnsub, OnRehome, Lose
  <1>5. ASSUME NEW n \in Reader, \/ Subscribe(n) \/ Unsubscribe(n) \/ RenewSeat(n) \/ Unpin(n)
                                 \/ \E p \in Member : Lapse(p, n)
        PROVE pend' = pend
    BY <1>5 DEF Subscribe, Unsubscribe, RenewSeat, Unpin, Lapse
  <1>6. ASSUME NEW n \in Reader, Reap(n) \/ StepDown(n) PROVE RoleGone(n)
    BY <1>6 DEF Reap, StepDown
  <1> QED
    BY <1>1, <1>2, <1>3, <1>4, <1>5, <1>6 DEF DtNext, Handle

\* KeepServed, but for the readers in W.
KeptBut(W) ==
    \A p \in Member : \A d \in pend[p] \ pend'[p] : \A n \in seats[p] \ seats'[p] : n \in seats[d.child] \cup left \cup W

LEMMA ServedStep ==
  ASSUME NEW D \in SUBSET Reader, NEW W \in SUBSET Reader, Delegated(D, W), DtNext
  PROVE  KeptBut(W)
  <1> USE DEF Delegated
  <1>1. SUFFICES ASSUME NEW p \in Member, NEW d \in pend[p] \ pend'[p], NEW n \in seats[p] \ seats'[p]
                 PROVE  n \in seats[d.child] \cup left \cup W
    BY DEF KeptBut
  <1>2. p = Root
    BY RootIsApart DEF TreeOver, TreeShape
  <1>3. ASSUME NEW x \in Member, NEW e \in pend[x], NEW S, Settle(x, e, S) PROVE x = Root /\ e = d /\ n \in S
    <2>1. x = Root
      BY RootIsApart DEF TreeOver, TreeShape
    <2>2. pend'[Root] = pend[Root] \ {e} /\ seats'[Root] = seats[Root] \ Released(Root, e, S)
      BY <1>3, <2>1, RootIsApart DEF Settle, TreeOver, TreeShape
    <2> QED
      BY <1>2, <2>1, <2>2 DEF Released
  <1>4. ASSUME NEW m \in mail, OnAdoptAck(m) PROVE n \in seats[d.child] \cup left \cup W
    <2>1. m.t = "ack" /\ m.to = Root /\ m.from \in D /\ m.to \in Member
      BY <1>4, TreeFields, RootIsApart DEF TreeOver, OnAdoptAck
    <2>2. PICK e \in pend[m.to] : e.nonce = m.nonce /\ Settle(m.to, e, m.subs)
      BY <1>2, <1>4, <2>1 DEF OnAdoptAck
    <2>3. PICK S : S = m.subs
      OBVIOUS
    <2>4. e = d /\ n \in m.subs
      <3>1. Settle(m.to, e, S)
        BY <2>2, <2>3
      <3>2. e = d /\ n \in S
        BY <1>3, <2>1, <3>1
      <3> QED
        BY <2>3, <3>2
    <2>5. m.from = d.child /\ m.nonce # 0
      BY <2>1, <2>2, <2>4 DEF Numbered
    <2> QED
      BY <2>1, <2>4, <2>5 DEF HoldsAcked
  <1>5. ASSUME NEW x \in Member, DelegationTimeout(x) PROVE FALSE
    <2>1. PICK e \in pend[x] : Settle(x, e, {})
      BY <1>5 DEF DelegationTimeout
    <2>2. PICK S : S = {}
      OBVIOUS
    <2>3. Settle(x, e, S)
      BY <2>1, <2>2
    <2> QED
      BY <1>3, <2>2, <2>3
  <1> QED
    BY <1>2, <1>4, <1>5, OnlySettled

\* Only a child that steps down is late.
LEMMA NoneLateStep ==
  ASSUME NEW W \in SUBSET Reader, DelegatedInv(W), NoneLate(W), DtNext, \A n \in Reader \ W : ~StepDown(n)
  PROVE  NoneLate(W)'
  <1>1. PICK D \in SUBSET Reader : Delegated(D, W)
    BY DEF DelegatedInv
  <1>2. TreeOver(D)
    BY <1>1 DEF Delegated
  <1>3. CASE \E m \in mail : SubPromotes(m)
    <2>1. PICK n \in Reader, b \in Leaves(Root) : PromotesTo(n, b, Leaves(Root) \ {b})
      BY <1>2, <1>3, PromoteIs
    <2>2. PICK S : PromotesTo(n, b, S)
      BY <2>1
    <2>3. (\A to : \A k, g : \A d : Delivers(Root, to, k, g, d).t = "deliver") /\ Adopt(Root, b, S, promotes + 1).t = "adopt"
      BY DEF Delivers, Adopt
    <2>4. left' = left /\ \A x \in mail' : x \in mail \/ x.t # "unsub"
      BY <2>2, <2>3 DEF PromotesTo
    <2> QED
      BY <2>4 DEF NoneLate
  <1>4. CASE Quiet(W)
    BY <1>4 DEF Quiet, Follows, NoneLate
  <1>5. CASE \E n \in Reader : StepDown(n)
    <2>1. PICK n \in W : StepDown(n)
      BY <1>5
    <2>2. left' = left /\ mail = {} /\ \A y \in mail' : y.t = "rehome" \/ y = Unsub(n, pin[n])
      BY <2>1 DEF StepDown, counts, Rehome
    <2> QED
      BY <2>2 DEF NoneLate, Unsub
  <1> QED
    BY <1>1, <1>3, <1>4, <1>5, DtQuiet

\* No reader steps down.
Nobodies == {}

(***************************************************************************)
(* "This node KEEPS SERVING those subscribers until the child's ADOPTACK     *)
(* names them" (_settleDelegation), of every reader that is not a child that *)
(* steps down (W are those that do): whatever is lost, late or first, no     *)
(* settling gives it up while its child does not hold it.                    *)
(***************************************************************************)
THEOREM LeafKeptAlways ==
  ASSUME NEW W \in SUBSET Reader
  PROVE  DtSpec /\ [][\A n \in Reader \ W : ~StepDown(n)]_dtVars => [][KeptBut(W)]_dtVars
  <1>1. DtInit => DelegatedInv(W) /\ NoneLate(W)
    BY DelegatedInit
  <1>2. DelegatedInv(W) /\ NoneLate(W) /\ [DtNext]_dtVars /\ [\A n \in Reader \ W : ~StepDown(n)]_dtVars
          => (DelegatedInv(W) /\ NoneLate(W))'
    <2>1. ASSUME DelegatedInv(W), NoneLate(W), DtNext, \A n \in Reader \ W : ~StepDown(n)
          PROVE  DelegatedInv(W)' /\ NoneLate(W)'
      BY <2>1, DelegatedStep, NoneLateStep
    <2>2. ASSUME DelegatedInv(W), NoneLate(W), UNCHANGED dtVars
          PROVE  DelegatedInv(W)' /\ NoneLate(W)'
      BY <2>2, StillDelegated DEF NoneLate, dtVars
    <2> QED
      BY <2>1, <2>2
  <1>3. DelegatedInv(W) /\ [DtNext]_dtVars => [KeptBut(W)]_dtVars
    BY ServedStep DEF DelegatedInv
  <1> QED
    BY <1>1, <1>2, <1>3, PTL DEF DtSpec

(***************************************************************************)
(* The same of every reader, with two delegations at most or where no branch *)
(* is thin: a third can meet the late UNSUB of a child that stepped down.    *)
(***************************************************************************)
THEOREM KeepServedAlways ==
  ASSUME MaxPromote <= 2 \/ MinReaders = 0
  PROVE  DtSpec => [][KeepServed]_dtVars
  <1>1. Nobodies \in SUBSET Reader
    BY DEF Nobodies
  <1>2. DtInit => DelegatedInv(Nobodies)
    BY <1>1, DelegatedInit
  <1>3. DelegatedInv(Nobodies) /\ [DtNext]_dtVars => DelegatedInv(Nobodies)'
    BY <1>1, DelegatedStep, StillDelegated
  <1>4. DelegatedInv(Nobodies) /\ [DtNext]_dtVars => [KeepServed]_dtVars
    <2>1. ASSUME DelegatedInv(Nobodies), DtNext PROVE KeptBut(Nobodies)
      BY <1>1, <2>1, ServedStep DEF DelegatedInv
    <2>2. KeptBut(Nobodies) => KeepServed
      BY DEF KeptBut, KeepServed, Nobodies
    <2> QED
      BY <2>1, <2>2
  <1> QED
    BY <1>2, <1>3, <1>4, PTL DEF DtSpec

-----------------------------------------------------------------------------
(***************************************************************************)
(* The composition: a step of it is a step of one of the three, or of none.  *)
(***************************************************************************)
\* Every variable of the ledger, the tree and the handoffs stays in its type,
\* whichever of them moves (ChannelLedger, wireHandlers.js, pubsubLeaveHandoff).
THEOREM GroupTypes == GroupSpec => []GroupTypeOK
  <1>1. GroupInit => Init /\ DtInit /\ HoInit
    BY DEF GroupInit
  <1>2. [GroupNext]_groupVars => [Next]_vars /\ [DtNext]_dtVars /\ [HoNext]_hoVars
    BY DEF GroupNext, groupVars
  <1>3. TypeOK /\ DtTypeOK /\ HoTypeOK => GroupTypeOK
    BY DEF GroupTypeOK
  <1> QED
    BY <1>1, <1>2, <1>3, TypeCorrect, TreeTypesAlways, HandoffTypesAlways, PTL DEF GroupSpec, Spec, DtSpec, HoSpec
=============================================================================
