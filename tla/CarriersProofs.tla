-------------------------- MODULE CarriersProofs --------------------------
(***************************************************************************)
(* Which transport carries a peer, for any number of channels that come up   *)
(* and any number of requests; and what travels from node to node with its   *)
(* path, for any network.                                                    *)
(***************************************************************************)
EXTENDS Carriers, Walks, FiniteSetTheorems, WellFoundedInduction, TLAPS

(***************************************************************************)
(* The composite's routes.                                                   *)
(***************************************************************************)
\* Only the socket is ever superseded, and never while it is admitted; a socket
\* that carries requests is the admitted route, unless it is detached; and a
\* request waits in one place.
RoutesInv ==
    /\ RqTypeOK
    /\ RoutesAgree
    /\ superseded \subseteq {"socket"} /\ admitted \notin superseded
    /\ "socket" \in owns \ superseded /\ ~detached => admitted = "socket"
    /\ \A p, q \in pending : p.r = q.r => p = q

LEMMA RoutesInit == RqInit => RoutesInv
  <1> SUFFICES ASSUME RqInit PROVE RoutesInv
    OBVIOUS
  <1>1. ups \in 0..MaxRoute
    BY RequestsAssumption DEF RqInit
  <1>2. outcome \in [Request -> {"unsent", "waiting", "resolved", "rejected"}]
    BY DEF RqInit
  <1>3. RqTypeOK
    BY <1>1, <1>2 DEF RqInit, RqTypeOK
  <1> QED
    BY <1>3 DEF RqInit, RoutesInv, RoutesAgree, Nowhere

\* The requests of ps are rejected and no other: a request waits in one place.
LEMMA RejectedKeeps ==
  ASSUME RoutesInv, NEW ps \in SUBSET pending, Rejected(ps)
  PROVE  /\ pending' \subseteq pending /\ outcome' \in [Request -> {"unsent", "waiting", "resolved", "rejected"}]
         /\ \A p \in pending' : outcome'[p.r] = "waiting"
         /\ \A p, q \in pending' : p.r = q.r => p = q
  <1>1. pending' = pending \ ps
    BY DEF Rejected
  <1>2. outcome' = [r \in Request |-> IF \E p \in ps : p.r = r THEN "rejected" ELSE outcome[r]]
    BY DEF Rejected
  <1>3. \A p \in pending' : outcome'[p.r] = "waiting"
    <2> SUFFICES ASSUME NEW p \in pending' PROVE outcome'[p.r] = "waiting"
      OBVIOUS
    <2>1. p \in pending /\ p \notin ps /\ p.r \in Request /\ outcome[p.r] = "waiting"
      BY <1>1 DEF RoutesInv, RoutesAgree, RqTypeOK
    <2>2. ~\E q \in ps : q.r = p.r
      BY <2>1 DEF RoutesInv
    <2> QED
      BY <1>2, <2>1, <2>2
  <1>4. outcome' \in [Request -> {"unsent", "waiting", "resolved", "rejected"}]
    BY <1>2 DEF RoutesInv, RqTypeOK
  <1>5. \A p, q \in pending' : p.r = q.r => p = q
    BY <1>1 DEF RoutesInv
  <1> QED
    BY <1>1, <1>3, <1>4, <1>5

\* Steps of a request that leave the routes alone.
LEMMA CallKeeps ==
  ASSUME RoutesInv, UNCHANGED routeVars, RqTypeOK',
         \A p \in pending' : p.sub \notin superseded /\ outcome'[p.r] = "waiting",
         \A p, q \in pending' : p.r = q.r => p = q
  PROVE  RoutesInv'
  BY DEF RoutesInv, RoutesAgree, RouteFor, routeVars

LEMMA SendKeeps ==
  ASSUME RoutesInv, NEW r \in Request, SendRequest(r)
  PROVE  RoutesInv'
  <1> USE DEF RoutesInv
  <1>0. UNCHANGED routeVars /\ running' = running /\ outcome[r] = "unsent"
    BY DEF SendRequest
  <1>1. \A p \in pending : p.r # r /\ p.r \in Request
    BY <1>0 DEF RoutesAgree, RqTypeOK
  <1>2. CASE outcome' = [outcome EXCEPT ![r] = "rejected"] /\ UNCHANGED <<pending, wire>>
    <2>1. RqTypeOK'
      BY <1>0, <1>2 DEF RqTypeOK, routeVars
    <2> QED
      BY <1>0, <1>1, <1>2, <2>1, CallKeeps DEF RoutesAgree, RqTypeOK
  <1>3. ASSUME NEW s \in Sub, RouteFor = s,
               pending' = pending \cup {[r |-> r, sub |-> s]},
               wire' = wire \cup {[k |-> "req", r |-> r, sub |-> s]},
               outcome' = [outcome EXCEPT ![r] = "waiting"]
        PROVE  RoutesInv'
    <2>1. RqTypeOK'
      BY <1>0, <1>3 DEF RqTypeOK, routeVars
    <2>2. s \notin superseded
      BY <1>3 DEF RouteFor, Sub, Nowhere
    <2>3. \A p \in pending' : p.sub \notin superseded /\ outcome'[p.r] = "waiting"
      BY <1>1, <1>3, <2>2 DEF RoutesAgree, RqTypeOK
    <2>4. \A p, q \in pending' : p.r = q.r => p = q
      BY <1>1, <1>3
    <2> QED
      BY <1>0, <2>1, <2>3, <2>4, CallKeeps
  <1> QED
    BY <1>2, <1>3 DEF SendRequest, MeshSend, SocketSend, Registered, SendRefused, Sub

LEMMA ResponseKeeps ==
  ASSUME RoutesInv, NEW f \in wire, OnResponse(f)
  PROVE  RoutesInv'
  <1> USE DEF RoutesInv
  <1> DEFINE ps == {p \in pending : p.r = f.r /\ p.sub = f.sub}
  <1>1. /\ UNCHANGED routeVars /\ running' = running /\ wire' \subseteq wire /\ pending' = pending \ ps
        /\ outcome' = IF ps = {} THEN outcome
                      ELSE [outcome EXCEPT ![f.r] = IF f.k = "ok" THEN "resolved" ELSE "rejected"]
    BY DEF OnResponse, HandleResponse
  <1>2. RqTypeOK'
    BY <1>1 DEF RqTypeOK, routeVars
  <1>3. \A p \in pending' : p.sub \notin superseded /\ outcome'[p.r] = "waiting"
    <2> SUFFICES ASSUME NEW p \in pending' PROVE p.sub \notin superseded /\ outcome'[p.r] = "waiting"
      OBVIOUS
    <2>1. p \in pending /\ p \notin ps /\ outcome[p.r] = "waiting" /\ p.sub \notin superseded /\ p.r \in Request
      BY <1>1 DEF RoutesAgree, RqTypeOK
    <2>2. ps # {} => p.r # f.r
      BY <2>1
    <2> QED
      BY <1>1, <2>1, <2>2 DEF RqTypeOK
  <1>4. \A p, q \in pending' : p.r = q.r => p = q
    BY <1>1
  <1> QED
    BY <1>1, <1>2, <1>3, <1>4, CallKeeps

LEMMA ServeKeeps ==
  ASSUME RoutesInv, NEW f \in wire, NEW ok \in BOOLEAN, ServeRequest(f, ok)
  PROVE  RoutesInv'
  <1> USE DEF RoutesInv
  <1>1. UNCHANGED <<routeVars, pending, outcome, running>>
    BY DEF ServeRequest
  <1>2. wire' = (wire \ {f}) \cup {[k |-> IF ok THEN "ok" ELSE "error", r |-> f.r, sub |-> f.sub]}
    BY DEF ServeRequest, MeshServes, ServerServes, Answered
  <1>3. f.r \in Request /\ f.sub \in Sub
    BY DEF RqTypeOK
  <1>4. RqTypeOK'
    BY <1>1, <1>2, <1>3 DEF RqTypeOK, routeVars
  <1> QED
    BY <1>1, <1>4, CallKeeps DEF RoutesAgree

LEMMA TimeoutKeeps ==
  ASSUME RoutesInv, NEW p \in pending, RequestTimeout(p)
  PROVE  RoutesInv'
  <1>1. UNCHANGED <<routeVars, wire, running>> /\ Rejected({p})
    BY DEF RequestTimeout
  <1>2. /\ pending' \subseteq pending /\ outcome' \in [Request -> {"unsent", "waiting", "resolved", "rejected"}]
        /\ \A q \in pending' : outcome'[q.r] = "waiting"
        /\ \A q, o \in pending' : q.r = o.r => q = o
    BY <1>1, RejectedKeeps
  <1>3. RqTypeOK'
    BY <1>1, <1>2 DEF RqTypeOK, RoutesInv, routeVars
  <1>4. \A q \in pending' : q.sub \notin superseded /\ outcome'[q.r] = "waiting"
    BY <1>2 DEF RoutesInv, RoutesAgree
  <1> QED
    BY <1>1, <1>2, <1>3, <1>4, CallKeeps

LEMMA StopKeeps == RoutesInv /\ StopTransports => RoutesInv'
  <1> SUFFICES ASSUME RoutesInv, StopTransports PROVE RoutesInv'
    OBVIOUS
  <1>1. UNCHANGED <<routeVars, wire>> /\ running' = FALSE /\ Rejected(pending)
    BY DEF StopTransports
  <1>2. /\ pending' \subseteq pending /\ outcome' \in [Request -> {"unsent", "waiting", "resolved", "rejected"}]
        /\ \A q \in pending' : outcome'[q.r] = "waiting"
        /\ \A q, o \in pending' : q.r = o.r => q = o
    BY <1>1, RejectedKeeps
  <1>3. RqTypeOK'
    BY <1>1, <1>2 DEF RqTypeOK, RoutesInv, routeVars
  <1>4. \A q \in pending' : q.sub \notin superseded /\ outcome'[q.r] = "waiting"
    BY <1>2 DEF RoutesInv, RoutesAgree
  <1> QED
    BY <1>1, <1>2, <1>3, <1>4, CallKeeps

\* What a step of the routes leaves of the requests when it rejects those of
\* one sub-transport, or none.
RequestsKept(ps) == Rejected(ps) \/ UNCHANGED <<pending, outcome>>

\* A step of the routes: what remains to be shown is about the routes alone.
LEMMA RouteKeeps ==
  ASSUME RoutesInv, NEW ps \in SUBSET pending, RequestsKept(ps),
         open' \subseteq Sub, owns' \subseteq open', ups' \in 0..MaxRoute,
         admitted' \in Sub \cup {Nowhere}, superseded' \subseteq {"socket"},
         seen' \in BOOLEAN, kernel' \in BOOLEAN, detached' \in BOOLEAN,
         wire' \subseteq wire, running' = running,
         kernel' => admitted' # Nowhere,
         admitted' # Nowhere => admitted' \in owns' \ superseded',
         "socket" \in owns' \ superseded' /\ ~detached' => admitted' = "socket",
         \A p \in pending' : p.sub \notin superseded'
  PROVE  RoutesInv'
  <1>1. /\ pending' \subseteq pending /\ outcome' \in [Request -> {"unsent", "waiting", "resolved", "rejected"}]
        /\ \A p \in pending' : outcome'[p.r] = "waiting"
        /\ \A p, q \in pending' : p.r = q.r => p = q
    <2>1. CASE Rejected(ps)
      BY <2>1, RejectedKeeps
    <2>2. CASE UNCHANGED <<pending, outcome>>
      BY <2>2 DEF RoutesInv, RoutesAgree, RqTypeOK
    <2> QED
      BY <2>1, <2>2 DEF RequestsKept
  <1>2. RqTypeOK'
    BY <1>1 DEF RqTypeOK, RoutesInv, Sub
  <1>3. admitted' # Nowhere /\ ~detached' => RouteFor' = admitted'
    <2> SUFFICES ASSUME admitted' # Nowhere, ~detached' PROVE RouteFor' = admitted'
      OBVIOUS
    <2>1. admitted' \in {"socket", "mesh"} /\ admitted' \in owns' \ superseded'
      BY DEF Sub
    <2> QED
      BY <2>1 DEF RouteFor
  <1>4. RoutesAgree'
    BY <1>1, <1>3 DEF RoutesAgree
  <1>5. admitted' \notin superseded'
    BY DEF Nowhere
  <1> QED
    BY <1>1, <1>2, <1>4, <1>5 DEF RoutesInv

LEMMA ChannelUpKeeps ==
  ASSUME RoutesInv, NEW s \in Sub, ChannelUp(s)
  PROVE  RoutesInv'
  <1>1. /\ open' = open \cup {s} /\ ups' = ups + 1 /\ ups < MaxRoute
        /\ UNCHANGED <<owns, admitted, superseded, seen, kernel, detached, pending, wire, outcome, running>>
    BY DEF ChannelUp, callVars
  <1>2. ups' \in 0..MaxRoute
    BY <1>1, RequestsAssumption DEF RoutesInv, RqTypeOK
  <1>3. RqTypeOK'
    BY <1>1, <1>2 DEF RoutesInv, RqTypeOK
  <1> QED
    BY <1>1, <1>3 DEF RoutesInv, RoutesAgree, RouteFor

LEMMA BoundKeeps ==
  ASSUME RoutesInv, NEW s \in Sub, Bound(s)
  PROVE  RoutesInv'
  <1> USE DEF RoutesInv, RoutesAgree, RqTypeOK, Sub, Nowhere
  <1>0. /\ owns' = owns \cup {s} /\ s \in open /\ s \notin owns
        /\ UNCHANGED <<open, ups, wire, running>>
    BY DEF Bound
  <1> PICK ok \in BOOLEAN : /\ RouteBind(s, ok)
                            /\ detached' = (detached \/ (s = "socket" /\ admitted = Nowhere /\ ~ok))
    BY DEF Bound
  <1>1. detached' \in BOOLEAN /\ (detached => detached')
    OBVIOUS
  <1>2. CASE s \in superseded /\ UNCHANGED <<admitted, superseded, seen, kernel, pending, outcome>>
    <2>1. RequestsKept({})
      BY <1>2 DEF RequestsKept
    <2> QED
      BY <1>0, <1>1, <1>2, <2>1, RouteKeeps
  <1>3. CASE s \notin superseded /\ admitted = Nowhere /\ AdmitNew(s, ok) /\ UNCHANGED <<pending, outcome>>
    <2>1. RequestsKept({})
      BY <1>3 DEF RequestsKept
    <2>2. CASE ok
      <3>1. admitted' = s /\ seen' = TRUE /\ kernel' \in BOOLEAN /\ UNCHANGED superseded
        BY <1>3, <2>2 DEF AdmitNew, FireBound
      <3> QED
        BY <1>0, <1>1, <1>3, <2>1, <3>1, RouteKeeps
    <2>3. CASE ~ok
      <3>1. UNCHANGED <<admitted, superseded, seen, kernel>>
        BY <1>3, <2>3 DEF AdmitNew
      <3>2. s = "socket" => detached'
        BY <1>3, <2>3
      <3> QED
        BY <1>0, <1>1, <1>3, <2>1, <3>1, <3>2, RouteKeeps
    <2> QED
      BY <2>2, <2>3
  <1>4. CASE s \notin superseded /\ admitted = "socket" /\ s = "mesh" /\ SwitchToMesh
    <2>1. /\ admitted' = "mesh" /\ superseded' = superseded \cup {"socket"}
          /\ UNCHANGED <<seen, kernel>> /\ Rejected(PendingOn("socket"))
      BY <1>4 DEF SwitchToMesh
    <2>2. RequestsKept(PendingOn("socket")) /\ PendingOn("socket") \subseteq pending
      BY <2>1 DEF RequestsKept, PendingOn
    <2>3. \A p \in pending' : p.sub \notin superseded'
      BY <2>1 DEF Rejected, PendingOn
    <2> QED
      BY <1>0, <1>1, <1>4, <2>1, <2>2, <2>3, RouteKeeps
  <1>5. CASE s \notin superseded /\ admitted = "mesh" /\ s = "socket" /\ BornSuperseded
    <2>1. /\ superseded' = superseded \cup {"socket"}
          /\ UNCHANGED <<admitted, seen, kernel>> /\ Rejected(PendingOn("socket"))
      BY <1>5 DEF BornSuperseded
    <2>2. RequestsKept(PendingOn("socket")) /\ PendingOn("socket") \subseteq pending
      BY <2>1 DEF RequestsKept, PendingOn
    <2>3. \A p \in pending' : p.sub \notin superseded'
      BY <2>1 DEF Rejected, PendingOn
    <2> QED
      BY <1>0, <1>1, <1>5, <2>1, <2>2, <2>3, RouteKeeps
  <1>6. admitted # s
    BY <1>0
  <1> QED
    BY <1>2, <1>3, <1>4, <1>5, <1>6 DEF RouteBind

\* The death of a route leaves the table consistent with what is still bound.
LEMMA DeathKeeps ==
  ASSUME RoutesInv, NEW s \in Sub, s \in owns, SubDeath(s)
  PROVE  /\ admitted' \in Sub \cup {Nowhere} /\ superseded' \subseteq superseded
         /\ seen' \in BOOLEAN /\ kernel' \in BOOLEAN
         /\ kernel' => admitted' # Nowhere
         /\ admitted' # s /\ s \notin superseded'
         /\ admitted # s => admitted' = admitted /\ (s \notin superseded => s = "mesh" \/ detached)
         /\ admitted' # Nowhere => admitted' = admitted
         /\ superseded' = superseded \ {s}
  BY DEF SubDeath, RoutesInv, RoutesAgree, RqTypeOK, Sub, Nowhere

LEMMA MeshLostKeeps == RoutesInv /\ MeshRouteLost => RoutesInv'
  <1> SUFFICES ASSUME RoutesInv, MeshRouteLost PROVE RoutesInv'
    OBVIOUS
  <1> USE DEF RoutesInv, RoutesAgree, RqTypeOK, Sub, Nowhere
  <1>0. /\ open' = open \ {"mesh"} /\ owns' = owns \ {"mesh"} /\ wire' \subseteq wire
        /\ UNCHANGED <<ups, detached, running>>
    BY DEF MeshRouteLost
  <1>1. CASE "mesh" \in owns
    <2>1. SubDeath("mesh") /\ Rejected(PendingOn("mesh"))
      BY <1>1 DEF MeshRouteLost
    <2>2. RequestsKept(PendingOn("mesh")) /\ PendingOn("mesh") \subseteq pending /\ pending' \subseteq pending
      BY <2>1 DEF RequestsKept, PendingOn, Rejected
    <2> HIDE DEF RoutesAgree
    <2>3. /\ admitted' \in Sub \cup {Nowhere} /\ superseded' = superseded
          /\ seen' \in BOOLEAN /\ kernel' \in BOOLEAN /\ (kernel' => admitted' # Nowhere)
          /\ admitted' # "mesh" /\ (admitted # "mesh" => admitted' = admitted)
          /\ (admitted' # Nowhere => admitted' = admitted)
      BY <1>1, <2>1, DeathKeeps
    <2>4. \A p \in pending' : p.sub \notin superseded'
      BY <2>2, <2>3 DEF RoutesAgree
    <2>5. admitted' # Nowhere => admitted' \in owns' \ superseded'
      BY <1>0, <2>3 DEF RoutesAgree
    <2>6. "socket" \in owns' \ superseded' /\ ~detached' => admitted' = "socket"
      BY <1>0, <2>3
    <2> QED
      BY <1>0, <2>2, <2>3, <2>4, <2>5, <2>6, RouteKeeps
  <1>2. CASE "mesh" \notin owns
    <2>1. UNCHANGED <<admitted, superseded, seen, kernel, pending, outcome>>
      BY <1>2 DEF MeshRouteLost
    <2>2. RequestsKept({})
      BY <2>1 DEF RequestsKept
    <2> QED
      BY <1>0, <1>2, <2>1, <2>2, RouteKeeps
  <1> QED
    BY <1>1, <1>2

LEMMA SocketLostKeeps == RoutesInv /\ SocketRouteLost => RoutesInv'
  <1> SUFFICES ASSUME RoutesInv, SocketRouteLost PROVE RoutesInv'
    OBVIOUS
  <1> USE DEF RoutesInv, RoutesAgree, RqTypeOK, Sub, Nowhere
  <1>0. /\ open' = open \ {"socket"} /\ owns' = owns \ {"socket"} /\ wire' \subseteq wire
        /\ detached' = FALSE /\ Rejected(PendingOn("socket"))
        /\ UNCHANGED <<ups, running>>
    BY DEF SocketRouteLost
  <1>1. RequestsKept(PendingOn("socket")) /\ PendingOn("socket") \subseteq pending /\ pending' \subseteq pending
    BY <1>0 DEF RequestsKept, PendingOn, Rejected
  <1>2. CASE "socket" \in owns
    <2>1. SubDeath("socket")
      BY <1>2 DEF SocketRouteLost
    <2> HIDE DEF RoutesAgree
    <2>2. /\ admitted' \in Sub \cup {Nowhere} /\ superseded' = superseded \ {"socket"}
          /\ seen' \in BOOLEAN /\ kernel' \in BOOLEAN /\ (kernel' => admitted' # Nowhere)
          /\ admitted' # "socket" /\ (admitted' # Nowhere => admitted' = admitted)
      BY <1>2, <2>1, DeathKeeps
    <2>3. \A p \in pending' : p.sub \notin superseded'
      BY <1>1, <2>2 DEF RoutesAgree
    <2>4. admitted' # Nowhere => admitted' \in owns' \ superseded'
      BY <1>0, <2>2 DEF RoutesAgree
    <2> QED
      BY <1>0, <1>1, <2>2, <2>3, <2>4, RouteKeeps
  <1>3. CASE "socket" \notin owns
    <2>1. UNCHANGED <<admitted, superseded, seen, kernel>>
      BY <1>3 DEF SocketRouteLost
    <2>2. \A p \in pending' : p.sub \notin superseded'
      BY <1>1, <2>1
    <2> QED
      BY <1>0, <1>1, <1>3, <2>1, <2>2, RouteKeeps
  <1> QED
    BY <1>2, <1>3

LEMMA CloseRouteKeeps == RoutesInv /\ CloseRoute => RoutesInv'
  <1> SUFFICES ASSUME RoutesInv, CloseRoute PROVE RoutesInv'
    OBVIOUS
  <1> USE DEF RoutesInv, RoutesAgree, RqTypeOK, Sub, Nowhere
  <1>0. /\ kernel' = FALSE /\ admitted' = Nowhere /\ detached' = (detached \/ RouteFor = "socket")
        /\ UNCHANGED <<ups, superseded, seen, pending, outcome, running>>
    BY DEF CloseRoute
  <1>1. /\ open' \subseteq open /\ owns' \subseteq owns /\ owns' \subseteq open' /\ wire' \subseteq wire
    BY DEF CloseRoute
  <1>2. "socket" \in owns \ superseded => detached'
    BY <1>0 DEF RouteFor
  <1>3. RequestsKept({})
    BY <1>0 DEF RequestsKept
  <1> QED
    BY <1>0, <1>1, <1>2, <1>3, RouteKeeps

LEMMA RoutesStep == RoutesInv /\ [RqNext]_rqVars => RoutesInv'
  <1> SUFFICES ASSUME RoutesInv, [RqNext]_rqVars PROVE RoutesInv'
    OBVIOUS
  <1>1. ASSUME NEW r \in Request, SendRequest(r) PROVE RoutesInv'
    BY <1>1, SendKeeps
  <1>2. ASSUME NEW f \in wire, NEW ok \in BOOLEAN, ServeRequest(f, ok) PROVE RoutesInv'
    BY <1>2, ServeKeeps
  <1>3. ASSUME NEW f \in wire, OnResponse(f) PROVE RoutesInv'
    BY <1>3, ResponseKeeps
  <1>4. ASSUME NEW p \in pending, RequestTimeout(p) PROVE RoutesInv'
    BY <1>4, TimeoutKeeps
  <1>5. ASSUME NEW s \in Sub, ChannelUp(s) PROVE RoutesInv'
    BY <1>5, ChannelUpKeeps
  <1>6. ASSUME NEW s \in Sub, Bound(s) PROVE RoutesInv'
    BY <1>6, BoundKeeps
  <1>7. CASE MeshRouteLost \/ SocketRouteLost \/ CloseRoute \/ StopTransports
    BY <1>7, MeshLostKeeps, SocketLostKeeps, CloseRouteKeeps, StopKeeps
  <1>8. CASE UNCHANGED rqVars
    BY <1>8 DEF rqVars, routeVars, callVars, RoutesInv, RqTypeOK, RoutesAgree, RouteFor
  <1> QED
    BY <1>1, <1>2, <1>3, <1>4, <1>5, <1>6, <1>7, <1>8 DEF RqNext

\* A peer of the kernel always has an admitted route, that route is bound, no
\* request waits on a superseded one, and requests go by the admitted one.
THEOREM RoutesAgreeAlways == RqSpec => []RoutesAgree
  <1>1. RoutesInv => RoutesAgree
    BY DEF RoutesInv
  <1> QED
    BY RoutesInit, RoutesStep, <1>1, PTL DEF RqSpec

(***************************************************************************)
(* The socket server's bindings.                                             *)
(***************************************************************************)
\* A handshake is there only for an open connection; a signature that is kept,
\* or being checked, has been read, and it was the client's second frame.
ServerInv ==
    /\ SsTypeOK
    /\ BoundIsOpen
    /\ \A c \in Conn : (Has(c) => c \in up) /\ (auth[c].sig # "none" => came[c] = 2)
    /\ \A k \in checking : came[k.c] = 2

AuthState == [here : BOOLEAN, hello : BOOLEAN, sig : {"none", "good", "bad"},
              sigSent : BOOLEAN, verifying : BOOLEAN, bound : BOOLEAN]

LEMMA FreshType == Fresh \in AuthState /\ Gone \in AuthState /\ Fresh.sig = "none"
                   /\ Gone.sig = "none" /\ ~Gone.here
  BY DEF Fresh, Gone, AuthState

LEMMA ServerInit == SsInit => ServerInv
  <1> SUFFICES ASSUME SsInit PROVE ServerInv
    OBVIOUS
  <1>1. auth \in [Conn -> AuthState]
    BY FreshType DEF SsInit
  <1>2. opened \in 0..MaxConn /\ connOf \in 0..MaxConn /\ asked \in [Call -> 0..MaxConn]
    BY SocketServerAssumption DEF SsInit
  <1>3. SsTypeOK
    BY <1>1, <1>2 DEF SsInit, SsTypeOK, AuthState
  <1>4. \A c \in Conn : ~Has(c) /\ auth[c].sig = "none"
    BY FreshType DEF SsInit, Has
  <1> QED
    BY <1>3, <1>4 DEF SsInit, ServerInv, BoundIsOpen

\* A check that is started: of the signature that connection c has sent.
TakenOn(k, c, n) == n = 2 /\ k.c = c /\ k \in [c : Conn, sig : {"good", "bad"}]

\* Steps of the handshake that bind nothing and close nothing.
LEMMA HandshakeKeeps ==
  ASSUME ServerInv, UNCHANGED <<up, opened, connOf, nodeOf, calls, asked>>,
         NEW c \in Conn, NEW st \in AuthState, auth' = [auth EXCEPT ![c] = st],
         NEW n \in 0..2, came' = [came EXCEPT ![c] = n], came[c] <= n,
         st.here => c \in up, st.sig # "none" => n = 2,
         signing' \subseteq Conn,
         \A k \in checking' : k \in checking \/ TakenOn(k, c, n)
  PROVE  ServerInv'
  <1> USE DEF ServerInv
  <1>1. auth' \in [Conn -> AuthState] /\ came' \in [Conn -> 0..2]
    BY DEF SsTypeOK, AuthState
  <1>2. checking' \subseteq [c : Conn, sig : {"good", "bad"}]
    BY DEF SsTypeOK, TakenOn
  <1>3. SsTypeOK'
    BY <1>1, <1>2 DEF SsTypeOK, AuthState
  <1>4. \A d \in Conn : came[d] = 2 => came'[d] = 2
    BY DEF SsTypeOK
  <1>5. BoundIsOpen'
    BY <1>4 DEF BoundIsOpen, SsTypeOK
  <1>6. \A d \in Conn : (Has(d)' => d \in up') /\ (auth'[d].sig # "none" => came'[d] = 2)
    BY <1>4 DEF Has, SsTypeOK
  <1>7. \A k \in checking' : came'[k.c] = 2
    BY <1>4 DEF SsTypeOK, TakenOn
  <1> QED
    BY <1>3, <1>5, <1>6, <1>7

LEMMA ProgressKeeps ==
  ASSUME ServerInv, UNCHANGED <<up, opened, connOf, nodeOf, calls, asked>>,
         NEW c \in Conn, NEW st \in AuthState, Progress(c, st), c \in up,
         NEW n \in 0..2, came' = [came EXCEPT ![c] = n], came[c] <= n,
         st.sig # "none" => n = 2
  PROVE  ServerInv'
  <1> DEFINE sign == ~st.bound /\ st.hello /\ ~st.sigSent
             check == ~st.bound /\ st.hello /\ ~sign /\ st.sig # "none" /\ ~st.verifying
             new == [st EXCEPT !.sigSent = @ \/ sign, !.verifying = @ \/ check]
  <1>1. /\ auth' = [auth EXCEPT ![c] = new]
        /\ signing' = IF sign THEN signing \cup {c} ELSE signing
        /\ checking' = IF check THEN checking \cup {[c |-> c, sig |-> st.sig]} ELSE checking
    BY Zenon DEF Progress
  <1>2. new \in AuthState /\ new.sig = st.sig
    BY DEF AuthState
  <1>3. signing' \subseteq Conn
    BY <1>1 DEF ServerInv, SsTypeOK
  <1>4. \A k \in checking' : k \in checking \/ TakenOn(k, c, n)
    BY <1>1 DEF AuthState, TakenOn
  <1> HIDE DEF new, sign, check
  <1> QED
    BY <1>1, <1>2, <1>3, <1>4, HandshakeKeeps

LEMMA BegunType ==
  ASSUME ServerInv, NEW c \in Conn
  PROVE  Begun(c) \in AuthState /\ (Begun(c).sig # "none" => came[c] = 2)
  BY FreshType DEF Begun, ServerInv, SsTypeOK, AuthState

LEMMA HelloKeeps ==
  ASSUME ServerInv, NEW c \in Conn, NEW good \in BOOLEAN, OnHello(c, good)
  PROVE  ServerInv'
  <1>1. /\ UNCHANGED <<up, opened, connOf, nodeOf, calls, asked>>
        /\ c \in up /\ came[c] = 0 /\ came' = [came EXCEPT ![c] = 1]
    BY DEF OnHello
  <1>2. CASE good
    <2> DEFINE st == [Begun(c) EXCEPT !.hello = TRUE]
    <2>1. Progress(c, st)
      BY <1>2 DEF OnHello
    <2>2. st \in AuthState /\ st.sig = Begun(c).sig
      BY BegunType DEF AuthState
    <2>3. Begun(c).sig = "none"
      BY <1>1, BegunType
    <2> HIDE DEF st
    <2> QED
      <3>1. 1 \in 0..2 /\ came[c] <= 1 /\ (st.sig # "none" => 1 = 2)
        BY <1>1, <2>2, <2>3
      <3> QED
        BY <1>1, <2>1, <2>2, <3>1, ProgressKeeps
  <1>3. CASE ~good
    <2>1. auth' = [auth EXCEPT ![c] = Gone] /\ UNCHANGED <<signing, checking>>
      BY <1>3 DEF OnHello, AuthReject
    <2>2. signing' \subseteq Conn
      BY <2>1 DEF ServerInv, SsTypeOK
    <2> QED
      <3>1. 1 \in 0..2 /\ came[c] <= 1
        BY <1>1
      <3>2. (Gone.here => c \in up) /\ (Gone.sig # "none" => 1 = 2) /\ Gone \in AuthState
        BY FreshType
      <3>3. \A k \in checking' : k \in checking \/ TakenOn(k, c, 1)
        BY <2>1
      <3> QED
        BY <1>1, <2>1, <2>2, <3>1, <3>2, <3>3, HandshakeKeeps
  <1> QED
    BY <1>2, <1>3

LEMMA SigKeeps ==
  ASSUME ServerInv, NEW c \in Conn, NEW proof \in {"good", "bad"}, OnSig(c, proof)
  PROVE  ServerInv'
  <1> DEFINE st == [Begun(c) EXCEPT !.sig = proof]
  <1>1. /\ UNCHANGED <<up, opened, connOf, nodeOf, calls, asked>>
        /\ c \in up /\ came[c] = 1 /\ came' = [came EXCEPT ![c] = 2]
        /\ Progress(c, st)
    BY DEF OnSig
  <1>2. st \in AuthState
    BY BegunType DEF AuthState
  <1>3. 2 \in 0..2 /\ came[c] <= 2
    BY <1>1
  <1> HIDE DEF st
  <1> QED
    BY <1>1, <1>2, <1>3, ProgressKeeps

LEMMA SignedKeeps ==
  ASSUME ServerInv, NEW c \in Conn, NEW ok \in BOOLEAN, Signed(c, ok)
  PROVE  ServerInv'
  <1> USE DEF ServerInv, SsTypeOK
  <1>1. /\ UNCHANGED <<up, opened, connOf, nodeOf, calls, asked>> /\ came' = came
        /\ signing' = signing \ {c}
    BY DEF Signed
  <1>2. /\ came' = [came EXCEPT ![c] = came[c]] /\ came[c] \in 0..2 /\ came[c] <= came[c]
        /\ signing' \subseteq Conn
    BY <1>1
  <1>3. auth[c] \in AuthState /\ auth \in [Conn -> AuthState]
    BY DEF AuthState
  <1> HIDE DEF SsTypeOK
  <1>4. CASE ~Has(c)
    <2>1. auth' = [auth EXCEPT ![c] = auth[c]] /\ checking' = checking
      BY <1>3, <1>4 DEF Signed
    <2> QED
      <3>1. (auth[c].here => c \in up) /\ (auth[c].sig # "none" => came[c] = 2)
        BY DEF Has
      <3>2. \A k \in checking' : k \in checking \/ TakenOn(k, c, came[c])
        BY <2>1
      <3> HIDE DEF ServerInv
      <3> QED
        BY <1>1, <1>2, <1>3, <2>1, <3>1, <3>2, HandshakeKeeps
  <1>5. CASE Has(c) /\ (~ok \/ c \notin up)
    <2>1. auth' = [auth EXCEPT ![c] = Gone] /\ checking' = checking
      BY <1>5 DEF Signed, AuthReject
    <2> QED
      <3>1. \A k \in checking' : k \in checking \/ TakenOn(k, c, came[c])
        BY <2>1
      <3> HIDE DEF ServerInv
      <3> QED
        BY <1>1, <1>2, <2>1, <3>1, FreshType, HandshakeKeeps
  <1>6. CASE Has(c) /\ ok /\ c \in up
    <2> DEFINE check == auth[c].sig # "none" /\ ~auth[c].bound /\ ~auth[c].verifying
               st == [auth[c] EXCEPT !.verifying = @ \/ check]
    <2>1. /\ auth' = [auth EXCEPT ![c].verifying = @ \/ check]
          /\ checking' = IF check THEN checking \cup {[c |-> c, sig |-> auth[c].sig]} ELSE checking
      BY <1>6 DEF Signed
    <2>2. auth' = [auth EXCEPT ![c] = st]
      BY <1>3, <2>1
    <2>3. st \in AuthState /\ st.sig = auth[c].sig
      BY <1>3 DEF AuthState
    <2>4. \A k \in checking' : k \in checking \/ TakenOn(k, c, came[c])
      BY <1>3, <2>1 DEF AuthState, TakenOn
    <2>5. (st.here => c \in up) /\ (st.sig # "none" => came[c] = 2)
      BY <1>6, <2>3
    <2> HIDE DEF st, check, ServerInv
    <2> QED
      BY <1>1, <1>2, <2>2, <2>3, <2>4, <2>5, HandshakeKeeps
  <1> QED
    BY <1>4, <1>5, <1>6

LEMMA OpenedKeeps == ServerInv /\ Opened => ServerInv'
  <1> SUFFICES ASSUME ServerInv, Opened PROVE ServerInv'
    OBVIOUS
  <1> USE DEF ServerInv
  <1>1. /\ opened < MaxConn /\ opened' = opened + 1 /\ up' = up \cup {opened + 1}
        /\ auth' = [auth EXCEPT ![opened + 1] = Fresh]
        /\ UNCHANGED <<came, signing, checking, connOf, nodeOf, calls, asked>>
    BY DEF Opened
  <1>2. opened + 1 \in Conn /\ opened' \in 0..MaxConn
    BY <1>1, SocketServerAssumption DEF SsTypeOK, Conn
  <1>3. auth' \in [Conn -> AuthState]
    BY <1>1, FreshType DEF SsTypeOK, AuthState
  <1>4. SsTypeOK'
    BY <1>1, <1>2, <1>3 DEF SsTypeOK, AuthState
  <1>5. \A c \in Conn : (Has(c)' => c \in up') /\ (auth'[c].sig # "none" => came'[c] = 2)
    BY <1>1, FreshType DEF Has, SsTypeOK
  <1> QED
    BY <1>1, <1>4, <1>5 DEF BoundIsOpen

\* The await of verifyAuthHello ends: what it was awaited for may be gone.
LEMMA VerifiedKeeps ==
  ASSUME ServerInv, NEW k \in checking, Verified(k)
  PROVE  ServerInv'
  <1> USE DEF ServerInv
  <1>1. checking' = checking \ {k} /\ UNCHANGED <<up, opened, came, signing, calls, asked>>
    BY DEF Verified
  <1>2. k.c \in Conn /\ came[k.c] = 2 /\ auth \in [Conn -> AuthState]
    BY DEF SsTypeOK, AuthState
  <1>3. CASE ~StillHere(k.c)
    <2>1. UNCHANGED <<auth, connOf, nodeOf>>
      BY <1>3 DEF Verified
    <2>2. SsTypeOK'
      BY <1>1, <2>1 DEF SsTypeOK
    <2> QED
      BY <1>1, <2>1, <2>2 DEF BoundIsOpen, Has
  <1>4. CASE StillHere(k.c) /\ k.sig = "bad"
    <2>1. auth' = [auth EXCEPT ![k.c] = Gone] /\ UNCHANGED <<connOf, nodeOf>>
      BY <1>4 DEF Verified, AuthReject
    <2>2. auth' \in [Conn -> AuthState]
      BY <1>2, <2>1, FreshType
    <2>3. SsTypeOK'
      BY <1>1, <2>1, <2>2 DEF SsTypeOK, AuthState
    <2>4. \A c \in Conn : (Has(c)' => c \in up') /\ (auth'[c].sig # "none" => came'[c] = 2)
      BY <1>1, <1>2, <2>1, FreshType DEF Has
    <2> QED
      BY <1>1, <2>1, <2>3, <2>4 DEF BoundIsOpen
  <1>5. CASE StillHere(k.c) /\ k.sig # "bad"
    <2>1. /\ auth' = [auth EXCEPT ![k.c].bound = Has(k.c)]
          /\ connOf' = k.c /\ nodeOf' = nodeOf \cup {k.c}
      BY <1>5 DEF Verified, BindPeer
    <2>2. auth' \in [Conn -> AuthState]
      BY <1>2, <2>1, FreshType DEF Has, AuthState
    <2>3. SsTypeOK'
      <3>1. connOf' \in 0..MaxConn /\ nodeOf' \subseteq Conn
        BY <1>2, <2>1 DEF SsTypeOK, Conn
      <3> QED
        BY <1>1, <2>1, <2>2, <3>1 DEF SsTypeOK, AuthState
    <2>4. \A c \in Conn : auth'[c].here = auth[c].here /\ auth'[c].sig = auth[c].sig
      BY <1>2, <2>1 DEF AuthState
    <2>5. k.c \in up
      BY <1>2, <1>5 DEF StillHere
    <2> QED
      BY <1>1, <1>2, <2>1, <2>3, <2>4, <2>5 DEF BoundIsOpen, Has
  <1> QED
    BY <1>3, <1>4, <1>5

LEMMA CallsKeep ==
  ASSUME ServerInv, UNCHANGED <<up, opened, auth, came, signing, checking, connOf, nodeOf>>,
         calls' \in [Call -> {"unsent", "waiting", "resolved", "rejected"}],
         asked' \in [Call -> 0..MaxConn]
  PROVE  ServerInv'
  BY DEF ServerInv, SsTypeOK, BoundIsOpen, Has

LEMMA ConnClosedKeeps ==
  ASSUME ServerInv, NEW c \in Conn, ConnClosed(c)
  PROVE  ServerInv'
  <1> USE DEF ServerInv
  <1>1. /\ up' = up \ {c} /\ auth' = [auth EXCEPT ![c] = Gone]
        /\ connOf' = (IF c \in nodeOf THEN 0 ELSE connOf) /\ nodeOf' = nodeOf \ {c}
        /\ UNCHANGED <<opened, came, signing, checking, asked>>
    BY DEF ConnClosed, UnbindPeer
  <1>2. calls' \in [Call -> {"unsent", "waiting", "resolved", "rejected"}]
    BY DEF ConnClosed, SsTypeOK
  <1>3. auth' \in [Conn -> AuthState]
    BY <1>1, FreshType DEF SsTypeOK, AuthState
  <1>4. connOf' \in 0..MaxConn
    BY <1>1, SocketServerAssumption DEF SsTypeOK
  <1>5. SsTypeOK'
    BY <1>1, <1>2, <1>3, <1>4 DEF SsTypeOK, AuthState
  <1>6. \A d \in Conn : (Has(d)' => d \in up') /\ (auth'[d].sig # "none" => came'[d] = 2)
    BY <1>1, FreshType DEF Has, SsTypeOK
  <1>7. BoundIsOpen'
    BY <1>1 DEF BoundIsOpen
  <1> QED
    BY <1>1, <1>5, <1>6, <1>7

LEMMA ServerStep == ServerInv /\ [SsNext]_ssVars => ServerInv'
  <1> SUFFICES ASSUME ServerInv, [SsNext]_ssVars PROVE ServerInv'
    OBVIOUS
  <1>1. CASE Opened
    BY <1>1, OpenedKeeps
  <1>2. ASSUME NEW c \in Conn, NEW good \in BOOLEAN, OnHello(c, good) \/ Signed(c, good)
        PROVE  ServerInv'
    BY <1>2, HelloKeeps, SignedKeeps
  <1>3. ASSUME NEW c \in Conn, NEW proof \in {"good", "bad"}, OnSig(c, proof) PROVE ServerInv'
    BY <1>3, SigKeeps
  <1>4. ASSUME NEW c \in Conn, ConnClosed(c) PROVE ServerInv'
    BY <1>4, ConnClosedKeeps
  <1>5. ASSUME NEW k \in checking, Verified(k) PROVE ServerInv'
    BY <1>5, VerifiedKeeps
  <1>6. ASSUME NEW q \in Call, ServerSend(q) PROVE ServerInv'
    <2>1. UNCHANGED <<up, opened, auth, came, signing, checking, connOf, nodeOf>>
      BY <1>6 DEF ServerSend
    <2>2. /\ calls' \in [Call -> {"unsent", "waiting", "resolved", "rejected"}]
          /\ asked' \in [Call -> 0..MaxConn]
      BY <1>6 DEF ServerSend, ServerInv, SsTypeOK
    <2> QED
      BY <2>1, <2>2, CallsKeep
  <1>7. ASSUME NEW q \in Call, NEW how \in {"resolved", "rejected"}, ServerSettled(q, how)
        PROVE  ServerInv'
    <2>1. UNCHANGED <<up, opened, auth, came, signing, checking, connOf, nodeOf>>
      BY <1>7 DEF ServerSettled
    <2>2. /\ calls' \in [Call -> {"unsent", "waiting", "resolved", "rejected"}]
          /\ asked' \in [Call -> 0..MaxConn]
      BY <1>7 DEF ServerSettled, ServerInv, SsTypeOK
    <2> QED
      BY <2>1, <2>2, CallsKeep
  <1>8. CASE ServerCloses
    <2>1. /\ nodeOf' = nodeOf \ {connOf} /\ connOf' = (IF connOf \in nodeOf THEN 0 ELSE connOf)
          /\ UNCHANGED <<up, opened, auth, came, signing, checking, calls, asked>>
      BY <1>8 DEF ServerCloses, UnbindPeer
    <2>2. connOf' \in 0..MaxConn
      BY <2>1, SocketServerAssumption DEF ServerInv, SsTypeOK
    <2> QED
      BY <1>8, <2>1, <2>2 DEF ServerCloses, ServerInv, SsTypeOK, BoundIsOpen, Has
  <1>9. CASE UNCHANGED ssVars
    BY <1>9 DEF ssVars, ServerInv, SsTypeOK, BoundIsOpen, Has
  <1> QED
    BY <1>1, <1>2, <1>3, <1>4, <1>5, <1>6, <1>7, <1>8, <1>9 DEF SsNext

\* The identity is on record only for open connections whose client has sent
\* its signature, whatever closes during an await; its route is one of them.
THEOREM BoundIsOpenAlways == SsSpec => []BoundIsOpen
  <1>1. ServerInv => BoundIsOpen
    BY DEF ServerInv
  <1> QED
    BY ServerInit, ServerStep, <1>1, PTL DEF SsSpec

\* The composite and the socket server, side by side.
THEOREM CarriersAgreeAlways == RqSpec /\ SsSpec => []CarriersAgree
  <1>1. RoutesAgree /\ BoundIsOpen => CarriersAgree
    BY DEF CarriersAgree
  <1> QED
    BY RoutesAgreeAlways, BoundIsOpenAlways, <1>1, PTL

(***************************************************************************)
(* Walks.                                                                    *)
(***************************************************************************)
\* Some natural numbers have a least one among them.
LEMMA LeastOf ==
  ASSUME NEW T \in SUBSET Nat, T # {}
  PROVE  (CHOOSE h \in T : \A k \in T : h <= k) \in T
  <1>1. PICK x \in T : \A y \in T : <<y, x>> \notin OpToRel(<, Nat)
    BY NatLessThanWellFounded, WFMin
  <1>2. \A y \in T : ~(y < x)
    BY <1>1, Zenon DEF OpToRel
  <1>3. \A y \in T : x <= y
    BY <1>2
  <1> QED
    BY <1>3

LEMMA InjectiveMeans ==
  ASSUME NEW f PROVE IsInjective(f) <=> \A m \in DOMAIN f : \A n \in DOMAIN f : f[m] = f[n] => m = n
  BY DEF IsInjective

\* A path grows by a node that is not on it.
LEMMA PathGrows ==
  ASSUME NEW S, NEW s \in Seq(S), NEW x \in S, IsInjective(s), x \notin ToSet(s)
  PROVE  /\ Append(s, x) \in Seq(S) /\ IsInjective(Append(s, x))
         /\ ToSet(Append(s, x)) = ToSet(s) \cup {x}
         /\ Len(Append(s, x)) = Len(s) + 1 /\ Append(s, x)[Len(s) + 1] = x
         /\ \A i \in 1..Len(s) : Append(s, x)[i] = s[i]
  <1>1. /\ Append(s, x) \in Seq(S) /\ Len(Append(s, x)) = Len(s) + 1 /\ Append(s, x)[Len(s) + 1] = x
        /\ \A i \in 1..Len(s) : Append(s, x)[i] = s[i]
    OBVIOUS
  <1>2. Len(s) \in Nat /\ DOMAIN s = 1..Len(s) /\ DOMAIN Append(s, x) = 1..(Len(s) + 1)
    OBVIOUS
  <1>3. \A i \in 1..Len(s) : s[i] # x
    BY <1>2 DEF ToSet
  <1> DEFINE t == Append(s, x)
  <1>4. \A m \in DOMAIN t : \A n \in DOMAIN t : t[m] = t[n] => m = n
    <2> SUFFICES ASSUME NEW m \in 1..(Len(s) + 1), NEW n \in 1..(Len(s) + 1), t[m] = t[n] PROVE m = n
      BY <1>2
    <2>1. CASE m \in 1..Len(s) /\ n \in 1..Len(s)
      BY <1>1, <1>2, <2>1, InjectiveMeans
    <2>2. CASE m = Len(s) + 1 /\ n \in 1..Len(s)
      BY <1>1, <1>3, <2>2
    <2>3. CASE n = Len(s) + 1 /\ m \in 1..Len(s)
      BY <1>1, <1>3, <2>3
    <2> QED
      BY <1>2, <2>1, <2>2, <2>3
  <1>5. IsInjective(t)
    BY <1>4, InjectiveMeans
  <1>6. ToSet(t) = ToSet(s) \cup {x}
    <2>1. ASSUME NEW y \in ToSet(t) PROVE y \in ToSet(s) \cup {x}
      <3>1. PICK i \in DOMAIN t : y = t[i]
        BY <2>1 DEF ToSet
      <3> QED
        BY <1>1, <1>2, <3>1 DEF ToSet
    <2>2. ASSUME NEW y \in ToSet(s) PROVE y \in ToSet(t)
      <3>1. PICK i \in 1..Len(s) : y = s[i]
        BY <1>2, <2>2 DEF ToSet
      <3>2. i \in DOMAIN t /\ t[i] = y
        BY <1>1, <1>2, <3>1
      <3> QED
        BY <3>2 DEF ToSet
    <2>3. x \in ToSet(t)
      <3>1. Len(s) + 1 \in DOMAIN t /\ t[Len(s) + 1] = x
        BY <1>1, <1>2
      <3> QED
        BY <3>1 DEF ToSet
    <2> QED
      BY <2>1, <2>2, <2>3
  <1> QED
    BY <1>1, <1>5, <1>6

(***************************************************************************)
(* The lookup.                                                               *)
(***************************************************************************)
Walk == [at : Hop, path : Seq(Hop), next : Hop \cup {NoHop}, cands : SUBSET Hop]
Result == [to : Hop, path : Seq(Hop), verdict : Verdict]

\* The hops of a path up to the i-th one are over open channels.
OpenTo(path, i) == \A j \in 2..i : {path[j - 1], path[j]} \in link
Placed(path, h) == \E i \in 1..Len(path) : path[i] = h /\ OpenTo(path, i)

GoodPath(path) == path \in Seq(Hop) /\ Len(path) > 0 /\ IsInjective(path) /\ path[1] = Source

\* A walk is at the end of its path; only at the target it has visited that; and
\* the hop it has chosen is new.
GoodWalk(w) ==
    /\ w \in Walk /\ GoodPath(w.path) /\ w.path[Len(w.path)] = w.at
    /\ Target \in Visited(w) => w.at = Target
    /\ w.next # NoHop => w.next \notin Visited(w) /\ w.at # Target

GoodResult(r) == r \in Result /\ GoodPath(r.path)

\* One copy of the walk or of its result is under way.
OneCopy ==
    \/ results = {} /\ \E w \in walks : walks = {w}
    \/ walks = {} /\ \E r \in results : results = {r}

\* Where nothing is lost the paths back are open, and the walk does not vanish.
Unbroken ==
    /\ \A w \in walks : OpenTo(w.path, Len(w.path))
    /\ \A r \in results : Placed(r.path, r.to)
    /\ answer = "waiting" => OneCopy

WalkSound ==
    /\ routable \in [Hop -> SUBSET Hop] /\ lost \in Nat
    /\ \A w \in walks : GoodWalk(w)
    /\ \A r \in results : GoodResult(r) /\ (r.verdict = "found" => reached)
    /\ answer = "found" => reached
    /\ answer = "none" => walks = {} /\ results = {}

WalkInv == WalkSound /\ (lost = 0 => Unbroken)

LEMMA WalkNumbers ==
  /\ WalkN \in Nat /\ WalkN > 1 /\ Source \in Hop /\ Target \in Hop /\ Source # Target /\ NoHop \notin Hop
  /\ Hop \subseteq Nat /\ NoHop = WalkN
  BY LookupAssumption DEF Source, Target, Hop, NoHop

LEMMA LkInitHolds == LkInit => WalkInv
  <1> SUFFICES ASSUME LkInit PROVE WalkInv
    OBVIOUS
  <1>1. walks = {} /\ results = {} /\ answer = "none" /\ lost = 0
    BY DEF LkInit
  <1>2. routable \in [Hop -> SUBSET Hop]
    BY DEF LkInit
  <1> QED
    BY <1>1, <1>2 DEF WalkInv, WalkSound, Unbroken

\* The predecessor of a node on a path is the node before it.
LEMMA PrevIs ==
  ASSUME NEW path, GoodPath(path), NEW i \in 2..Len(path)
  PROVE  WalkPrev(path, path[i]) = path[i - 1] /\ path[i - 1] \in Hop
  <1> DEFINE at == {k \in 2..Len(path) : path[k] = path[i]}
  <1>1. path \in Seq(Hop) /\ DOMAIN path = 1..Len(path) /\ Len(path) \in Nat
    BY DEF GoodPath
  <1>2. \A k \in 2..Len(path) : path[k] = path[i] => k = i
    BY <1>1, InjectiveMeans DEF GoodPath
  <1>3. at = {i}
    BY <1>2
  <1>4. (CHOOSE k \in at : \A j \in at : j <= k) = i
    BY <1>3
  <1>5. WalkPrev(path, path[i]) = path[i - 1]
    BY <1>3, <1>4 DEF WalkPrev
  <1> QED
    BY <1>1, <1>5

LEMMA PrevTyped ==
  ASSUME NEW path, GoodPath(path), NEW h
  PROVE  WalkPrev(path, h) \in Hop \cup {NoHop}
  <1>1. CASE \E i \in 2..Len(path) : path[i] = h
    BY <1>1, PrevIs
  <1>2. CASE ~\E i \in 2..Len(path) : path[i] = h
    <2>1. {i \in 2..Len(path) : path[i] = h} = {}
      BY <1>2
    <2> QED
      BY <2>1 DEF WalkPrev
  <1> QED
    BY <1>1, <1>2

\* On an open path every node but the first can send the result back.
LEMMA PrevOpen ==
  ASSUME NEW path, GoodPath(path), NEW h, Placed(path, h), h # Source
  PROVE  /\ WalkPrev(path, h) \in Hop /\ WalkPrev(path, h) # NoHop
         /\ Connected(h, WalkPrev(path, h)) /\ Placed(path, WalkPrev(path, h))
  <1>1. PICK i \in 1..Len(path) : path[i] = h /\ OpenTo(path, i)
    BY DEF Placed
  <1>2. i # 1 /\ Len(path) \in Nat
    BY <1>1 DEF GoodPath
  <1>3. i \in 2..Len(path)
    BY <1>2
  <1>4. WalkPrev(path, h) = path[i - 1] /\ path[i - 1] \in Hop
    BY <1>1, <1>3, PrevIs
  <1>5. {path[i - 1], path[i]} \in link
    BY <1>1, <1>3 DEF OpenTo
  <1>6. i - 1 \in 1..Len(path) /\ OpenTo(path, i - 1)
    BY <1>1, <1>3 DEF OpenTo
  <1>7. {path[i - 1], path[i]} = {path[i], path[i - 1]}
    OBVIOUS
  <1> QED
    BY <1>1, <1>4, <1>5, <1>6, <1>7, WalkNumbers DEF Placed, Connected

\* What a node does with a result keeps the results good, and the answer true.
LEMMA FinishSound ==
  ASSUME WalkSound, NEW h \in Hop, NEW path, NEW v \in Verdict, NEW rs \in SUBSET results,
         GoodPath(path), v = "found" => reached', reached => reached', answer # "none",
         WalkFinish(h, path, v, rs)
  PROVE  /\ \A r \in results' : GoodResult(r) /\ (r.verdict = "found" => reached')
         /\ answer' = "found" => reached'
         /\ answer' # "none"
         /\ answer' = "waiting" => answer = "waiting"
  <1>1. \A r \in rs : GoodResult(r) /\ (r.verdict = "found" => reached')
    BY DEF WalkSound
  <1>2. v # "none" /\ v # "waiting"
    BY DEF Verdict
  <1>3. CASE h = Source
    BY <1>1, <1>2, <1>3 DEF WalkFinish, WalkSound
  <1>4. CASE h # Source
    <2> DEFINE r == [to |-> WalkPrev(path, h), path |-> path, verdict |-> v]
    <2>1. answer' = answer
      BY <1>4 DEF WalkFinish
    <2>2. CASE results' = rs
      BY <1>1, <2>1, <2>2 DEF WalkSound
    <2>3. CASE results' = rs \cup {r} /\ WalkPrev(path, h) # NoHop
      <3>1. WalkPrev(path, h) \in Hop
        BY <2>3, PrevTyped
      <3>2. GoodResult(r) /\ (r.verdict = "found" => reached')
        BY <3>1 DEF GoodResult, Result, GoodPath
      <3> QED
        BY <1>1, <2>1, <2>3, <3>2 DEF WalkSound
    <2> QED
      BY <1>4, <2>2, <2>3 DEF WalkFinish
  <1> QED
    BY <1>3, <1>4

\* Along an open path the result goes on.
LEMMA FinishGoesOn ==
  ASSUME NEW h \in Hop, NEW path, NEW v \in Verdict, NEW rs, GoodPath(path), Placed(path, h), WalkFinish(h, path, v, rs)
  PROVE  /\ answer' = "waiting" => \E r \in results' : results' = rs \cup {r}
         /\ \A r \in results' : r \in rs \/ Placed(r.path, r.to)
  <1>1. v # "waiting"
    BY DEF Verdict
  <1>2. CASE h = Source
    BY <1>1, <1>2 DEF WalkFinish
  <1>3. CASE h # Source
    <2> DEFINE r == [to |-> WalkPrev(path, h), path |-> path, verdict |-> v]
    <2>1. WalkPrev(path, h) # NoHop /\ Connected(h, WalkPrev(path, h)) /\ Placed(path, WalkPrev(path, h))
      BY <1>3, PrevOpen
    <2>2. results' = rs \cup {r}
      BY <1>3, <2>1 DEF WalkFinish
    <2>3. Placed(r.path, r.to)
      BY <2>1
    <2> HIDE DEF r
    <2> QED
      BY <2>2, <2>3
  <1> QED
    BY <1>2, <1>3

\* Open paths stay open while no channel is lost.
LEMMA StaysOpen ==
  ASSUME link' = link, NEW path, NEW h
  PROVE  (Placed(path, h))' = Placed(path, h) /\ (OpenTo(path, h))' = OpenTo(path, h)
  BY DEF Placed, OpenTo

LEMMA OnlyWalk ==
  ASSUME Unbroken, NEW w \in walks, answer = "waiting"
  PROVE  walks = {w} /\ results = {}
  BY DEF Unbroken, OneCopy

\* The node at the end of a walk is placed on its path.
LEMMA WalkPlaced ==
  ASSUME Unbroken, NEW w \in walks, GoodWalk(w) PROVE Placed(w.path, w.at)
  <1>1. Len(w.path) \in 1..Len(w.path)
    BY DEF GoodWalk, GoodPath
  <1> QED
    BY <1>1 DEF Unbroken, Placed, GoodWalk

\* A walk that ends.
LEMMA EndsKeeps ==
  ASSUME WalkInv, NEW w \in walks, NEW v \in Verdict, v = "found" => reached', reached => reached', Ends(w, v),
         link' = link, lost' = lost, routable' \in [Hop -> SUBSET Hop]
  PROVE  WalkInv'
  <1>1. GoodWalk(w) /\ GoodPath(w.path) /\ w.at \in Hop
    BY DEF WalkInv, WalkSound, GoodWalk, Walk
  <1>2. answer # "none" /\ WalkSound
    BY DEF WalkInv, WalkSound
  <1>3. PICK rs : rs = results
    OBVIOUS
  <1>4. walks' = walks \ {w} /\ WalkFinish(w.at, w.path, v, rs)
    BY <1>3 DEF Ends
  <1>5. /\ \A r \in results' : GoodResult(r) /\ (r.verdict = "found" => reached')
        /\ (answer' = "found" => reached') /\ answer' # "none" /\ (answer' = "waiting" => answer = "waiting")
    <2>1. PICK h \in Hop, p \in Seq(Hop) : h = w.at /\ p = w.path
      BY <1>1 DEF GoodPath
    <2>2. WalkFinish(h, p, v, rs) /\ GoodPath(p) /\ rs \in SUBSET results
      BY <1>1, <1>3, <1>4, <2>1
    <2> QED
      BY <1>2, <2>2, FinishSound
  <1>6. WalkSound'
    BY <1>2, <1>4, <1>5 DEF WalkSound, GoodWalk, GoodPath, GoodResult, Visited
  <1>7. ASSUME lost = 0 PROVE Unbroken'
    <2>1. Unbroken /\ Placed(w.path, w.at)
      BY <1>1, <1>7, WalkPlaced DEF WalkInv
    <2>2. PICK h \in Hop, p \in Seq(Hop) : h = w.at /\ p = w.path
      BY <1>1 DEF GoodPath
    <2>3. WalkFinish(h, p, v, rs) /\ GoodPath(p) /\ Placed(p, h)
      BY <1>1, <1>4, <2>1, <2>2
    <2>4. /\ answer' = "waiting" => \E r \in results' : results' = rs \cup {r}
          /\ \A r \in results' : r \in rs \/ Placed(r.path, r.to)
      BY <2>3, FinishGoesOn
    <2>5. \A r \in results' : Placed(r.path, r.to)
      BY <1>3, <2>1, <2>4 DEF Unbroken
    <2>6. (\A r \in results : Placed(r.path, r.to))'
      BY <2>5 DEF Placed, OpenTo
    <2>7. (\A x \in walks : OpenTo(x.path, Len(x.path)))'
      BY <1>4, <2>1 DEF Unbroken, OpenTo
    <2>8. answer' = "waiting" => OneCopy'
      BY <1>3, <1>4, <1>5, <2>1, <2>4, OnlyWalk DEF OneCopy
    <2> QED
      BY <2>6, <2>7, <2>8 DEF Unbroken
  <1> QED
    BY <1>6, <1>7 DEF WalkInv

\* What the next hop takes on is a good walk.
LEMMA HandedOnGood ==
  ASSUME NEW w, GoodWalk(w), w.next # NoHop
  PROVE  GoodWalk(HandedOn(w))
  <1> DEFINE n == HandedOn(w)
  <1>1. /\ w.path \in Seq(Hop) /\ w.next \in Hop /\ IsInjective(w.path) /\ w.next \notin ToSet(w.path)
        /\ w.at # Target /\ Len(w.path) > 0 /\ w.path[1] = Source /\ Target \notin ToSet(w.path)
    BY DEF GoodWalk, GoodPath, Visited, Walk
  <1>2. /\ Append(w.path, w.next) \in Seq(Hop) /\ IsInjective(Append(w.path, w.next))
        /\ ToSet(Append(w.path, w.next)) = ToSet(w.path) \cup {w.next}
        /\ Len(Append(w.path, w.next)) = Len(w.path) + 1 /\ Append(w.path, w.next)[Len(w.path) + 1] = w.next
        /\ Append(w.path, w.next)[1] = Source
    <2>1. 1 \in 1..Len(w.path)
      BY <1>1
    <2> QED
      BY <1>1, <2>1, PathGrows
  <1>3. n = [at |-> w.next, path |-> Append(w.path, w.next), next |-> NoHop, cands |-> {}]
    BY DEF HandedOn, Taken
  <1>4. n \in Walk
    BY <1>1, <1>2, <1>3 DEF Walk
  <1>5. GoodPath(n.path) /\ n.path[Len(n.path)] = n.at
    BY <1>1, <1>2, <1>3 DEF GoodPath
  <1>6. Target \in Visited(n) => n.at = Target
    BY <1>1, <1>2, <1>3 DEF Visited
  <1> HIDE DEF n
  <1>7. n.next = NoHop
    BY <1>3
  <1> QED
    BY <1>4, <1>5, <1>6, <1>7 DEF GoodWalk, n

\* The next candidate is one, and new.
LEMMA PickNextIs ==
  ASSUME NEW w, GoodWalk(w), PickNext(w) # NoHop
  PROVE  PickNext(w) \in w.cands /\ PickNext(w) \notin Visited(w) /\ PickNext(w) \in Hop
  <1> DEFINE left == {k \in w.cands \ {w.next} : k \notin Visited(w) \cup dead[w.at] /\ Connected(w.at, k)}
  <1>1. left # {} /\ PickNext(w) = Closest(left)
    BY DEF PickNext
  <1>2. w.cands \subseteq Hop /\ left \subseteq Hop
    BY DEF GoodWalk, Walk
  <1>3. Closest(left) \in left
    <2>1. left \in SUBSET Nat
      BY <1>2, WalkNumbers
    <2> HIDE DEF left
    <2> QED
      BY <1>1, <2>1, LeastOf DEF Closest
  <1> QED
    BY <1>1, <1>2, <1>3

LEMMA Reselects ==
  ASSUME NEW w, GoodWalk(w), w.next # NoHop, PickNext(w) # NoHop
  PROVE  GoodWalk([w EXCEPT !.next = PickNext(w), !.cands = w.cands \ {w.next}])
  <1> DEFINE n == [w EXCEPT !.next = PickNext(w), !.cands = w.cands \ {w.next}]
  <1>1. PickNext(w) \in Hop /\ PickNext(w) \notin Visited(w) /\ w \in Walk
    BY PickNextIs DEF GoodWalk
  <1>2. n \in Walk /\ n.at = w.at /\ n.path = w.path /\ n.next = PickNext(w)
    BY <1>1 DEF Walk
  <1> HIDE DEF n
  <1>3. GoodWalk(n)
    BY <1>1, <1>2 DEF GoodWalk, Visited
  <1> QED
    BY <1>3 DEF n

\* The path of a result about a failed step: the walk's, or one hop longer.
LEMMA ChargedPath ==
  ASSUME NEW w, GoodWalk(w), w.next # NoHop
  PROVE  /\ GoodPath(PathCharged(w))
         /\ \A i \in 1..Len(w.path) : PathCharged(w)[i] = w.path[i]
         /\ Len(PathCharged(w)) >= Len(w.path)
  <1>1. /\ w.path \in Seq(Hop) /\ w.next \in Hop /\ IsInjective(w.path) /\ w.next \notin ToSet(w.path)
        /\ Len(w.path) > 0 /\ w.path[1] = Source
    BY DEF GoodWalk, GoodPath, Visited, Walk
  <1>2. CASE Reselect
    BY <1>1, <1>2 DEF PathCharged, GoodPath
  <1>3. CASE ~Reselect
    <2>1. PathCharged(w) = Append(w.path, w.next)
      BY <1>3 DEF PathCharged
    <2>2. 1 \in 1..Len(w.path)
      BY <1>1
    <2>3. /\ Append(w.path, w.next) \in Seq(Hop) /\ IsInjective(Append(w.path, w.next))
          /\ Len(Append(w.path, w.next)) = Len(w.path) + 1
          /\ \A i \in 1..Len(w.path) : Append(w.path, w.next)[i] = w.path[i]
      BY <1>1, PathGrows
    <2> QED
      BY <1>1, <2>1, <2>2, <2>3 DEF GoodPath
  <1> QED
    BY <1>2, <1>3

\* A send that fails: the walk tries another hop, or its failure goes back.
LEMMA SendFailedSound ==
  ASSUME WalkSound, NEW w \in walks, w.next # NoHop, NEW edge, NEW kept, \A k \in kept : GoodWalk(k),
         SendFailed(w, edge, kept), routable' = routable, reached' = reached, lost' \in Nat
  PROVE  WalkSound'
  <1>1. GoodWalk(w) /\ answer # "none"
    BY DEF WalkSound
  <1>2. CASE Reselect /\ edge /\ PickNext(w) # NoHop
    <2> DEFINE n == [w EXCEPT !.next = PickNext(w), !.cands = w.cands \ {w.next}]
    <2>1. GoodWalk(n)
      BY <1>1, <1>2, Reselects
    <2>2. walks' = (walks \ {w}) \cup kept \cup {n} /\ results' = results /\ answer' = answer
      BY <1>2 DEF SendFailed
    <2> HIDE DEF n
    <2>3. \A k \in walks' : GoodWalk(k)
      BY <2>1, <2>2 DEF WalkSound
    <2> QED
      BY <1>1, <2>2, <2>3 DEF WalkSound, GoodWalk, GoodPath, GoodResult, Visited
  <1>3. CASE ~(Reselect /\ edge /\ PickNext(w) # NoHop)
    <2> DEFINE prev == WalkPrev(PathCharged(w), w.at)
               r == [to |-> prev, path |-> PathCharged(w), verdict |-> "send-failed"]
    <2>1. walks' = (walks \ {w}) \cup kept
      BY <1>3 DEF SendFailed
    <2>2. \A k \in walks' : GoodWalk(k)
      BY <2>1 DEF WalkSound
    <2>3. /\ answer' \in {answer, "send-failed"} /\ (results' = results \/ (results' = results \cup {r} /\ prev # NoHop))
      BY <1>3 DEF SendFailed
    <2>4. prev # NoHop => GoodResult(r)
      <3>1. GoodPath(PathCharged(w))
        BY <1>1, ChargedPath
      <3>2. prev \in Hop \cup {NoHop}
        BY <3>1, PrevTyped
      <3> HIDE DEF prev
      <3> QED
        BY <3>1, <3>2 DEF GoodResult, Result, GoodPath, Verdict
    <2>5. r.verdict # "found"
      OBVIOUS
    <2> HIDE DEF r
    <2>6. \A x \in results' : GoodResult(x) /\ (x.verdict = "found" => reached)
      BY <2>3, <2>4, <2>5 DEF WalkSound
    <2> QED
      BY <1>1, <2>2, <2>3, <2>6 DEF WalkSound, GoodWalk, GoodPath, GoodResult, Visited
  <1> QED
    BY <1>2, <1>3

LEMMA SendFailedUnbroken ==
  ASSUME WalkInv, lost = 0, NEW w \in walks, w.next # NoHop, NEW edge, SendFailed(w, edge, {}), link' = link
  PROVE  Unbroken'
  <1>1. GoodWalk(w) /\ Unbroken /\ w.at \in Hop
    BY DEF WalkInv, WalkSound, GoodWalk, Walk
  <1>2. CASE Reselect /\ edge /\ PickNext(w) # NoHop
    <2> DEFINE n == [w EXCEPT !.next = PickNext(w), !.cands = w.cands \ {w.next}]
    <2>1. n.path = w.path
      BY <1>1 DEF GoodWalk, Walk
    <2>2. walks' = (walks \ {w}) \cup {n} /\ results' = results /\ answer' = answer
      BY <1>2 DEF SendFailed
    <2> HIDE DEF n
    <2>3. (\A x \in walks : OpenTo(x.path, Len(x.path)))'
      BY <1>1, <2>1, <2>2 DEF Unbroken, OpenTo
    <2>4. (\A r \in results : Placed(r.path, r.to))'
      BY <1>1, <2>2 DEF Unbroken, Placed, OpenTo
    <2>5. answer' = "waiting" => OneCopy'
      BY <1>1, <2>2, OnlyWalk DEF OneCopy
    <2> QED
      BY <2>3, <2>4, <2>5 DEF Unbroken
  <1>3. CASE ~(Reselect /\ edge /\ PickNext(w) # NoHop)
    <2> DEFINE path == PathCharged(w)
               r == [to |-> WalkPrev(path, w.at), path |-> path, verdict |-> "send-failed"]
    <2>1. GoodPath(path) /\ Placed(path, w.at)
      <3>1. /\ GoodPath(path) /\ \A i \in 1..Len(w.path) : path[i] = w.path[i]
            /\ Len(path) >= Len(w.path) /\ Len(path) \in Nat
        BY <1>1, ChargedPath DEF GoodPath
      <3>2. Len(w.path) \in Nat /\ Len(w.path) > 0 /\ w.path[Len(w.path)] = w.at /\ OpenTo(w.path, Len(w.path))
        BY <1>1 DEF GoodWalk, GoodPath, Unbroken
      <3> HIDE DEF path
      <3>3. OpenTo(path, Len(w.path)) /\ path[Len(w.path)] = w.at /\ Len(w.path) \in 1..Len(path)
        BY <3>1, <3>2 DEF OpenTo
      <3> QED
        BY <3>1, <3>3 DEF Placed
    <2>2. w.at # Source => /\ WalkPrev(path, w.at) # NoHop /\ Connected(w.at, WalkPrev(path, w.at))
                           /\ Placed(path, WalkPrev(path, w.at))
      BY <1>1, <2>1, PrevOpen
    <2>3. walks' = walks \ {w}
      BY <1>3 DEF SendFailed
    <2>4. CASE w.at = Source
      <3>1. results' = results /\ answer' # "waiting"
        BY <1>3, <2>4 DEF SendFailed
      <3> QED
        BY <1>1, <2>3, <3>1 DEF Unbroken, Placed, OpenTo
    <2>5. CASE w.at # Source
      <3>1. results' = results \cup {r} /\ answer' = answer
        BY <1>3, <2>2, <2>5 DEF SendFailed
      <3>2. Placed(r.path, r.to)
        BY <2>2, <2>5
      <3> HIDE DEF r, path
      <3>3. (\A x \in results : Placed(x.path, x.to))'
        BY <1>1, <3>1, <3>2 DEF Unbroken, Placed, OpenTo
      <3>4. (\A x \in walks : OpenTo(x.path, Len(x.path)))'
        BY <1>1, <2>3 DEF Unbroken, OpenTo
      <3>5. answer' = "waiting" => OneCopy'
        BY <1>1, <2>3, <3>1, OnlyWalk DEF OneCopy
      <3> QED
        BY <3>3, <3>4, <3>5 DEF Unbroken
    <2> QED
      BY <2>4, <2>5
  <1> QED
    BY <1>2, <1>3

\* The candidates are hops that the walk has not visited.
LEMMA CandidatesNew ==
  ASSUME NEW w, GoodWalk(w), w.at # Target, NEW known \in SUBSET Hop
  PROVE  /\ Candidates(w, known) \subseteq Hop
         /\ \A n \in Candidates(w, known) : n \notin Visited(w)
         /\ \A n \in NextHops(w, known, Candidates(w, known)) : n \in Hop /\ n \notin Visited(w)
  <1> DEFINE fresh == known \ (Visited(w) \cup dead[w.at])
  <1>1. fresh \subseteq Hop /\ \A n \in fresh : n \notin Visited(w)
    OBVIOUS
  <1>2. fresh # {} => Closest(fresh) \in fresh
    <2>1. fresh \in SUBSET Nat
      BY <1>1, WalkNumbers
    <2> HIDE DEF fresh
    <2> QED
      BY <2>1, LeastOf DEF Closest
  <1>3. Candidates(w, known) \subseteq fresh
    BY <1>2 DEF Candidates
  <1>4. Target \in Hop /\ Target \notin Visited(w)
    BY WalkNumbers DEF GoodWalk
  <1> HIDE DEF fresh
  <1> QED
    BY <1>1, <1>3, <1>4 DEF NextHops

LEMMA ChooseKeeps ==
  ASSUME WalkInv, NEW w \in walks, StepChoose(w)
  PROVE  WalkInv'
  <1>1. /\ GoodWalk(w) /\ w.at \in Hop /\ w.at # Target /\ w.next = NoHop /\ WalkSound
        /\ link' = link /\ reached' = reached
    BY DEF StepChoose, WalkInv, WalkSound, GoodWalk, Walk
  <1> DEFINE kept == {k \in routable[w.at] : ~(k \in dead[w.at] /\ k < w.at /\ k \notin Visited(w))}
             repl == Replacements(w.at, kept)
  <1>2. PICK known \in IF kept = routable[w.at] \/ repl = {} THEN {kept} ELSE {kept \cup {k} : k \in repl} :
              LET cands == Candidates(w, known) IN
                 IF cands = {}
                 THEN Ends(w, "stalled") /\ routable' = [routable EXCEPT ![w.at] = known]
                 ELSE \E next \in NextHops(w, known, cands), cached \in BOOLEAN :
                        /\ walks' = (walks \ {w}) \cup {[w EXCEPT !.next = next, !.cands = cands]}
                        /\ routable' = [routable EXCEPT ![w.at] = IF cached THEN known \cup {Target} ELSE known]
                        /\ UNCHANGED <<results, answer, lost>>
    BY DEF StepChoose
  <1>3. known \in SUBSET Hop
    <2>1. kept \in SUBSET Hop /\ repl \in SUBSET Hop
      BY <1>1 DEF WalkSound, Replacements
    <2> HIDE DEF kept, repl
    <2> QED
      BY <2>1
  <1> HIDE DEF kept, repl
  <1>4. CASE Candidates(w, known) = {}
    <2>1. Ends(w, "stalled") /\ routable' = [routable EXCEPT ![w.at] = known]
      BY <1>2, <1>4
    <2>2. lost' = lost
      BY <2>1 DEF Ends, WalkFinish
    <2>3. routable' \in [Hop -> SUBSET Hop]
      BY <1>1, <1>3, <2>1 DEF WalkSound
    <2>4. "stalled" \in Verdict
      BY DEF Verdict
    <2> QED
      BY <1>1, <2>1, <2>2, <2>3, <2>4, EndsKeeps
  <1>5. CASE Candidates(w, known) # {}
    <2>1. PICK next \in NextHops(w, known, Candidates(w, known)), cached \in BOOLEAN :
             /\ walks' = (walks \ {w}) \cup {[w EXCEPT !.next = next, !.cands = Candidates(w, known)]}
             /\ routable' = [routable EXCEPT ![w.at] = IF cached THEN known \cup {Target} ELSE known]
             /\ UNCHANGED <<results, answer, lost>>
      BY <1>2, <1>5
    <2> DEFINE n == [w EXCEPT !.next = next, !.cands = Candidates(w, known)]
    <2>2. next \in Hop /\ next \notin Visited(w) /\ Candidates(w, known) \subseteq Hop
      BY <1>1, <1>3, CandidatesNew
    <2>3. n \in Walk /\ n.at = w.at /\ n.path = w.path /\ n.next = next
      BY <1>1, <2>2 DEF GoodWalk, Walk
    <2>4. walks' = (walks \ {w}) \cup {n}
      BY <2>1
    <2> HIDE DEF n
    <2>5. GoodWalk(n)
      BY <1>1, <2>2, <2>3 DEF GoodWalk, Visited
    <2>6. routable' \in [Hop -> SUBSET Hop]
      <3>1. (IF cached THEN known \cup {Target} ELSE known) \in SUBSET Hop
        BY <1>3, WalkNumbers
      <3> QED
        BY <1>1, <2>1, <3>1 DEF WalkSound
    <2>7. \A k \in walks' : GoodWalk(k)
      BY <2>4, <2>5 DEF WalkInv, WalkSound
    <2>8. answer # "none"
      BY DEF WalkInv, WalkSound
    <2>9. WalkSound'
      BY <1>1, <2>1, <2>6, <2>7, <2>8 DEF WalkSound, GoodWalk, GoodPath, GoodResult, Visited
    <2>10. ASSUME lost = 0 PROVE Unbroken'
      <3>1. Unbroken
        BY <2>10 DEF WalkInv
      <3>2. (\A x \in walks : OpenTo(x.path, Len(x.path)))'
        BY <1>1, <2>3, <2>4, <3>1 DEF Unbroken, OpenTo
      <3>3. (\A r \in results : Placed(r.path, r.to))'
        BY <1>1, <2>1, <3>1 DEF Unbroken, Placed, OpenTo
      <3>4. answer' = "waiting" => OneCopy'
        BY <2>1, <2>4, <3>1, OnlyWalk DEF OneCopy
      <3> QED
        BY <3>2, <3>3, <3>4 DEF Unbroken
    <2> QED
      BY <2>1, <2>9, <2>10 DEF WalkInv
  <1> QED
    BY <1>4, <1>5

LEMMA ForwardedKeeps ==
  ASSUME WalkInv, NEW w \in walks, WalkForwarded(w)
  PROVE  WalkInv'
  <1>1. /\ GoodWalk(w) /\ w.next # NoHop /\ {w.at, w.next} \in link /\ WalkSound /\ answer # "none"
        /\ walks' = (walks \ {w}) \cup {HandedOn(w)}
        /\ UNCHANGED <<link, routable, dead, results, answer, reached, lost>>
    BY DEF WalkForwarded, WalkInv, WalkSound, Connected
  <1>2. GoodWalk(HandedOn(w))
    BY <1>1, HandedOnGood
  <1>3. \A k \in walks' : GoodWalk(k)
    BY <1>1, <1>2 DEF WalkSound
  <1>4. WalkSound'
    BY <1>1, <1>3 DEF WalkSound, GoodWalk, GoodPath, GoodResult, Visited
  <1>5. ASSUME lost = 0 PROVE Unbroken'
    <2>1. Unbroken
      BY <1>5 DEF WalkInv
    <2>2. OpenTo(HandedOn(w).path, Len(HandedOn(w).path))
      <3>1. /\ w.path \in Seq(Hop) /\ w.next \in Hop /\ Len(w.path) > 0 /\ w.path[Len(w.path)] = w.at
        BY <1>1 DEF GoodWalk, GoodPath, Walk
      <3>2. HandedOn(w).path = Append(w.path, w.next)
        BY DEF HandedOn, Taken
      <3>3. OpenTo(w.path, Len(w.path))
        BY <2>1 DEF Unbroken
      <3>4. /\ Len(w.path) \in Nat /\ Len(Append(w.path, w.next)) = Len(w.path) + 1
            /\ Append(w.path, w.next)[Len(w.path) + 1] = w.next
            /\ \A i \in 1..Len(w.path) : Append(w.path, w.next)[i] = w.path[i]
        BY <3>1
      <3>5. \A j \in 2..(Len(w.path) + 1) :
               {Append(w.path, w.next)[j - 1], Append(w.path, w.next)[j]} \in link
        <4> DEFINE p == Append(w.path, w.next)
                   n == Len(w.path)
        <4>1. \A j \in 2..n : {p[j - 1], p[j]} \in link
          BY <3>3, <3>4 DEF OpenTo
        <4>2. {p[n], p[n + 1]} \in link /\ n \in Nat
          <5>1. n \in Nat /\ n \in 1..n
            BY <3>1, <3>4
          <5>2. p[n] = w.at /\ p[n + 1] = w.next
            BY <3>1, <3>4, <5>1
          <5> QED
            BY <1>1, <5>1, <5>2
        <4> HIDE DEF p, n
        <4>3. \A j \in 2..(n + 1) : {p[j - 1], p[j]} \in link
          <5> SUFFICES ASSUME NEW j \in 2..(n + 1) PROVE {p[j - 1], p[j]} \in link
            OBVIOUS
          <5>1. j \in 2..n \/ (j = n + 1 /\ j - 1 = n)
            BY <4>2
          <5> QED
            BY <4>1, <4>2, <5>1
        <4> QED
          BY <4>3 DEF p, n
      <3> QED
        BY <3>2, <3>4, <3>5 DEF OpenTo
    <2>3. (\A x \in walks : OpenTo(x.path, Len(x.path)))'
      BY <1>1, <2>1, <2>2 DEF Unbroken, OpenTo
    <2>4. (\A r \in results : Placed(r.path, r.to))'
      BY <1>1, <2>1 DEF Unbroken, Placed, OpenTo
    <2>5. answer' = "waiting" => OneCopy'
      BY <1>1, <2>1, OnlyWalk DEF OneCopy
    <2> QED
      BY <2>3, <2>4, <2>5 DEF Unbroken
  <1> QED
    BY <1>1, <1>4, <1>5 DEF WalkInv

\* A result that arrives at its next hop.
LEMMA DoneKeeps ==
  ASSUME WalkInv, NEW r \in results, LookupDone(r)
  PROVE  WalkInv'
  <1>1. /\ r \in Result /\ GoodPath(r.path) /\ (r.verdict = "found" => reached) /\ WalkSound /\ answer # "none"
        /\ UNCHANGED <<link, routable, dead, walks, reached>>
    BY DEF LookupDone, WalkInv, WalkSound, GoodResult
  <1>11. PICK h \in Hop : h = r.to
    BY <1>1 DEF Result
  <1>12. PICK p : p = r.path
    OBVIOUS
  <1>13. PICK v \in Verdict : v = r.verdict
    BY <1>1 DEF Result
  <1>14. PICK rs \in SUBSET results : rs = results \ {r}
    OBVIOUS
  <1>2. h = r.to /\ p = r.path /\ v = r.verdict /\ rs = results \ {r}
    BY <1>11, <1>12, <1>13, <1>14
  <1>3. WalkFinish(h, p, v, rs) /\ GoodPath(p) /\ (v = "found" => reached') /\ (reached => reached')
    BY <1>1, <1>2 DEF LookupDone
  <1>4. lost' = lost
    BY <1>3 DEF WalkFinish
  <1>5. /\ \A x \in results' : GoodResult(x) /\ (x.verdict = "found" => reached')
        /\ (answer' = "found" => reached') /\ answer' # "none" /\ (answer' = "waiting" => answer = "waiting")
    BY <1>1, <1>3, FinishSound
  <1>6. WalkSound'
    BY <1>1, <1>4, <1>5 DEF WalkSound, GoodWalk, GoodPath, GoodResult, Visited
  <1>7. ASSUME lost = 0 PROVE Unbroken'
    <2>1. Unbroken /\ Placed(p, h)
      BY <1>2, <1>7 DEF WalkInv, Unbroken
    <2>2. /\ answer' = "waiting" => \E x \in results' : results' = rs \cup {x}
          /\ \A x \in results' : x \in rs \/ Placed(x.path, x.to)
      BY <1>3, <2>1, FinishGoesOn
    <2>3. \A x \in results' : Placed(x.path, x.to)
      BY <2>1, <2>2 DEF Unbroken
    <2>4. (\A x \in results : Placed(x.path, x.to))'
      BY <1>1, <2>3 DEF Placed, OpenTo
    <2>5. (\A x \in walks : OpenTo(x.path, Len(x.path)))'
      BY <1>1, <2>1 DEF Unbroken, OpenTo
    <2>6. answer = "waiting" => walks = {} /\ results = {r}
      BY <2>1 DEF Unbroken, OneCopy
    <2>7. answer' = "waiting" => OneCopy'
      BY <1>1, <1>2, <1>5, <2>2, <2>6 DEF OneCopy
    <2> QED
      BY <2>4, <2>5, <2>7 DEF Unbroken
  <1> QED
    BY <1>4, <1>6, <1>7 DEF WalkInv

\* Walks and results stay, and the answer is no claim.
LEMMA AnswerKeeps ==
  ASSUME WalkInv, walks' = walks, results' = results, link' = link, routable' = routable, reached' = reached, lost' = lost,
         answer' = answer \/ (answer' \notin {"found", "none", "waiting"})
  PROVE  WalkInv'
  <1>1. WalkSound'
    BY DEF WalkInv, WalkSound, GoodWalk, GoodPath, GoodResult, Visited
  <1>2. ASSUME lost = 0 PROVE Unbroken'
    BY <1>2 DEF WalkInv, Unbroken, OneCopy, Placed, OpenTo
  <1> QED
    BY <1>1, <1>2 DEF WalkInv

\* After a loss only what needs no open path is claimed.
LEMMA LostKeeps ==
  ASSUME WalkSound, walks' = walks, results' \subseteq results, routable' \in [Hop -> SUBSET Hop], reached' = reached,
         answer' = answer, lost' = lost + 1
  PROVE  WalkInv'
  <1>1. WalkSound' /\ lost' # 0
    BY DEF WalkSound, GoodWalk, GoodPath, GoodResult, Visited
  <1> QED
    BY <1>1 DEF WalkInv

LEMMA LkStepHolds == WalkInv /\ [LkNext]_lkVars => WalkInv'
  <1> SUFFICES ASSUME WalkInv, [LkNext]_lkVars PROVE WalkInv'
    OBVIOUS
  <1> USE DEF WalkInv
  <1>1. CASE LookupStart
    <2>1. /\ walks = {} /\ results = {} /\ walks' = {Taken(Source, <<Source>>)} /\ answer' = "waiting"
          /\ UNCHANGED <<link, routable, dead, results, reached, lost>>
      BY <1>1 DEF LookupStart, WalkSound
    <2> DEFINE t == Taken(Source, <<Source>>)
    <2>2. t = [at |-> Source, path |-> <<Source>>, next |-> NoHop, cands |-> {}]
      BY DEF Taken
    <2>3. PICK p : p = <<Source>>
      OBVIOUS
    <2>4. p \in Seq(Hop) /\ Len(p) = 1 /\ p[1] = Source /\ DOMAIN p = {1}
      BY <2>3, WalkNumbers
    <2>5. GoodWalk(t)
      <3>1. t = [at |-> Source, path |-> p, next |-> NoHop, cands |-> {}]
        BY <2>2, <2>3
      <3> HIDE DEF t
      <3>2. t \in Walk
        BY <2>4, <3>1, WalkNumbers DEF Walk
      <3>3. t.at = Source /\ t.path = p /\ t.next = NoHop
        BY <3>1
      <3>4. IsInjective(p) /\ ToSet(p) = {Source}
        BY <2>4, InjectiveMeans DEF ToSet
      <3>5. GoodPath(p) /\ p[Len(p)] = Source
        BY <2>4, <3>4 DEF GoodPath
      <3>6. ~(Target \in Visited(t))
        BY <3>3, <3>4, WalkNumbers DEF Visited
      <3> QED
        BY <3>2, <3>3, <3>5, <3>6 DEF GoodWalk
    <2>6. OpenTo(t.path, Len(t.path))
      BY <2>2, <2>3, <2>4 DEF OpenTo
    <2> HIDE DEF t
    <2>7. WalkSound'
      BY <2>1, <2>5 DEF WalkSound, GoodWalk, GoodPath, GoodResult, Visited, t
    <2>8. Unbroken'
      BY <2>1, <2>6 DEF Unbroken, OneCopy, OpenTo, t
    <2> QED
      BY <2>7, <2>8
  <1>2. CASE WalkDeadline \/ SettleWalksPending
    BY <1>2, AnswerKeeps DEF WalkDeadline, SettleWalksPending
  <1>3. ASSUME NEW w \in walks, StepFound(w) PROVE WalkInv'
    <2>1. Ends(w, "found") /\ reached' = TRUE /\ UNCHANGED <<link, routable, dead, lost>>
      BY <1>3 DEF StepFound
    <2>2. "found" \in Verdict
      BY DEF Verdict
    <2>3. routable' \in [Hop -> SUBSET Hop]
      BY <2>1 DEF WalkSound
    <2> QED
      BY <2>1, <2>2, <2>3, EndsKeeps
  <1>4. ASSUME NEW w \in walks, StepMaxHops(w) PROVE WalkInv'
    <2>1. Ends(w, "max-hops") /\ UNCHANGED <<link, routable, dead, reached>>
      BY <1>4 DEF StepMaxHops
    <2>2. "max-hops" \in Verdict
      BY DEF Verdict
    <2>3. routable' \in [Hop -> SUBSET Hop]
      BY <2>1 DEF WalkSound
    <2>4. lost' = lost
      BY <2>1 DEF Ends, WalkFinish
    <2> QED
      BY <2>1, <2>2, <2>3, <2>4, EndsKeeps
  <1>5. ASSUME NEW w \in walks, StepChoose(w) \/ WalkForwarded(w) PROVE WalkInv'
    BY <1>5, ChooseKeeps, ForwardedKeeps
  <1>6. ASSUME NEW w \in walks, DeadAfterAwait(w) PROVE WalkInv'
    <2>1. w.next # NoHop /\ SendFailed(w, TRUE, {}) /\ UNCHANGED <<link, routable, dead, reached, lost>>
      BY <1>6 DEF DeadAfterAwait
    <2>0. PICK kept : kept = {}
      OBVIOUS
    <2>2. SendFailed(w, TRUE, kept) /\ \A k \in kept : GoodWalk(k)
      BY <2>0, <2>1
    <2>3. lost' \in Nat /\ WalkSound
      BY <2>1 DEF WalkSound
    <2>4. WalkSound'
      BY <2>1, <2>2, <2>3, SendFailedSound
    <2>5. lost = 0 => Unbroken'
      BY <2>1, SendFailedUnbroken
    <2> QED
      BY <2>1, <2>4, <2>5
  <1>7. ASSUME NEW w \in walks, NEW got \in BOOLEAN, NEW edge \in BOOLEAN, SendLost(w, got, edge) PROVE WalkInv'
    <2>1. /\ w.next # NoHop /\ SendFailed(w, edge, IF got THEN {HandedOn(w)} ELSE {})
          /\ UNCHANGED <<link, routable, dead, reached>> /\ lost' = lost + 1
      BY <1>7 DEF SendLost
    <2>2. PICK kept : kept = IF got THEN {HandedOn(w)} ELSE {}
      OBVIOUS
    <2>3. \A k \in kept : GoodWalk(k)
      BY <2>1, <2>2, HandedOnGood DEF WalkSound
    <2>4. lost' \in Nat /\ lost' # 0 /\ WalkSound
      BY <2>1 DEF WalkSound
    <2>5. SendFailed(w, edge, kept)
      BY <2>1, <2>2
    <2>6. WalkSound'
      BY <2>1, <2>3, <2>4, <2>5, SendFailedSound
    <2> QED
      BY <2>4, <2>6
  <1>8. ASSUME NEW r \in results, LookupDone(r) PROVE WalkInv'
    BY <1>8, DoneKeeps
  <1>9. ASSUME NEW r \in results, ResultLost(r) PROVE WalkInv'
    <2>1. /\ results' \subseteq results /\ lost' = lost + 1 /\ UNCHANGED <<link, routable, dead, walks, answer, reached>>
      BY <1>9 DEF ResultLost
    <2>2. routable' \in [Hop -> SUBSET Hop] /\ WalkSound
      BY <2>1 DEF WalkSound
    <2> QED
      BY <2>1, <2>2, LostKeeps
  <1>10. ASSUME NEW a \in Hop, NEW b \in Hop, LinkLost(a, b) PROVE WalkInv'
    <2>1. /\ results' = results /\ lost' = lost + 1 /\ UNCHANGED <<walks, answer, reached>>
          /\ routable' = [routable EXCEPT ![a] = @ \ {b}, ![b] = @ \ {a}]
      BY <1>10 DEF LinkLost
    <2>2. routable' \in [Hop -> SUBSET Hop] /\ WalkSound
      BY <2>1 DEF WalkSound
    <2> QED
      BY <2>1, <2>2, LostKeeps
  <1>11. CASE UNCHANGED lkVars
    BY <1>11, AnswerKeeps DEF lkVars
  <1> QED
    BY <1>1, <1>2, <1>3, <1>4, <1>5, <1>6, <1>7, <1>8, <1>9, <1>10, <1>11 DEF LkNext

\* "The walk never revisits", a target reported found was reached, and without
\* a loss the walk or its result is under way while the caller waits: for every
\* network, every hop limit, and both ways to go on after a failed send.
THEOREM WalkHonestAlways == LkSpec => []WalkHonest
  <1>1. WalkInv => WalkHonest
    <2> SUFFICES ASSUME WalkInv PROVE WalkHonest
      OBVIOUS
    <2>1. \A w \in walks : IsInjective(w.path)
      BY DEF WalkInv, WalkSound, GoodWalk, GoodPath
    <2>2. answer = "found" => reached
      BY DEF WalkInv, WalkSound
    <2>3. ASSUME lost = 0, answer = "waiting" PROVE Cardinality(walks) + Cardinality(results) = 1
      <3>1. OneCopy
        BY <2>3 DEF WalkInv, Unbroken
      <3>2. \/ results = {} /\ \E w : walks = {w}
            \/ walks = {} /\ \E r : results = {r}
        BY <3>1 DEF OneCopy
      <3>4. CASE results = {} /\ \E w : walks = {w}
        <4>1. Cardinality(results) = 0
          BY <3>4, FS_EmptySet
        <4>2. Cardinality(walks) = 1
          BY <3>4, FS_Singleton
        <4> QED
          BY <4>1, <4>2
      <3>5. CASE walks = {} /\ \E r : results = {r}
        <4>1. Cardinality(walks) = 0
          BY <3>5, FS_EmptySet
        <4>2. Cardinality(results) = 1
          BY <3>5, FS_Singleton
        <4> QED
          BY <4>1, <4>2
      <3> QED
        BY <3>2, <3>4, <3>5
    <2> QED
      BY <2>1, <2>2, <2>3 DEF WalkHonest
  <1> QED
    BY <1>1, LkInitHolds, LkStepHolds, PTL DEF LkSpec

(***************************************************************************)
(* The relayed signal.                                                       *)
(***************************************************************************)
MaybeNode == RNode \cup {NoNode}

CallType ==
    [at : RNode, path : Seq(RNode), via : MaybeNode, rpath : Seq(RNode), next : MaybeNode, nextVia : MaybeNode,
     tried : SUBSET MaybeNode, st : {"new", "chosen", "send", "wait", "done"}, end : Ending \cup {"none"}]

\* A call is at a node that is not on its path, the hop it has chosen is new, a
\* request is sent to a hop, and the target is said to have consumed what arrived.
GoodCall(d) ==
    /\ d \in CallType /\ IsInjective(d.path) /\ d.at \notin ToSet(d.path)
    /\ d.next # NoNode => d.next \notin ToSet(d.path) /\ d.next # d.at
    /\ d.st \in {"send", "wait"} => d.next # NoNode
    /\ d.end = "consumed" => arrived

GoodChain(c) ==
    /\ c \in Seq(CallType) /\ Len(c) > 0
    /\ \A k \in 1..Len(c) : GoodCall(c[k])
    /\ \A k \in 2..Len(c) : c[k].path # <<>>

\* The chains that the dialer waits for.
Heads == {c \in chains : c[1].path = <<>>}

RelayInv ==
    /\ crumb \in Seq(RNode) /\ \A n \in RNode : {n} \notin channel
    /\ \A c \in chains : GoodChain(c)
    /\ IF stage \in {"return", "first", "second"} THEN \E c \in Heads : Heads = {c} ELSE Heads = {}
    /\ stage = "delivered" => arrived

LEMMA RelayNumbers ==
  /\ RNode \subseteq Nat /\ Dialer \in RNode /\ Callee \in RNode /\ NoNode \notin RNode
  BY SignalRelayAssumption DEF RNode, Callee, NoNode

LEMMA SrInitHolds == SrInit => RelayInv
  <1> SUFFICES ASSUME SrInit PROVE RelayInv
    OBVIOUS
  <1>1. chains = {} /\ stage = "idle"
    BY DEF SrInit
  <1>2. crumb \in Seq(RNode)
    <2>1. \A m \in RNode : <<m, Callee>> \in Seq(RNode)
      BY RelayNumbers
    <2>2. <<>> \in Seq(RNode)
      OBVIOUS
    <2>3. crumb \in Crumbs(channel)
      BY DEF SrInit
    <2>4. crumb = <<>> \/ \E m \in RNode : crumb = <<m, Callee>>
      BY <2>3 DEF Crumbs
    <2> QED
      BY <2>1, <2>2, <2>4
  <1>3. \A n \in RNode : {n} \notin channel
    <2> SUFFICES ASSUME NEW n \in RNode, {n} \in channel PROVE FALSE
      OBVIOUS
    <2>1. {n} \in {{p[1], p[2]} : p \in {q \in RNode \X RNode : q[1] # q[2]}}
      BY DEF SrInit
    <2>2. PICK p \in RNode \X RNode : p[1] # p[2] /\ {n} = {p[1], p[2]}
      BY <2>1
    <2> QED
      BY <2>2
  <1> QED
    BY <1>1, <1>2, <1>3 DEF RelayInv, Heads

\* The nearest of some nodes is one of them.
LEMMA NearestOf ==
  ASSUME NEW ns \in SUBSET RNode, ns # {} PROVE Nearest(ns) \in ns
  <1>1. ns \in SUBSET Nat
    BY RelayNumbers
  <1> QED
    BY <1>1, LeastOf DEF Nearest

\* A usable peer is a node, off the path and not this one.
LEMMA UsableIs ==
  ASSUME RelayInv, NEW d, GoodCall(d), NEW n \in UsablePeers(d)
  PROVE  n \in RNode /\ n # NoNode /\ n \notin ToSet(d.path) /\ n # d.at
  <1>1. n \in RNode /\ {d.at, n} \in channel /\ n \notin ToSet(d.path)
    BY DEF UsablePeers, Adjacent
  <1>2. n = d.at => {n} \in channel
    BY <1>1
  <1> QED
    BY <1>1, <1>2, RelayNumbers DEF RelayInv

LEMMA GreedyIs ==
  ASSUME NEW d, GreedyNextHop(d) # NoNode
  PROVE  GreedyNextHop(d) \in UsablePeers(d)
  <1> DEFINE nearer == {n \in UsablePeers(d) \ d.tried : n < d.at}
  <1>1. nearer # {} /\ GreedyNextHop(d) = Nearest(nearer)
    BY DEF GreedyNextHop
  <1>2. nearer \in SUBSET RNode /\ nearer \subseteq UsablePeers(d)
    BY DEF UsablePeers
  <1> HIDE DEF nearer
  <1> QED
    BY <1>1, <1>2, NearestOf

LEMMA CapableIs ==
  ASSUME NEW d, CapableFallbackHop(d) # NoNode
  PROVE  CapableFallbackHop(d) \in UsablePeers(d)
  <1>1. UsablePeers(d) # {} /\ CapableFallbackHop(d) = Nearest(UsablePeers(d))
    BY DEF CapableFallbackHop
  <1>2. UsablePeers(d) \in SUBSET RNode
    BY DEF UsablePeers
  <1> QED
    BY <1>1, <1>2, NearestOf

\* A call that chose a usable peer, or none, is a good one.
LEMMA ChosenGood ==
  ASSUME RelayInv, NEW d, GoodCall(d), NEW next, next = NoNode \/ next \in UsablePeers(d),
         NEW e \in CallType, e.path = d.path, e.at = d.at, e.next = next, e.end = d.end \/ e.end # "consumed",
         e.st \in {"send", "wait"} => next # NoNode
  PROVE  GoodCall(e)
  BY UsableIs DEF GoodCall

\* The last call of a chain changes, its path does not.
LEMMA ReplacedGood ==
  ASSUME NEW c, GoodChain(c)', NEW d, GoodCall(d)', d.path = Last1(c).path
  PROVE  /\ GoodChain(Replaced(c, d))' /\ Replaced(c, d)[1].path = c[1].path
         /\ Len(Replaced(c, d)) = Len(c)
  <1> DEFINE e == Replaced(c, d)
  <1>1. /\ c \in Seq(CallType) /\ Len(c) \in Nat /\ Len(c) > 0 /\ d \in CallType
        /\ d.path = c[Len(c)].path
    BY DEF GoodChain, GoodCall, Last1
  <1>2. /\ e \in Seq(CallType) /\ Len(e) = Len(c) /\ e[Len(c)] = d
        /\ \A k \in 1..Len(c) : k # Len(c) => e[k] = c[k]
    BY <1>1 DEF Replaced
  <1> HIDE DEF e
  <1>3. \A k \in 1..Len(c) : e[k].path = c[k].path
    BY <1>1, <1>2
  <1>4. \A k \in 1..Len(c) : GoodCall(e[k])'
    BY <1>2 DEF GoodChain
  <1>5. GoodChain(e)'
    BY <1>1, <1>2, <1>3, <1>4 DEF GoodChain
  <1>6. e[1].path = c[1].path
    BY <1>1, <1>3
  <1> QED
    BY <1>2, <1>5, <1>6 DEF e

LEMMA LastGood ==
  ASSUME NEW c, GoodChain(c) PROVE GoodCall(Last1(c)) /\ Last1(c) \in CallType
  BY DEF GoodChain, Last1, GoodCall

\* What was good stays so: an offer that arrived has arrived.
LEMMA GoodStays ==
  ASSUME arrived => arrived', NEW c, GoodChain(c) PROVE GoodChain(c)'
  BY DEF GoodChain, GoodCall

\* A chain is followed by one with the same first call, and by others that
\* nobody waits for.
LEMMA FollowedKeeps ==
  ASSUME RelayInv, NEW c \in chains, NEW d, GoodChain(d)', d[1].path = c[1].path,
         NEW rest, \A r \in rest : GoodChain(r) /\ r[1].path # <<>>,
         chains' = (chains \ {c}) \cup ({d} \cup rest),
         stage' = stage, crumb' = crumb, channel' \subseteq channel, arrived => arrived'
  PROVE  RelayInv'
  <1>1. \A x \in chains' : GoodChain(x)'
    BY GoodStays DEF RelayInv
  <1>2. CASE c[1].path = <<>>
    <2>1. Heads = {c}
      BY <1>2 DEF RelayInv, Heads
    <2>2. Heads' = {d} /\ d \in chains'
      BY <1>2, <2>1 DEF Heads
    <2>3. stage \in {"return", "first", "second"}
      BY <2>1 DEF RelayInv
    <2> QED
      BY <1>1, <2>2, <2>3 DEF RelayInv
  <1>3. CASE c[1].path # <<>>
    <2>1. Heads' = Heads
      BY <1>3 DEF Heads
    <2> QED
      BY <1>1, <2>1 DEF RelayInv
  <1> QED
    BY <1>2, <1>3

\* A chain whose last call becomes d.
LEMMA BecomesKeeps ==
  ASSUME RelayInv, NEW c \in chains, NEW d, GoodCall(d)', d.path = Last1(c).path,
         chains' = (chains \ {c}) \cup {Replaced(c, d)},
         stage' = stage, crumb' = crumb, channel' = channel, arrived => arrived'
  PROVE  RelayInv'
  <1>1. GoodChain(c)
    BY DEF RelayInv
  <1>2. GoodChain(c)'
    BY <1>1, GoodStays
  <1>3. PICK e : e = Replaced(c, d)
    OBVIOUS
  <1>4. GoodChain(e)' /\ e[1].path = c[1].path
    BY <1>2, <1>3, ReplacedGood
  <1>5. PICK rest : rest = {}
    OBVIOUS
  <1>6. chains' = (chains \ {c}) \cup ({e} \cup rest) /\ \A r \in rest : GoodChain(r) /\ r[1].path # <<>>
    BY <1>3, <1>5
  <1> QED
    BY <1>4, <1>6, FollowedKeeps

\* The call as it has chosen: off the path, or nowhere.
LEMMA ChooseHopKeeps ==
  ASSUME RelayInv, NEW c \in chains, NEW next, next = NoNode \/ next \in UsablePeers(Last1(c)),
         NEW via \in MaybeNode, NEW rp \in Seq(RNode),
         Choose(c, Last1(c), next, via, rp), UNCHANGED <<channel, crumb, stage, arrived>>
  PROVE  RelayInv'
  <1>1. GoodChain(c) /\ GoodCall(Last1(c)) /\ Last1(c) \in CallType
    BY LastGood DEF RelayInv
  <1> DEFINE e == [Last1(c) EXCEPT !.next = next, !.nextVia = via, !.rpath = rp, !.st = "chosen"]
  <1>2. next \in MaybeNode
    BY DEF UsablePeers, MaybeNode
  <1>3. /\ e \in CallType /\ e.path = Last1(c).path /\ e.at = Last1(c).at /\ e.next = next /\ e.end = Last1(c).end
        /\ e.st = "chosen"
    BY <1>1, <1>2 DEF CallType
  <1>4. chains' = (chains \ {c}) \cup {Replaced(c, e)}
    BY DEF Choose, Becomes
  <1> HIDE DEF e
  <1>5. PICK d : d = Last1(c)
    OBVIOUS
  <1>6. GoodCall(e)'
    <2>1. GoodCall(e)
      BY <1>1, <1>3, <1>5, ChosenGood
    <2> QED
      BY <2>1 DEF GoodCall
  <1> QED
    BY <1>3, <1>4, <1>6, BecomesKeeps

LEMMA SelectKeeps ==
  ASSUME RelayInv, NEW c \in chains, SelectHop(c)
  PROVE  RelayInv'
  <1> DEFINE call == Last1(c)
  <1>1. GoodChain(c) /\ GoodCall(call) /\ call \in CallType
    BY LastGood DEF RelayInv
  <1>2. UNCHANGED <<channel, crumb, stage, arrived>>
    BY DEF SelectHop
  <1>3. NoNode \in MaybeNode /\ <<>> \in Seq(RNode)
    BY DEF MaybeNode
  <1>4. CASE call.rpath # <<>> /\ Honoured(call, Head(call.rpath))
    <2>1. Choose(c, call, Head(call.rpath), NoNode, Tail(call.rpath)) /\ Head(call.rpath) \in UsablePeers(call)
      BY <1>4 DEF SelectHop, Honoured
    <2>2. Tail(call.rpath) \in Seq(RNode)
      BY <1>1, <1>4 DEF CallType
    <2> QED
      BY <1>2, <1>3, <2>1, <2>2, ChooseHopKeeps
  <1>5. CASE ~(call.rpath # <<>> /\ Honoured(call, Head(call.rpath))) /\ call.via # NoNode /\ Honoured(call, call.via)
    <2>1. Choose(c, call, call.via, NoNode, <<>>) /\ call.via \in UsablePeers(call)
      BY <1>5 DEF SelectHop, Honoured
    <2> QED
      BY <1>2, <1>3, <2>1, ChooseHopKeeps
  <1>6. CASE /\ ~(call.rpath # <<>> /\ Honoured(call, Head(call.rpath))) /\ ~(call.via # NoNode /\ Honoured(call, call.via))
             /\ GreedyNextHop(call) # NoNode
    <2>1. Choose(c, call, GreedyNextHop(call), NoNode, <<>>)
      BY <1>6 DEF SelectHop
    <2>2. PICK d : d = call
      OBVIOUS
    <2>3. GreedyNextHop(call) \in UsablePeers(call)
      BY <1>6, <2>2, GreedyIs
    <2> QED
      BY <1>2, <1>3, <2>1, <2>3, ChooseHopKeeps
  <1>7. CASE /\ ~(call.rpath # <<>> /\ Honoured(call, Head(call.rpath))) /\ ~(call.via # NoNode /\ Honoured(call, call.via))
             /\ ~(GreedyNextHop(call) # NoNode)
    <2>1. \/ \E p \in FindCloserInTwoHops(call) : Choose(c, call, p[1], p[2], <<>>)
          \/ Choose(c, call, NoNode, NoNode, <<>>)
      BY <1>7 DEF SelectHop
    <2>2. ASSUME NEW p \in FindCloserInTwoHops(call), Choose(c, call, p[1], p[2], <<>>) PROVE RelayInv'
      <3>1. p[1] \in UsablePeers(call) /\ p[2] \in MaybeNode
        BY <2>2 DEF FindCloserInTwoHops, MaybeNode
      <3> QED
        BY <1>2, <1>3, <2>2, <3>1, ChooseHopKeeps
    <2>3. CASE Choose(c, call, NoNode, NoNode, <<>>)
      BY <1>2, <1>3, <2>3, ChooseHopKeeps
    <2> QED
      BY <2>1, <2>2, <2>3
  <1> QED
    BY <1>4, <1>5, <1>6, <1>7

\* A call that ends, or goes on to another hop.
LEMMA TurnedKeeps ==
  ASSUME RelayInv, NEW c \in chains, NEW next, next = NoNode \/ next \in UsablePeers(Last1(c)) \/ next = Last1(c).next,
         NEW e \in CallType, e.path = Last1(c).path, e.at = Last1(c).at, e.next = next,
         e.end = Last1(c).end \/ (e.end = "consumed" => arrived'),
         e.st \in {"send", "wait"} => next # NoNode,
         chains' = (chains \ {c}) \cup {Replaced(c, e)},
         UNCHANGED <<channel, crumb, stage>>, arrived => arrived'
  PROVE  RelayInv'
  <1>1. GoodCall(Last1(c))
    BY LastGood DEF RelayInv
  <1>2. PICK d : d = Last1(c)
    OBVIOUS
  <1>3. next # NoNode => next \notin ToSet(e.path) /\ next # e.at
    <2>1. CASE next \in UsablePeers(d)
      BY <1>1, <1>2, <2>1, UsableIs
    <2> QED
      BY <1>1, <1>2, <2>1 DEF GoodCall
  <1>4. GoodCall(e)'
    BY <1>1, <1>3 DEF GoodCall
  <1> QED
    BY <1>4, BecomesKeeps

LEMMA DeliverKeeps ==
  ASSUME RelayInv, NEW c \in chains, DeliverRouted(c)
  PROVE  RelayInv'
  <1> DEFINE call == Last1(c)
             next == IF call.next = NoNode /\ call.at \notin serves THEN CapableFallbackHop(call) ELSE call.next
  <1>1. GoodCall(call) /\ call \in CallType
    BY LastGood DEF RelayInv
  <1>2. UNCHANGED <<channel, crumb, stage>> /\ arrived' = (arrived \/ call.at = Callee)
    BY DEF DeliverRouted
  <1>3. ASSUME NEW how \in Ending, how = "consumed" => call.at = Callee, Ended(c, call, how) PROVE RelayInv'
    <2> DEFINE e == [call EXCEPT !.st = "done", !.end = how]
    <2>1. /\ e \in CallType /\ e.path = call.path /\ e.at = call.at /\ e.next = call.next /\ e.st = "done"
          /\ e.end = "consumed" => arrived'
      BY <1>1, <1>2, <1>3 DEF CallType
    <2>2. chains' = (chains \ {c}) \cup {Replaced(c, e)}
      BY <1>3 DEF Ended, Becomes
    <2> HIDE DEF e
    <2>3. PICK n : n = call.next
      OBVIOUS
    <2> QED
      BY <1>2, <2>1, <2>2, <2>3, TurnedKeeps
  <1>4. ASSUME next # NoNode, Becomes(c, {Replaced(c, [call EXCEPT !.next = next, !.st = "send"])}) PROVE RelayInv'
    <2>1. next = call.next \/ next \in UsablePeers(call)
      <3>1. PICK d : d = call
        OBVIOUS
      <3>2. CapableFallbackHop(d) # NoNode => CapableFallbackHop(d) \in UsablePeers(d)
        BY CapableIs
      <3> QED
        BY <1>4, <3>1, <3>2
    <2>2. PICK n : n = next
      OBVIOUS
    <2> HIDE DEF next
    <2>3. n \in MaybeNode /\ n # NoNode /\ (n = call.next \/ n \in UsablePeers(call))
      BY <1>1, <1>4, <2>1, <2>2 DEF CallType, UsablePeers, MaybeNode
    <2> DEFINE e == [call EXCEPT !.next = n, !.st = "send"]
    <2>4. e \in CallType /\ e.path = call.path /\ e.at = call.at /\ e.next = n /\ e.st = "send" /\ e.end = call.end
      BY <1>1, <2>3 DEF CallType
    <2>5. chains' = (chains \ {c}) \cup {Replaced(c, e)}
      BY <1>4, <2>2 DEF Becomes
    <2> HIDE DEF e
    <2> QED
      BY <1>2, <2>3, <2>4, <2>5, TurnedKeeps
  <1>5. /\ {"consumed", "terminal", "no-capable-terminal", "exhausted"} \subseteq Ending
    BY DEF Ending
  <1> HIDE DEF next
  <1>6. \/ \E how \in Ending : (how = "consumed" => call.at = Callee) /\ Ended(c, call, how)
        \/ next # NoNode /\ Becomes(c, {Replaced(c, [call EXCEPT !.next = next, !.st = "send"])})
    <2>1. CASE call.at = Callee
      BY <1>5, <2>1 DEF DeliverRouted
    <2>2. CASE call.at # Callee /\ next = NoNode
      <3>1. Ended(c, call, "terminal") \/ Ended(c, call, "no-capable-terminal")
        BY <2>2 DEF DeliverRouted, next
      <3> QED
        BY <1>5, <3>1
    <2>3. CASE call.at # Callee /\ next # NoNode
      <3>1. \/ Ended(c, call, "exhausted")
            \/ Becomes(c, {Replaced(c, [call EXCEPT !.next = next, !.st = "send"])})
        BY <2>3 DEF DeliverRouted, next
      <3> QED
        BY <1>5, <2>3, <3>1
    <2> QED
      BY <2>1, <2>2, <2>3
  <1> QED
    BY <1>3, <1>4, <1>6

\* Another try goes to a usable peer; without one the call is done.
LEMMA ReselectedIs ==
  ASSUME NEW d \in CallType, NEW none \in Ending, none # "consumed"
  PROVE  /\ Reselected(d, none) \in CallType
         /\ Reselected(d, none).path = d.path /\ Reselected(d, none).at = d.at
         /\ \/ /\ Reselected(d, none).next \in UsablePeers(d) /\ Reselected(d, none).next # NoNode
               /\ Reselected(d, none).end = d.end
            \/ /\ Reselected(d, none).next = d.next /\ Reselected(d, none).st = "done"
               /\ Reselected(d, none).end = none
  <1> DEFINE again == [d EXCEPT !.tried = d.tried \cup {d.next}, !.nextVia = NoNode, !.rpath = <<>>]
  <1>0. NoNode \in MaybeNode /\ <<>> \in Seq(RNode)
    BY DEF MaybeNode
  <1>1. again \in CallType /\ again.path = d.path /\ again.at = d.at /\ again.next = d.next /\ again.end = d.end
    BY <1>0 DEF CallType
  <1>2. PICK b : b = again
    OBVIOUS
  <1>3. /\ RouteRetry /\ GreedyNextHop(b) # NoNode => Reselected(d, none) = [b EXCEPT !.next = GreedyNextHop(b), !.st = "send"]
        /\ ~(RouteRetry /\ GreedyNextHop(b) # NoNode) => Reselected(d, none) = [b EXCEPT !.st = "done", !.end = none]
    BY <1>2 DEF Reselected
  <1>4. b \in CallType /\ b.path = d.path /\ b.at = d.at /\ b.next = d.next /\ b.end = d.end
    BY <1>1, <1>2
  <1> HIDE DEF again
  <1>5. CASE RouteRetry /\ GreedyNextHop(b) # NoNode
    <2>1. GreedyNextHop(b) \in UsablePeers(b)
      BY <1>5, GreedyIs
    <2>2. GreedyNextHop(b) \in UsablePeers(d) /\ GreedyNextHop(b) \in MaybeNode
      BY <1>4, <2>1 DEF UsablePeers, MaybeNode
    <2>3. PICK n : n = GreedyNextHop(b)
      OBVIOUS
    <2>4. Reselected(d, none) = [b EXCEPT !.next = n, !.st = "send"] /\ n \in MaybeNode /\ n # NoNode
      BY <1>3, <1>5, <2>2, <2>3
    <2> QED
      BY <1>4, <2>2, <2>3, <2>4 DEF CallType
  <1>6. CASE ~(RouteRetry /\ GreedyNextHop(b) # NoNode)
    <2>1. Reselected(d, none) = [b EXCEPT !.st = "done", !.end = none]
      BY <1>3, <1>6
    <2> QED
      BY <1>4, <2>1 DEF CallType
  <1> QED
    BY <1>5, <1>6

LEMMA DeadEdgeKeeps ==
  ASSUME RelayInv, NEW c \in chains, DeadAfterSelect(c)
  PROVE  RelayInv'
  <1> DEFINE none == IF RouteRetry THEN "no-live-hop" ELSE "exhausted"
  <1>1. /\ GoodCall(Last1(c)) /\ Last1(c) \in CallType /\ Last1(c).st = "send"
        /\ UNCHANGED <<channel, crumb, stage, arrived>>
    BY LastGood DEF RelayInv, DeadAfterSelect
  <1>2. PICK d : d = Last1(c)
    OBVIOUS
  <1>3. none \in Ending /\ none # "consumed"
    BY DEF Ending
  <1>4. PICK e : e = Reselected(d, none)
    OBVIOUS
  <1>5. chains' = (chains \ {c}) \cup {Replaced(c, e)}
    BY <1>2, <1>4 DEF DeadAfterSelect, Becomes
  <1> HIDE DEF none
  <1>6. /\ e \in CallType /\ e.path = d.path /\ e.at = d.at
        /\ \/ e.next \in UsablePeers(d) /\ e.next # NoNode /\ e.end = d.end
           \/ e.next = d.next /\ e.st = "done" /\ e.end # "consumed"
    BY <1>1, <1>2, <1>3, <1>4, ReselectedIs
  <1> QED
    BY <1>1, <1>2, <1>5, <1>6, TurnedKeeps

\* A chain with one more call.
LEMMA LongerGood ==
  ASSUME NEW c, GoodChain(c), NEW d, GoodCall(d), d.path # <<>>
  PROVE  GoodChain(Append(c, d)) /\ Append(c, d)[1] = c[1]
  <1>1. c \in Seq(CallType) /\ Len(c) \in Nat /\ Len(c) > 0 /\ d \in CallType
    BY DEF GoodChain, GoodCall
  <1>2. /\ Append(c, d) \in Seq(CallType) /\ Len(Append(c, d)) = Len(c) + 1 /\ Append(c, d)[Len(c) + 1] = d
        /\ \A k \in 1..Len(c) : Append(c, d)[k] = c[k]
    BY <1>1
  <1>3. PICK e : e = Append(c, d)
    OBVIOUS
  <1>4. \A k \in 1..Len(e) : k = Len(c) + 1 \/ k \in 1..Len(c)
    BY <1>1, <1>2, <1>3
  <1>5. \A k \in 1..Len(e) : GoodCall(e[k])
    BY <1>2, <1>3, <1>4 DEF GoodChain
  <1>6. \A k \in 2..Len(e) : e[k].path # <<>>
    BY <1>1, <1>2, <1>3, <1>4 DEF GoodChain
  <1>7. GoodChain(e)
    BY <1>1, <1>2, <1>3, <1>5, <1>6 DEF GoodChain
  <1> QED
    BY <1>1, <1>2, <1>3, <1>7

\* The handler at the next hop: this node is now on the path.
LEMMA NextCallGood ==
  ASSUME NEW d, GoodCall(d), d.next # NoNode
  PROVE  /\ GoodCall(RouteCall(d.next, Append(d.path, d.at), d.nextVia, d.rpath))
         /\ RouteCall(d.next, Append(d.path, d.at), d.nextVia, d.rpath).path # <<>>
  <1>1. /\ d.path \in Seq(RNode) /\ IsInjective(d.path) /\ d.at \in RNode /\ d.at \notin ToSet(d.path)
        /\ d.next \in RNode /\ d.next \notin ToSet(d.path) /\ d.next # d.at
        /\ d.nextVia \in MaybeNode /\ d.rpath \in Seq(RNode)
    BY DEF GoodCall, CallType, MaybeNode
  <1>2. PICK p : p = Append(d.path, d.at)
    OBVIOUS
  <1>3. p \in Seq(RNode) /\ IsInjective(p) /\ ToSet(p) = ToSet(d.path) \cup {d.at}
    BY <1>1, <1>2, PathGrows
  <1>4. p # <<>>
    BY <1>1, <1>2
  <1>5. PICK e : e = RouteCall(d.next, p, d.nextVia, d.rpath)
    OBVIOUS
  <1>6. e = [at |-> d.next, path |-> p, via |-> d.nextVia, rpath |-> d.rpath, next |-> NoNode, nextVia |-> NoNode,
             tried |-> {}, st |-> "new", end |-> "none"]
    BY <1>5 DEF RouteCall
  <1>7. e \in CallType
    BY <1>1, <1>3, <1>6 DEF CallType, MaybeNode
  <1>8. e.path = p /\ e.at = d.next /\ e.next = NoNode /\ e.st = "new" /\ e.end = "none"
    BY <1>6
  <1>9. GoodCall(e)
    BY <1>1, <1>3, <1>7, <1>8 DEF GoodCall
  <1> QED
    BY <1>2, <1>4, <1>5, <1>8, <1>9

LEMMA SentKeeps ==
  ASSUME RelayInv, NEW c \in chains, RouteMsgSent(c)
  PROVE  RelayInv'
  <1> DEFINE call == Last1(c)
             w == [call EXCEPT !.st = "wait"]
  <1>1. /\ GoodChain(c) /\ GoodCall(call) /\ call \in CallType /\ call.st = "send"
        /\ UNCHANGED <<channel, crumb, stage, arrived>>
    BY LastGood DEF RelayInv, RouteMsgSent
  <1>2. call.next # NoNode
    BY <1>1 DEF GoodCall
  <1>3. w \in CallType /\ w.path = call.path /\ w.at = call.at /\ w.next = call.next /\ w.end = call.end
    BY <1>1 DEF CallType
  <1>4. PICK d : d = RouteCall(call.next, Append(call.path, call.at), call.nextVia, call.rpath)
    OBVIOUS
  <1>5. GoodCall(d) /\ d.path # <<>>
    <2>1. PICK x : x = call
      OBVIOUS
    <2> QED
      BY <1>1, <1>2, <1>4, <2>1, NextCallGood
  <1>6. PICK e : e = Replaced(c, w)
    OBVIOUS
  <1>7. chains' = (chains \ {c}) \cup {Append(e, d)}
    BY <1>4, <1>6 DEF RouteMsgSent, Becomes
  <1>8. GoodCall(w)
    <2> HIDE DEF w
    <2> QED
      BY <1>1, <1>2, <1>3 DEF GoodCall
  <1> HIDE DEF w
  <1>9. GoodCall(w)' /\ GoodCall(d)' /\ GoodChain(c)'
    BY <1>1, <1>5, <1>8 DEF GoodCall, GoodChain
  <1>10. GoodChain(e)' /\ e[1].path = c[1].path
    BY <1>3, <1>6, <1>9, ReplacedGood
  <1>11. GoodChain(e)
    BY <1>1, <1>10 DEF GoodChain, GoodCall
  <1>12. PICK f : f = Append(e, d)
    OBVIOUS
  <1>13. GoodChain(f) /\ f[1] = e[1]
    BY <1>5, <1>11, <1>12, LongerGood
  <1>14. GoodChain(f)'
    BY <1>1, <1>13, GoodStays
  <1>15. PICK rest : rest = {}
    OBVIOUS
  <1>16. chains' = (chains \ {c}) \cup ({f} \cup rest) /\ \A r \in rest : GoodChain(r) /\ r[1].path # <<>>
    BY <1>7, <1>12, <1>15
  <1> QED
    BY <1>1, <1>10, <1>13, <1>14, <1>16, FollowedKeeps

\* A chain cut above one of its calls, which takes the end of it.
LEMMA CutGood ==
  ASSUME NEW c, GoodChain(c), NEW k \in 1..(Len(c) - 1), NEW d, GoodCall(d), d.path = c[k].path
  PROVE  GoodChain(Append(SubSeq(c, 1, k - 1), d)) /\ Append(SubSeq(c, 1, k - 1), d)[1].path = c[1].path
  <1>1. c \in Seq(CallType) /\ Len(c) \in Nat /\ d \in CallType /\ k \in 1..Len(c) /\ k \in Nat
    BY DEF GoodChain, GoodCall
  <1>2. PICK s : s = SubSeq(c, 1, k - 1)
    OBVIOUS
  <1>3. s \in Seq(CallType) /\ Len(s) = k - 1 /\ \A j \in 1..(k - 1) : s[j] = c[j]
    BY <1>1, <1>2
  <1>4. PICK e : e = Append(s, d)
    OBVIOUS
  <1>5. e \in Seq(CallType) /\ Len(e) = k /\ e[k] = d /\ \A j \in 1..(k - 1) : e[j] = c[j]
    BY <1>1, <1>3, <1>4
  <1>6. \A j \in 1..k : e[j].path = c[j].path /\ (j = k \/ e[j] = c[j])
    BY <1>1, <1>5
  <1>7. \A j \in 1..Len(e) : GoodCall(e[j])
    BY <1>1, <1>5, <1>6 DEF GoodChain
  <1>8. \A j \in 2..Len(e) : e[j].path # <<>>
    BY <1>1, <1>5, <1>6 DEF GoodChain
  <1>9. GoodChain(e) /\ e[1].path = c[1].path
    BY <1>1, <1>5, <1>6, <1>7, <1>8 DEF GoodChain
  <1> QED
    BY <1>2, <1>4, <1>9

\* What a failed request leaves behind goes on as a chain that nobody waits for.
LEMMA AbandonedGood ==
  ASSUME NEW c, GoodChain(c), NEW k \in 1..(Len(c) - 1), NEW frameLost, NEW r \in Abandoned(c, k, frameLost)
  PROVE  GoodChain(r) /\ r[1].path # <<>>
  <1>1. c \in Seq(CallType) /\ Len(c) \in Nat /\ k \in Nat /\ k >= 1 /\ k + 1 <= Len(c)
    BY DEF GoodChain
  <1>2. r = SubSeq(c, k + 1, Len(c))
    BY DEF Abandoned
  <1>3. r \in Seq(CallType) /\ Len(r) = Len(c) - k /\ \A j \in 1..(Len(c) - k) : r[j] = c[k + j]
    BY <1>1, <1>2
  <1>4. \A i \in 2..Len(c) : GoodCall(c[i]) /\ c[i].path # <<>>
    BY <1>1 DEF GoodChain
  <1>5. ASSUME NEW j \in 1..Len(r) PROVE GoodCall(r[j]) /\ r[j].path # <<>>
    <2>1. k + j \in 2..Len(c) /\ r[j] = c[k + j]
      BY <1>1, <1>3
    <2>2. PICK i : i = k + j
      OBVIOUS
    <2> QED
      BY <1>4, <2>1, <2>2
  <1>6. Len(r) > 0 /\ Len(r) \in Nat
    BY <1>1, <1>3
  <1>7. \A j \in 2..Len(r) : r[j].path # <<>>
    BY <1>5, <1>6
  <1> QED
    BY <1>3, <1>5, <1>6, <1>7 DEF GoodChain

LEMMA ThrewKeeps ==
  ASSUME RelayInv, NEW c \in chains, NEW k \in 1..(Len(c) - 1), NEW frameLost \in BOOLEAN, SendThrew(c, k, frameLost)
  PROVE  RelayInv'
  <1>1. /\ GoodChain(c) /\ c[k].st = "wait" /\ UNCHANGED <<channel, crumb, stage, arrived>>
    BY DEF RelayInv, SendThrew
  <1>2. GoodCall(c[k]) /\ c[k] \in CallType
    BY <1>1 DEF GoodChain, GoodCall
  <1>3. "exhausted" \in Ending /\ "exhausted" # "consumed"
    BY DEF Ending
  <1> DEFINE call == IF ~Adjacent(c[k].at, c[k].next) THEN Reselected(c[k], "exhausted")
                     ELSE [c[k] EXCEPT !.st = "done", !.end = "exhausted"]
  <1>4. chains' = (chains \ {c}) \cup ({Append(SubSeq(c, 1, k - 1), call)} \cup Abandoned(c, k, frameLost))
    BY DEF SendThrew, Becomes
  <1>5. PICK d : d = c[k]
    OBVIOUS
  <1>6. GoodCall(call) /\ call.path = d.path
    <2>1. CASE ~Adjacent(c[k].at, c[k].next)
      <3>1. PICK e : e = Reselected(d, "exhausted")
        OBVIOUS
      <3>2. /\ e \in CallType /\ e.path = d.path /\ e.at = d.at
            /\ \/ e.next \in UsablePeers(d) /\ e.next # NoNode /\ e.end = d.end
               \/ e.next = d.next /\ e.st = "done" /\ e.end = "exhausted"
        BY <1>2, <1>3, <1>5, <3>1, ReselectedIs
      <3>3. GoodCall(e)
        <4>1. CASE e.next \in UsablePeers(d) /\ e.next # NoNode /\ e.end = d.end
          BY <1>2, <1>5, <3>2, <4>1, UsableIs DEF GoodCall
        <4>2. CASE e.next = d.next /\ e.st = "done" /\ e.end = "exhausted"
          BY <1>2, <1>5, <3>2, <4>2 DEF GoodCall
        <4> QED
          BY <3>2, <4>1, <4>2
      <3>4. call = e
        BY <1>5, <2>1, <3>1
      <3> QED
        BY <3>2, <3>3, <3>4
    <2>2. CASE Adjacent(c[k].at, c[k].next)
      <3>1. PICK e : e = [d EXCEPT !.st = "done", !.end = "exhausted"]
        OBVIOUS
      <3>2. e \in CallType /\ e.path = d.path /\ e.at = d.at /\ e.next = d.next /\ e.st = "done" /\ e.end = "exhausted"
        BY <1>2, <1>3, <1>5, <3>1 DEF CallType
      <3>3. GoodCall(e)
        BY <1>2, <1>5, <3>2 DEF GoodCall
      <3>4. call = e
        BY <1>5, <2>2, <3>1
      <3> QED
        BY <3>2, <3>3, <3>4
    <2> QED
      BY <2>1, <2>2
  <1>7. PICK e : e = call
    OBVIOUS
  <1> HIDE DEF call
  <1>8. PICK f : f = Append(SubSeq(c, 1, k - 1), e)
    OBVIOUS
  <1>9. GoodChain(f) /\ f[1].path = c[1].path
    BY <1>1, <1>5, <1>6, <1>7, <1>8, CutGood
  <1>10. GoodChain(f)'
    BY <1>1, <1>9, GoodStays
  <1>11. PICK rest : rest = Abandoned(c, k, frameLost)
    OBVIOUS
  <1>12. \A r \in rest : GoodChain(r) /\ r[1].path # <<>>
    BY <1>1, <1>11, AbandonedGood
  <1>13. chains' = (chains \ {c}) \cup ({f} \cup rest)
    BY <1>4, <1>7, <1>8, <1>11
  <1> QED
    BY <1>1, <1>9, <1>10, <1>12, <1>13, FollowedKeeps

\* The first call of a chain.
LEMMA RoutedGood ==
  ASSUME NEW rp \in Seq(RNode) PROVE GoodChain(Routed(rp)) /\ Routed(rp)[1].path = <<>>
  <1>1. PICK d : d = RouteCall(Dialer, <<>>, NoNode, rp)
    OBVIOUS
  <1>2. d = [at |-> Dialer, path |-> <<>>, via |-> NoNode, rpath |-> rp, next |-> NoNode, nextVia |-> NoNode,
             tried |-> {}, st |-> "new", end |-> "none"]
    BY <1>1 DEF RouteCall
  <1>3. <<>> \in Seq(RNode) /\ NoNode \in MaybeNode /\ Dialer \in RNode
    BY RelayNumbers DEF MaybeNode
  <1>4. d \in CallType
    BY <1>2, <1>3 DEF CallType
  <1>5. IsInjective(<<>>) /\ ToSet(<<>>) = {}
    <2>1. DOMAIN <<>> = {}
      OBVIOUS
    <2> QED
      BY <2>1, InjectiveMeans DEF ToSet
  <1>6. d.path = <<>> /\ d.at = Dialer /\ d.next = NoNode /\ d.st = "new" /\ d.end = "none"
    BY <1>2
  <1>7. GoodCall(d)
    BY <1>4, <1>5, <1>6 DEF GoodCall
  <1>8. Routed(rp) = <<d>> /\ <<d>> \in Seq(CallType) /\ Len(<<d>>) = 1 /\ <<d>>[1] = d
    BY <1>1, <1>4 DEF Routed
  <1>9. GoodChain(<<d>>)
    BY <1>7, <1>8 DEF GoodChain
  <1> QED
    BY <1>6, <1>8, <1>9

\* The dialer sends one walk, and waits for it.
LEMMA OneHead ==
  ASSUME RelayInv, NEW rest \in SUBSET chains, \A r \in rest : r[1].path # <<>>,
         NEW rp \in Seq(RNode), chains' = rest \cup {Routed(rp)},
         stage' \in {"return", "first", "second"}, UNCHANGED <<channel, crumb, arrived>>
  PROVE  RelayInv'
  <1>1. PICK h : h = Routed(rp)
    OBVIOUS
  <1>2. GoodChain(h) /\ h[1].path = <<>>
    BY <1>1, RoutedGood
  <1>3. \A x \in chains' : GoodChain(x)'
    BY <1>1, <1>2, GoodStays DEF RelayInv
  <1>4. Heads' = {h} /\ h \in chains'
    BY <1>1, <1>2 DEF Heads
  <1> QED
    BY <1>3, <1>4 DEF RelayInv

\* The dialer waits for nothing.
LEMMA NoHead ==
  ASSUME RelayInv, NEW rest \in SUBSET chains, \A r \in rest : r[1].path # <<>>,
         chains' = rest, stage' \notin {"return", "first", "second"}, stage' = "delivered" => arrived,
         UNCHANGED <<channel, crumb, arrived>>
  PROVE  RelayInv'
  <1>1. \A x \in chains' : GoodChain(x)'
    BY GoodStays DEF RelayInv
  <1>2. Heads' = {}
    BY DEF Heads
  <1> QED
    BY <1>1, <1>2 DEF RelayInv

LEMMA StartKeeps ==
  ASSUME RelayInv, RelayStart PROVE RelayInv'
  <1>1. /\ UNCHANGED <<channel, crumb, arrived>> /\ stage = "idle" /\ crumb \in Seq(RNode)
        /\ stage' = IF crumb = <<>> THEN "reach" ELSE "return"
        /\ chains' = IF crumb = <<>> THEN chains ELSE chains \cup {Routed(crumb)}
    BY DEF RelayInv, RelayStart
  <1>2. \A r \in chains : r[1].path # <<>>
    BY <1>1 DEF RelayInv, Heads
  <1>3. PICK rest : rest = chains
    OBVIOUS
  <1>4. PICK rp : rp = crumb
    OBVIOUS
  <1>5. CASE crumb = <<>>
    BY <1>1, <1>2, <1>3, <1>5, NoHead
  <1>6. CASE crumb # <<>>
    <2>1. chains' = rest \cup {Routed(rp)} /\ stage' = "return"
      BY <1>1, <1>3, <1>4, <1>6
    <2> QED
      BY <1>1, <1>2, <1>3, <1>4, <2>1, OneHead
  <1> QED
    BY <1>5, <1>6

LEMMA ReachableKeeps ==
  ASSUME RelayInv, NEW ok \in BOOLEAN, RelayReachable(ok) PROVE RelayInv'
  <1>1. /\ UNCHANGED <<channel, crumb, arrived>> /\ stage = "reach"
        /\ stage' = IF ok THEN "first" ELSE "failed"
        /\ chains' = IF ok THEN chains \cup {Routed(<<>>)} ELSE chains
    BY DEF RelayReachable
  <1>2. \A r \in chains : r[1].path # <<>>
    BY <1>1 DEF RelayInv, Heads
  <1>3. PICK rest : rest = chains
    OBVIOUS
  <1>4. PICK rp \in Seq(RNode) : rp = <<>>
    <2>1. <<>> \in Seq(RNode)
      OBVIOUS
    <2> QED
      BY <2>1
  <1>5. CASE ok
    <2>1. chains' = rest \cup {Routed(rp)} /\ stage' = "first"
      BY <1>1, <1>3, <1>4, <1>5
    <2> QED
      BY <1>1, <1>2, <1>3, <2>1, OneHead
  <1>6. CASE ~ok
    BY <1>1, <1>2, <1>3, <1>6, NoHead
  <1> QED
    BY <1>5, <1>6

LEMMA VerdictKeeps ==
  ASSUME RelayInv, NEW c \in chains, VerdictBack(c) PROVE RelayInv'
  <1>1. GoodChain(c) /\ GoodCall(Last1(c)) /\ UNCHANGED <<channel, crumb, arrived>>
    BY LastGood DEF RelayInv, VerdictBack
  <1>2. PICK end : end = Last1(c).end
    OBVIOUS
  <1>3. end = "consumed" => arrived
    BY <1>1, <1>2 DEF GoodCall
  <1>4. PICK rest \in SUBSET chains : rest = chains \ {c}
    OBVIOUS
  <1>5. CASE c[1].path = <<>>
    <2>1. Heads = {c} /\ stage \in {"return", "first", "second"}
      BY <1>5 DEF RelayInv, Heads
    <2>2. \A r \in rest : r[1].path # <<>>
      BY <1>4, <2>1 DEF Heads
    <2>3. RelayAnswered(end, rest)
      BY <1>2, <1>4, <1>5 DEF VerdictBack
    <2>4. \/ chains' = rest /\ stage' \notin {"return", "first", "second"} /\ (stage' = "delivered" => arrived)
          \/ chains' = rest \cup {Routed(<<>>)} /\ stage' = "second"
      BY <1>3, <2>3 DEF RelayAnswered
    <2>5. PICK rp \in Seq(RNode) : rp = <<>>
      <3>1. <<>> \in Seq(RNode)
        OBVIOUS
      <3> QED
        BY <3>1
    <2>6. CASE chains' = rest /\ stage' \notin {"return", "first", "second"} /\ (stage' = "delivered" => arrived)
      BY <1>1, <2>2, <2>6, NoHead
    <2>7. CASE chains' = rest \cup {Routed(<<>>)} /\ stage' = "second"
      <3>1. chains' = rest \cup {Routed(rp)} /\ stage' \in {"return", "first", "second"}
        BY <2>5, <2>7
      <3> QED
        BY <1>1, <2>2, <3>1, OneHead
    <2> QED
      BY <2>4, <2>6, <2>7
  <1>6. CASE c[1].path # <<>>
    <2>1. chains' = chains \ {c} /\ stage' = stage
      BY <1>6 DEF VerdictBack, Becomes
    <2>2. Heads' = Heads
      BY <1>6, <2>1 DEF Heads
    <2>3. \A x \in chains' : GoodChain(x)'
      BY <1>1, <2>1, GoodStays DEF RelayInv
    <2> QED
      BY <1>1, <2>1, <2>2, <2>3 DEF RelayInv
  <1> QED
    BY <1>5, <1>6

LEMMA GoneKeeps ==
  ASSUME RelayInv, NEW a, NEW b, ChannelGone(a, b) PROVE RelayInv'
  <1>1. UNCHANGED <<crumb, chains, stage, arrived>> /\ channel' \subseteq channel
    BY DEF ChannelGone
  <1>2. Heads' = Heads
    BY <1>1 DEF Heads
  <1>3. \A x \in chains' : GoodChain(x)'
    BY <1>1, GoodStays DEF RelayInv
  <1> QED
    BY <1>1, <1>2, <1>3 DEF RelayInv

LEMMA SrStepHolds == RelayInv /\ [SrNext]_srVars => RelayInv'
  <1> SUFFICES ASSUME RelayInv, [SrNext]_srVars PROVE RelayInv'
    OBVIOUS
  <1>1. CASE RelayStart
    BY <1>1, StartKeeps
  <1>2. ASSUME NEW ok \in BOOLEAN, RelayReachable(ok) PROVE RelayInv'
    BY <1>2, ReachableKeeps
  <1>3. ASSUME NEW c \in chains, ChainStep(c) PROVE RelayInv'
    BY <1>3, SelectKeeps, DeliverKeeps, DeadEdgeKeeps, SentKeeps, VerdictKeeps DEF ChainStep
  <1>4. ASSUME NEW c \in chains, NEW k \in 1..(Len(c) - 1), NEW frameLost \in BOOLEAN, SendThrew(c, k, frameLost)
        PROVE  RelayInv'
    BY <1>4, ThrewKeeps
  <1>5. ASSUME NEW a, NEW b, ChannelGone(a, b) PROVE RelayInv'
    BY <1>5, GoneKeeps
  <1>6. CASE UNCHANGED srVars
    <2>1. UNCHANGED <<channel, crumb, chains, stage, arrived>>
      BY <1>6 DEF srVars
    <2>2. Heads' = Heads
      BY <2>1 DEF Heads
    <2>3. \A x \in chains' : GoodChain(x)'
      BY <2>1, GoodStays DEF RelayInv
    <2> QED
      BY <2>1, <2>2, <2>3 DEF RelayInv
  <1> QED
    BY <1>1, <1>2, <1>3, <1>4, <1>5, <1>6 DEF SrNext

\* The relay of a signal: no walk, nor what a failed request left of one, visits
\* a node twice, the dialer waits for one walk at a time, and a signal reported
\* delivered did arrive, for every network and every pattern of lost channels.
THEOREM RelayHonestAlways == SrSpec => []RelayHonest
  <1>1. RelayInv => RelayHonest
    <2> SUFFICES ASSUME RelayInv PROVE RelayHonest
      OBVIOUS
    <2>1. ASSUME NEW c \in chains PROVE IsInjective(Append(Last1(c).path, Last1(c).at))
      <3>1. GoodCall(Last1(c))
        BY LastGood DEF RelayInv
      <3>2. PICK d : d = Last1(c)
        OBVIOUS
      <3>3. d.path \in Seq(RNode) /\ d.at \in RNode /\ IsInjective(d.path) /\ d.at \notin ToSet(d.path)
        BY <3>1, <3>2 DEF GoodCall, CallType
      <3> QED
        BY <3>2, <3>3, PathGrows
    <2>2. Cardinality(Heads) = IF stage \in {"return", "first", "second"} THEN 1 ELSE 0
      <3>1. CASE stage \in {"return", "first", "second"}
        <4>1. PICK c : Heads = {c}
          BY <3>1 DEF RelayInv
        <4>2. Cardinality(Heads) = 1
          BY <4>1, FS_Singleton
        <4> QED
          BY <3>1, <4>2
      <3>2. CASE stage \notin {"return", "first", "second"}
        <4>1. Cardinality(Heads) = 0
          BY <3>2, FS_EmptySet DEF RelayInv
        <4> QED
          BY <3>2, <4>1
      <3> QED
        BY <3>1, <3>2
    <2>3. stage = "delivered" => arrived
      BY DEF RelayInv
    <2> QED
      BY <2>1, <2>2, <2>3 DEF RelayHonest, Heads
  <1> QED
    BY <1>1, SrInitHolds, SrStepHolds, PTL DEF SrSpec

\* A lookup and a relayed signal claim only what happened, whatever the network,
\* the dead peers and the lost messages.
THEOREM WalksHonestAlways == LkSpec /\ SrSpec => []WalksHonest
  <1>1. WalkHonest /\ RelayHonest => WalksHonest
    BY DEF WalksHonest
  <1> QED
    BY <1>1, WalkHonestAlways, RelayHonestAlways, PTL
=============================================================================
