------------------------------ MODULE Requests ------------------------------
(***************************************************************************)
(* A node's requests to one identity that it reaches by two routes: the     *)
(* bootstrap socket and a mesh channel.  Each sub-transport keeps its own   *)
(* binding and its own pending requests; the composite keeps, for the       *)
(* identity, the one admitted route and the routes superseded under it, and  *)
(* decides which deaths the kernel hears of.                                 *)
(*                                                                           *)
(* A second mesh channel of the same identity is the subject of PeerDial.    *)
(* Payloads, handlers' results and latencies are abstracted away.            *)
(***************************************************************************)
EXTENDS Naturals, FiniteSets

CONSTANTS
    MaxReq,     \* bound: requests issued
    MaxRoute,   \* bound: channels that come up, on either route
    Policy      \* a bind policy is installed (setBindPolicy)

ASSUME RequestsAssumption == MaxReq \in Nat /\ MaxRoute \in Nat /\ Policy \in BOOLEAN

Sub == {"socket", "mesh"}
Nowhere == "nowhere"
Request == 1..MaxReq

VARIABLES
    open,       \* the routes whose channel is up
    owns,       \* the routes whose sub-transport has the identity bound
    ups,        \* channels that came up so far
    admitted,   \* composite: the admitted route, or Nowhere
    superseded, \* composite: the routes superseded for the identity
    seen,       \* composite: the kernel's handler has seen the identity bound
    kernel,     \* the kernel holds the identity as a peer
    detached,   \* ghost: the socket is bound to an identity it is not admitted for
    pending,    \* requests that wait in a sub-transport: [r, sub]
    wire,       \* frames under way: [k, r, sub]
    outcome,    \* what the caller of each request has learnt
    running     \* the transports are started

routeVars == <<open, owns, ups, admitted, superseded, seen, kernel, detached>>
callVars == <<pending, wire, outcome>>
rqVars == <<routeVars, callVars, running>>

RqInit ==
    /\ open = {} /\ owns = {} /\ ups = 0
    /\ admitted = Nowhere /\ superseded = {} /\ seen = FALSE /\ kernel = FALSE /\ detached = FALSE
    /\ pending = {} /\ wire = {} /\ outcome = [r \in Request |-> "unsent"]
    /\ running = TRUE

(***************************************************************************)
(* Requests.                                                                 *)
(***************************************************************************)
\* What happens to the requests in ps when their promises are rejected.
Rejected(ps) ==
    /\ pending' = pending \ ps
    /\ outcome' = [r \in Request |-> IF \E p \in ps : p.r = r THEN "rejected" ELSE outcome[r]]

PendingOn(s) == {p \in pending : p.sub = s}

\* (mutant) the router's order before there were superseded routes.
RouteForAny ==
    IF "socket" \in owns THEN "socket" ELSE IF "mesh" \in owns THEN "mesh" ELSE Nowhere

\* The composite asks its sub-transports in order; a superseded one is skipped.
RouteFor ==
    IF "socket" \in owns \ superseded THEN "socket"
    ELSE IF "mesh" \in owns \ superseded THEN "mesh" ELSE Nowhere

\* A sub-transport registers the request before it writes the frame.
Registered(r, s, written) ==
    IF written
    THEN /\ pending' = pending \cup {[r |-> r, sub |-> s]}
         /\ wire' = wire \cup {[k |-> "req", r |-> r, sub |-> s]}
         /\ outcome' = [outcome EXCEPT ![r] = "waiting"]
    ELSE /\ outcome' = [outcome EXCEPT ![r] = "rejected"]
         /\ UNCHANGED <<pending, wire>>

MeshSend(r, written) ==
    /\ running /\ RouteFor = "mesh" /\ "mesh" \in open
    /\ Registered(r, "mesh", written)

SocketSend(r, written) ==
    /\ running /\ RouteFor = "socket" /\ "socket" \in open
    /\ Registered(r, "socket", written)

\* No route, a channel that is not up, a transport that is not started.
SendRefused(r) ==
    /\ ~running \/ RouteFor = Nowhere \/ RouteFor \notin open
    /\ outcome' = [outcome EXCEPT ![r] = "rejected"]
    /\ UNCHANGED <<pending, wire>>

SendRequest(r) ==
    /\ outcome[r] = "unsent" /\ \A q \in 1..(r - 1) : outcome[q] # "unsent"
    /\ \/ \E written \in BOOLEAN : MeshSend(r, written) \/ SocketSend(r, written)
       \/ SendRefused(r)
    /\ UNCHANGED <<routeVars, running>>

\* The far end answers over the channel the request came by; a missing
\* handler and a handler that throws are answers too.
Answered(f, ok) == wire' = (wire \ {f}) \cup {[k |-> IF ok THEN "ok" ELSE "error", r |-> f.r, sub |-> f.sub]}

MeshServes(f, ok) == f.sub = "mesh" /\ Answered(f, ok)

ServerServes(f, ok) == f.sub = "socket" /\ Answered(f, ok)

ServeRequest(f, ok) ==
    /\ f \in wire /\ f.k = "req"
    /\ MeshServes(f, ok) \/ ServerServes(f, ok)
    /\ UNCHANGED <<routeVars, pending, outcome, running>>

\* A response settles the request of its id; a late one finds none.
HandleResponse(f) ==
    LET ps == {p \in pending : p.r = f.r /\ p.sub = f.sub} IN
    /\ pending' = pending \ ps
    /\ outcome' = IF ps = {} THEN outcome
                  ELSE [outcome EXCEPT ![f.r] = IF f.k = "ok" THEN "resolved" ELSE "rejected"]

OnResponse(f) ==
    /\ f \in wire /\ f.k # "req" /\ running
    /\ HandleResponse(f) /\ wire' = wire \ {f}
    /\ UNCHANGED <<routeVars, running>>

RequestTimeout(p) ==
    /\ p \in pending
    /\ Rejected({p})
    /\ UNCHANGED <<routeVars, wire, running>>

(***************************************************************************)
(* Routes: what a bind and a death do at the composite and in the kernel.    *)
(***************************************************************************)
\* The kernel's handler runs once per identity until a death re-arms it.
FireBound ==
    /\ seen' = TRUE
    /\ kernel' = (kernel \/ ~seen)

\* The one place a new route is admitted; the policy may refuse it.
AdmitNew(s, ok) ==
    IF ok THEN admitted' = s /\ FireBound /\ UNCHANGED superseded
    ELSE UNCHANGED <<admitted, superseded, seen, kernel>>

\* Socket to mesh: the new route is admitted, the old one superseded, and what
\* pends on it fails at once; the kernel sees no second admission.
SwitchToMesh ==
    /\ admitted' = "mesh" /\ superseded' = superseded \cup {"socket"}
    /\ Rejected(PendingOn("socket"))
    /\ UNCHANGED <<seen, kernel>>

\* Mesh is admitted already: the socket's route is born superseded.
BornSuperseded ==
    /\ superseded' = superseded \cup {"socket"}
    /\ Rejected(PendingOn("socket"))
    /\ UNCHANGED <<admitted, seen, kernel>>

\* A bind event of sub-transport s, by the rule of the route token.
RouteBind(s, ok) ==
    \/ s \in superseded /\ UNCHANGED <<admitted, superseded, seen, kernel, pending, outcome>>
    \/ s \notin superseded /\ admitted = Nowhere /\ AdmitNew(s, ok) /\ UNCHANGED <<pending, outcome>>
    \/ s \notin superseded /\ admitted = s /\ FireBound /\ UNCHANGED <<admitted, superseded, pending, outcome>>
    \/ s \notin superseded /\ admitted = "socket" /\ s = "mesh" /\ SwitchToMesh
    \/ s \notin superseded /\ admitted = "mesh" /\ s = "socket" /\ BornSuperseded

\* A channel comes up; the identity is bound to it by its handshake.
ChannelUp(s) ==
    /\ running /\ s \notin open /\ ups < MaxRoute
    /\ open' = open \cup {s} /\ ups' = ups + 1
    /\ UNCHANGED <<owns, admitted, superseded, seen, kernel, detached, callVars, running>>

Bound(s) ==
    /\ running /\ s \in open \ owns
    /\ owns' = owns \cup {s}
    /\ \E ok \in IF Policy THEN BOOLEAN ELSE {TRUE} :
          /\ RouteBind(s, ok)
          /\ detached' = (detached \/ (s = "socket" /\ admitted = Nowhere /\ ~ok))
    /\ UNCHANGED <<open, ups, wire, running>>

\* A death reaches the kernel only from the admitted route, or from a route
\* of an identity the composite has no record of.
SubDeath(s) ==
    LET forward == s \notin superseded /\ admitted \in {s, Nowhere} IN
    /\ superseded' = superseded \ {s}
    /\ admitted' = IF s \notin superseded /\ admitted = s THEN Nowhere ELSE admitted
    /\ seen' = (seen /\ ~forward)
    /\ kernel' = (kernel /\ ~forward)

\* The channel of a mesh route is lost: a death if the identity is bound to it.
MeshRouteLost ==
    /\ "mesh" \in open /\ open' = open \ {"mesh"} /\ owns' = owns \ {"mesh"}
    /\ wire' = {f \in wire : f.sub # "mesh"}
    /\ IF "mesh" \in owns THEN SubDeath("mesh") /\ Rejected(PendingOn("mesh"))
       ELSE UNCHANGED <<admitted, superseded, seen, kernel, pending, outcome>>
    /\ UNCHANGED <<ups, detached, running>>

\* The socket closes.  Before its handshake it reports a handle, no identity.
SocketRouteLost ==
    /\ "socket" \in open /\ open' = open \ {"socket"} /\ owns' = owns \ {"socket"}
    /\ wire' = {f \in wire : f.sub # "socket"}
    /\ Rejected(PendingOn("socket"))
    /\ IF "socket" \in owns THEN SubDeath("socket")
       ELSE UNCHANGED <<admitted, superseded, seen, kernel>>
    /\ detached' = FALSE
    /\ UNCHANGED <<ups, running>>

\* The kernel lets the peer go.  The mesh unbinds first and then closes its
\* channel, so no death follows and what pends is left to its timer; the
\* socket's life is not the composite's to end.
CloseRoute ==
    /\ kernel /\ kernel' = FALSE /\ admitted' = Nowhere
    /\ detached' = (detached \/ RouteFor = "socket")
    /\ IF RouteFor = "mesh"
       THEN open' = open \ {"mesh"} /\ owns' = owns \ {"mesh"} /\ wire' = {f \in wire : f.sub # "mesh"}
       ELSE UNCHANGED <<open, owns, wire>>
    /\ UNCHANGED <<ups, superseded, seen, pending, outcome, running>>

\* Every sub-transport rejects what it has pending, and takes no more frames.
StopTransports ==
    /\ running /\ running' = FALSE
    /\ Rejected(pending)
    /\ UNCHANGED <<routeVars, wire>>

RqNext ==
    \/ \E r \in Request : SendRequest(r)
    \/ \E f \in wire : (\E ok \in BOOLEAN : ServeRequest(f, ok)) \/ OnResponse(f)
    \/ \E p \in pending : RequestTimeout(p)
    \/ \E s \in Sub : ChannelUp(s) \/ Bound(s)
    \/ MeshRouteLost \/ SocketRouteLost \/ CloseRoute \/ StopTransports

RqSpec == RqInit /\ [][RqNext]_rqVars

(***************************************************************************)
(* Properties.                                                               *)
(***************************************************************************)
\* Every variable stays in its type.
RqTypeOK ==
    /\ open \subseteq Sub /\ owns \subseteq open /\ ups \in 0..MaxRoute
    /\ admitted \in Sub \cup {Nowhere} /\ superseded \subseteq Sub
    /\ seen \in BOOLEAN /\ kernel \in BOOLEAN /\ detached \in BOOLEAN /\ running \in BOOLEAN
    /\ pending \subseteq [r : Request, sub : Sub]
    /\ wire \subseteq [k : {"req", "ok", "error"}, r : Request, sub : Sub]
    /\ outcome \in [Request -> {"unsent", "waiting", "resolved", "rejected"}]

\* What the kernel, the composite and the sub-transports believe agrees: a peer
\* of the kernel has an admitted route, and the route is bound; a request waits
\* on no superseded route ("a request pending at the switch is never resolved
\* later"); and requests go by the admitted route, unless the socket, which the
\* composite cannot close, still carries an identity that the kernel closed or
\* the policy refused.
RoutesAgree ==
    /\ kernel => admitted # Nowhere
    /\ admitted # Nowhere => admitted \in owns
    /\ \A p \in pending : p.sub \notin superseded /\ outcome[p.r] = "waiting"
    /\ admitted # Nowhere /\ ~detached => RouteFor = admitted

=============================================================================
