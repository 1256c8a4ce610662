------------------------------ MODULE PeerDial ------------------------------
(***************************************************************************)
(* How a node comes to hold, loses and dials its peers: the kernel's event  *)
(* handlers and dial sites (dht/AxonaPeer.js) over the marks of DeadPeers   *)
(* and the tokens of AttemptGuard, the identity bindings of the WebRTC      *)
(* transport, and the route record of the composite transport between them. *)
(*                                                                          *)
(* A channel is an incarnation (a number, never reused) under a connection  *)
(* handle: "hex", the identity itself, for a channel whose signalling is    *)
(* relayed through the mesh, or "bridge", the handle the bridge gave.       *)
(* Channels open and fail when they like; opening, the hello and the bind   *)
(* are one step (MeshPair has them apart, with the retry of a failed open    *)
(* channel).  The table of neighbours is below its cap; a displaced         *)
(* neighbour is a voluntary close.  The bridge's own socket is not here.    *)
(***************************************************************************)
EXTENDS DeadPeers, AttemptGuard, FiniteSets

CONSTANTS
    None,
    MaxProbes,  \* MAX_VERIFY_PROBES
    PathMs,     \* the longest path cooldown, in ticks
    MaxChan,    \* bound: channel incarnations
    MaxDial,    \* bound: attempts begun
    MaxClose,   \* bound: voluntary closes
    MaxFresh    \* bound: fresh presence records

ASSUME DialAssumption ==
    /\ Peer = Id
    /\ MaxProbes \in Nat /\ PathMs \in Nat /\ MaxChan \in Nat /\ MaxDial \in Nat
    /\ MaxClose \in Nat /\ MaxFresh \in Nat

Chan   == 1..MaxChan
Handle == {"hex", "bridge"}

VARIABLES
    marks,      \* node._deadPeers
    guard,      \* _attemptGuard
    paced,      \* its _lastRefillAt, as a countdown
    synaptome,  \* node.synaptome
    opening,    \* dials awaiting openConnection: [id, k]
    begun,      \* the guard's _seq
    chan,       \* channels: [id, handle, role, st]
    route,      \* webrtc._meshIdByNodeId, as the bound channel (0: none)
    admitted,   \* composite _routes: admitted.token, a handle
    seen,       \* composite: identities the kernel's handler has seen bound
    offers,     \* channels whose relayed offer has no verdict yet
    window,     \* per identity: ticks until an exhausted mark may be dialed
    closes, fresh

kernelVars == <<marks, guard, paced, synaptome, opening, begun>>
linkVars   == <<chan, route, admitted, seen, offers>>
ghostVars  == <<window, closes, fresh>>
vars       == <<kernelVars, linkVars, ghostVars>>

NoChan == [id |-> None, handle |-> None, role |-> None, st |-> "free"]

Init ==
    /\ marks = NoMarks
    /\ guard = [i \in Id |-> NoAttempt]
    /\ paced = [i \in Id |-> 0]
    /\ synaptome = {} /\ opening = {} /\ begun = 0
    /\ chan = [c \in Chan |-> NoChan]
    /\ route = [i \in Id |-> 0]
    /\ admitted = [i \in Id |-> None]
    /\ seen = {} /\ offers = {}
    /\ window = [i \in Id |-> 0]
    /\ closes = 0 /\ fresh = 0

Live(i, h) == {c \in Chan : chan[c].id = i /\ chan[c].handle = h /\ chan[c].st \in {"negotiating", "open"}}
NextChan   == {c \in Chan : chan[c].st = "free" /\ \A d \in Chan : d < c => chan[d].st # "free"}
Started(c, i, h, r) == [chan EXCEPT ![c] = [id |-> i, handle |-> h, role |-> r, st |-> "negotiating"]]
Retired(c) == [chan EXCEPT ![c].st = "gone"]

\* The ghost of the pacing rule: an exhausted mark waits a window from the
\* failure or the dial before; it is reset with the mark.
Waits(M, S) == [i \in Id |-> IF ~Exhausted(M, i) THEN 0 ELSE IF i \in S THEN RRefill ELSE window[i]]

-----------------------------------------------------------------------------
(***************************************************************************)
(* Dialing: _considerCandidate, and the same steps in integrate().         *)
(***************************************************************************)
\* An identity the transport already holds is admitted without a dial.
ConsiderBound(i) ==
    /\ i \notin synaptome /\ Eligible(marks, i) /\ route[i] # 0
    /\ marks' = Asked(marks, i)
    /\ synaptome' = synaptome \cup {i}
    /\ UNCHANGED <<guard, paced, opening, begun, linkVars, ghostVars>>

\* Up to the awaited openConnection, which on this transport opens nothing.
\* Without room under the fill the token is given back at once.
Consider(i) ==
    /\ i \notin synaptome /\ Eligible(marks, i) /\ route[i] = 0
    /\ Cardinality(opening) < MaxProbes
    /\ begun < MaxDial
    /\ LET G == SweepAttempts(guard)
           B == BeginAttempt(G, i, begun + 1)
       IN  /\ Allow(G, i)
           /\ \/ guard' = B /\ opening' = opening \cup {[id |-> i, k |-> begun + 1]}
              \/ guard' = ReleaseAttempt(B, i, begun + 1) /\ opening' = opening
    /\ begun' = begun + 1
    /\ marks' = Asked(marks, i)
    /\ UNCHANGED <<paced, synaptome, linkVars, ghostVars>>

\* Mutant: eligibility is not read again after the await.
StillEligibleUnread(i) == TRUE

StillEligible(i) == Eligible(marks, i)

\* connectViaRelay refuses an identity it is bound to or has a channel for.
Taken(i) == route[i] # 0 \/ Live(i, "hex") # {}

\* After the await: nothing goes out; or the relay refuses for capacity; or it
\* has the channel already, which ends the attempt as a failure.
OpenEnd(o) ==
    LET i == o.id  M == Asked(marks, i)
    IN  /\ o \in opening /\ opening' = opening \ {o}
        /\ marks' = M
        /\ \/ guard' = ReleaseAttempt(guard, i, o.k)     \* not eligible, no availability, or no capacity
           \/ /\ StillEligible(i) /\ Taken(i)
              /\ guard' = IF Own(guard, i, o.k, 0) THEN EndFailed(guard, i) ELSE guard
        /\ UNCHANGED <<paced, synaptome, begun, linkVars, ghostVars>>

\* The relay dial goes out: consume the mark, tie the token to the channel.
Issue(o) ==
    LET i == o.id
    IN  /\ o \in opening /\ opening' = opening \ {o}
        /\ StillEligible(i) /\ ~Taken(i)
        /\ \E c \in NextChan :
              /\ chan' = Started(c, i, "hex", "offerer")
              /\ offers' = offers \cup {c}
              /\ guard' = Attach(guard, i, o.k, c)
        /\ marks' = Consume(Asked(marks, i), i)
        /\ window' = Waits(marks', {i})
        /\ UNCHANGED <<paced, synaptome, begun, route, admitted, seen, closes, fresh>>

-----------------------------------------------------------------------------
(***************************************************************************)
(* Negotiation.                                                            *)
(***************************************************************************)
\* The other side dials us, through the mesh or through the bridge.
Inbound(i, h) ==
    /\ Live(i, h) = {}
    /\ \E c \in NextChan : chan' = Started(c, i, h, "answerer")
    /\ UNCHANGED <<kernelVars, route, admitted, seen, offers, ghostVars>>

\* The offerer's one retry is a new incarnation of the same attempt.
Retry(c) ==
    /\ chan[c].st = "negotiating" /\ chan[c].role = "offerer"
    /\ \E d \in NextChan :
          /\ chan' = [Started(d, chan[c].id, chan[c].handle, "offerer") EXCEPT ![c].st = "gone"]
          /\ offers' = offers \cup {d}
    /\ UNCHANGED <<kernelVars, route, admitted, seen, ghostVars>>

\* onNegotiationFailed: a deadline or another failure.  A channel under a
\* bridge handle that never opened names no identity.
NegotiationFailed(c) ==
    LET i == chan[c].id  open == route[chan[c].id] # 0  own == Own(guard, chan[c].id, 0, c)
    IN  /\ chan[c].st = "negotiating"
        /\ chan' = Retired(c)
        /\ IF chan[c].handle = "bridge" THEN UNCHANGED <<guard, marks>>
           ELSE /\ guard' = IF ~own THEN guard ELSE IF open THEN EndBound(guard, i) ELSE EndFailed(guard, i)
                /\ marks' = IF open \/ (~own /\ Inflight(guard, i)) THEN marks ELSE Fail(marks, i)
        /\ window' = Waits(marks', IF marks' # marks THEN {i} ELSE {})
        /\ UNCHANGED <<paced, synaptome, opening, begun, route, admitted, seen, offers, closes, fresh>>

\* A capacity reject of the far end releases whatever token the identity has.
Rejected(c) ==
    LET i == chan[c].id
    IN  /\ chan[c].st = "negotiating" /\ chan[c].role = "offerer"
        /\ chan' = Retired(c)
        /\ guard' = IF route[i] = 0 THEN ReleaseAttempt(guard, i, 0)
                    ELSE IF Own(guard, i, 0, c) THEN EndBound(guard, i) ELSE guard
        /\ UNCHANGED <<marks, paced, synaptome, opening, begun, route, admitted, seen, offers, ghostVars>>

\* The verdict on the relayed offer.  _onNoPath aborts the negotiation it is
\* about, releases whatever token the identity has and starts the path backoff.
OfferDelivered(c) ==
    /\ c \in offers /\ offers' = offers \ {c}
    /\ guard' = PathDelivered(guard, chan[c].id)
    /\ UNCHANGED <<marks, paced, synaptome, opening, begun, chan, route, admitted, seen, ghostVars>>

NoPath(c) ==
    /\ c \in offers /\ offers' = offers \ {c}
    /\ chan' = IF chan[c].st = "negotiating" THEN Retired(c) ELSE chan
    /\ \E ms \in 1..PathMs :
          guard' = DeferPath(ReleaseAttempt(guard, chan[c].id, 0), chan[c].id, ms)
    /\ UNCHANGED <<marks, paced, synaptome, opening, begun, route, admitted, seen, ghostVars>>

-----------------------------------------------------------------------------
(***************************************************************************)
(* Binding, death and close.                                               *)
(***************************************************************************)
\* onPeerBound in the kernel: an attempt of another channel keeps the identity;
\* else the attempt is over, the mark is cleared and the peer admitted.
KernelBound(i, c) ==
    LET own == Own(guard, i, 0, c)
    IN  IF ~own /\ Inflight(guard, i)
        THEN UNCHANGED <<guard, marks, synaptome, seen>>
        ELSE /\ guard' = IF own THEN EndBound(guard, i) ELSE guard
             /\ marks' = Delete(marks, i)
             /\ synaptome' = synaptome \cup {i}
             /\ seen' = seen \cup {i}

\* The first channel of the identity: bindPeer, then the composite, which lets
\* the kernel's handler run once until the admitted route dies.
Bind(c) ==
    LET i == chan[c].id
    IN  /\ chan[c].st = "negotiating" /\ route[i] = 0
        /\ chan' = [chan EXCEPT ![c].st = "open"]
        /\ route' = [route EXCEPT ![i] = c]
        /\ admitted' = [admitted EXCEPT ![i] = chan[c].handle]
        /\ IF i \in seen THEN UNCHANGED <<guard, marks, synaptome, seen>> ELSE KernelBound(i, c)
        /\ window' = Waits(marks', {})
        /\ UNCHANGED <<paced, opening, begun, offers, closes, fresh>>

\* Mutant: the loser of a duplicate is left open.
AfterDuplicateKept(c, d, w) == [chan EXCEPT ![c].st = "open"]

\* The channels after c and d proved one identity and w was kept.
AfterDuplicate(c, d, w) ==
    [x \in Chan |-> IF x = w THEN [chan[x] EXCEPT !.st = "open"]
                    ELSE IF x \in {c, d} THEN [chan[x] EXCEPT !.st = "gone"] ELSE chan[x]]

\* A second channel: the smaller channel key stays, on both sides, the other is
\* torn down, and no event is raised.
BindDuplicate(c) ==
    LET i == chan[c].id
    IN  /\ chan[c].st = "negotiating" /\ route[i] # 0
        /\ \E w \in {c, route[i]} :
              /\ chan' = AfterDuplicate(c, route[i], w)
              /\ route' = [route EXCEPT ![i] = w]
        /\ UNCHANGED <<kernelVars, admitted, seen, offers, ghostVars>>

\* The bound channel dies: _onPeerLost, the composite's death fence, and, if it
\* lets the death through, the kernel's eviction and mark.
Died(c) ==
    LET i == chan[c].id
    IN  /\ chan[c].st = "open" /\ route[i] = c
        /\ chan' = Retired(c)
        /\ route' = [route EXCEPT ![i] = 0]
        /\ IF admitted[i] # None /\ admitted[i] # chan[c].handle
           THEN UNCHANGED <<admitted, seen, synaptome, marks, window>>
           ELSE /\ admitted' = [admitted EXCEPT ![i] = None]
                /\ seen' = seen \ {i}
                /\ synaptome' = synaptome \ {i}
                /\ marks' = Fail(marks, i)
                /\ window' = Waits(marks', {i})
        /\ UNCHANGED <<guard, paced, opening, begun, offers, closes, fresh>>

\* The kernel closes a channel it does not keep (displaced, or leaving).
Close(i) ==
    /\ route[i] # 0 /\ closes < MaxClose
    /\ closes' = closes + 1
    /\ synaptome' = synaptome \ {i}
    /\ chan' = Retired(route[i])
    /\ route' = [route EXCEPT ![i] = 0]
    /\ admitted' = [admitted EXCEPT ![i] = None]
    /\ UNCHANGED <<marks, guard, paced, opening, begun, seen, offers, window, fresh>>

-----------------------------------------------------------------------------
(***************************************************************************)
(* Maintenance and time.                                                   *)
(***************************************************************************)
\* Mutant: only identities whose bind the kernel saw are taken.
ReconciledSeen == {i \in Id : route[i] # 0 /\ i \in seen}

\* _reconcileBound
Reconciled == {i \in Id : route[i] # 0}

\* The maintenance tick: reconcile first, then the fill's sweep.
Maintain ==
    /\ synaptome' = synaptome \cup Reconciled
    /\ guard' = SweepAttempts(guard)
    /\ UNCHANGED <<marks, paced, opening, begun, linkVars, ghostVars>>

\* A fresh presence record; at most one refill per window.
FreshRecord(i) ==
    /\ fresh < MaxFresh /\ fresh' = fresh + 1
    /\ paced[i] = 0
    /\ paced' = [paced EXCEPT ![i] = RefillMs]
    /\ guard' = Refreshed(guard, i)
    /\ UNCHANGED <<marks, synaptome, opening, begun, linkVars, window, closes>>

Tick ==
    /\ marks' = MarksLater(marks)
    /\ guard' = GuardLater(guard)
    /\ paced' = [i \in Id |-> IF paced[i] > 0 THEN paced[i] - 1 ELSE 0]
    /\ window' = [i \in Id |-> IF window[i] > 0 THEN window[i] - 1 ELSE 0]
    /\ UNCHANGED <<synaptome, opening, begun, linkVars, closes, fresh>>

Next ==
    \/ \E i \in Id : ConsiderBound(i) \/ Consider(i)
    \/ \E o \in opening : OpenEnd(o) \/ Issue(o)
    \/ \E i \in Id, h \in Handle : Inbound(i, h)
    \/ \E c \in Chan : Retry(c) \/ NegotiationFailed(c) \/ Rejected(c)
    \/ \E c \in Chan : OfferDelivered(c) \/ NoPath(c)
    \/ \E c \in Chan : Bind(c) \/ BindDuplicate(c) \/ Died(c)
    \/ \E i \in Id : Close(i) \/ FreshRecord(i)
    \/ Maintain
    \/ Tick

Spec == Init /\ [][Next]_vars

\* The maintenance timer runs and time passes.
Fairness == WF_vars(Maintain) /\ WF_vars(Tick)

FairSpec == Spec /\ Fairness

-----------------------------------------------------------------------------
TypeOK ==
    /\ MarksType(marks) /\ GuardType(guard)
    /\ paced \in [Id -> Nat] /\ window \in [Id -> Nat]
    /\ synaptome \subseteq Id /\ seen \subseteq Id
    /\ opening \subseteq [id : Id, k : 1..MaxDial] /\ begun \in 0..MaxDial
    /\ \A c \in Chan : chan[c] = NoChan \/
          chan[c] \in [id : Id, handle : Handle, role : {"offerer", "answerer"}, st : {"negotiating", "open", "gone"}]
    /\ route \in [Id -> Chan \cup {0}] /\ admitted \in [Id -> Handle \cup {None}]
    /\ offers \subseteq Chan

\* The table of marks never outgrows M_marks, however deaths, failed dials,
\* evictions and binds follow each other, and MARKS-FULL stands from the bound
\* down to the hysteresis, so strangers are shut out exactly while it is near.
MarksBounded ==
    /\ Len(marks.order) <= MMarks
    /\ Len(marks.order) = MMarks => marks.full
    /\ marks.full => Len(marks.order) + MHyst >= MMarks

\* "One attempt per R_refill window": between two dials of an exhausted
\* identity, or its last failure and the next dial, a window passes, although
\* the dial awaits an open in which a death may be marked.
ExhaustedPaced ==
    [][\A o \in opening \ opening' : Exhausted(marks, o.id) /\ chan' # chan => window[o.id] = 0]_vars

\* "Keep exactly one and tear the other down": an identity's binding names an
\* open channel of that identity, and no other channel of it stays open,
\* through glare, retries, rejects and closes.
OneChannel ==
    /\ \A i \in Id : route[i] # 0 => chan[route[i]].id = i /\ chan[route[i]].st = "open"
    /\ \A c \in Chan : chan[c].st = "open" => route[chan[c].id] = c

\* An attempt that named its channel counts as failed only by that channel's
\* own failure, by its dialer, or after the fail-safe deadline: an older
\* channel's event ends nothing (R8-2).
OwnFailureOnly ==
    [][\A i \in Id : guard'[i].attempts > guard[i].attempts =>
          \/ guard[i].age > InflightMaxMs
          \/ opening' # opening
          \/ \E c \in Chan : chan[c].st = "negotiating" /\ chan'[c].st = "gone" /\ guard[i].inc \in {0, c}]_vars

\* "An identity can never stay in flight (and therefore undialable) for ever."
AttemptEnds == \A i \in Id, k \in 1..MaxDial : guard[i].k = k ~> guard[i].k # k

\* A peer the transport holds bound is in the table of neighbours some day,
\* or no longer bound: no bind whose event was rejected, deduplicated or
\* already seen leaves a connected peer out for the life of its channel.
BoundAdmitted == \A i \in Id : route[i] # 0 ~> route[i] = 0 \/ i \in synaptome

\* "Eager eviction keeps the routing table honest (every synapse is a live
\* channel) the moment a peer goes."
SynapseIsLive == \A i \in synaptome : route[i] # 0

=============================================================================
