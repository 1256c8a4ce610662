------------------------------ MODULE MeshPair ------------------------------
(***************************************************************************)
(* Two nodes that reach each other under one key each: the negotiation of   *)
(* a WebRTC channel (MeshManager, transport/web/mesh.js), the mutual proof  *)
(* of identity over it (MeshAuth, transport/web/mesh-auth.js) and the       *)
(* binding that proof makes (WebRTCTransport.bindPeer / unbindPeer).        *)
(*                                                                          *)
(* Signals go through the bridge or the mesh: unordered, and lost when no   *)
(* path takes them.  Every offer carries an attempt id, k, which also names *)
(* the channel it opens and its certificates.  ICE is left out: a channel   *)
(* with both descriptions in place opens, or fails, when it likes.  Timers  *)
(* have no length.  The heartbeat is Heartbeat; here it only evicts.        *)
(***************************************************************************)
EXTENDS Integers, Sequences, FiniteSets

CONSTANTS
    AttemptReplaceMax,  \* ATTEMPT_REPLACE_MAX
    MaxAttempt,         \* bound: attempts minted
    MaxNonce,           \* bound: nonces minted by both ends
    MaxFault            \* bound: connection failures, departures and voluntary closes

ASSUME PairAssumption ==
    AttemptReplaceMax \in Nat /\ MaxAttempt \in Nat /\ MaxNonce \in Nat /\ MaxFault \in Nat

Side == {"a", "b"}
Other(e) == IF e = "a" THEN "b" ELSE "a"
Attempt == 1..MaxAttempt

VARIABLES
    slot,      \* _peers.get(key), per node
    expiry,    \* nodes whose _negotiationDeadline has an entry
    replaced,  \* _replaceCounts
    minted, faults,
    signals,   \* offers, answers and rejects on their way: [to, kind, k]
    native,    \* RTCPeerConnections not closed yet: [node, k]
    auth,      \* MeshAuth._state.get(key)
    nonces,    \* nonces minted, per node
    frames,    \* data frames on their way to a node: [k, kind, v]
    checks,    \* verifications under way: [node, my, ok]
    binding    \* nodes whose _meshIdByNodeId holds the other

negVars  == <<slot, expiry, replaced, minted, faults, signals, native>>
authVars == <<auth, nonces, frames, checks, binding>>
mpVars   == <<negVars, authVars>>

NoSlot == [role |-> "none", k |-> 0, sdp |-> "none", up |-> FALSE, failed |-> FALSE,
           retry |-> "no", bindTimer |-> FALSE, boundAt |-> FALSE]
NoAuth == [my |-> 0, peer |-> 0, sigSent |-> FALSE, sig |-> <<>>, verifying |-> FALSE, bound |-> FALSE]

MpInit ==
    /\ slot = [e \in Side |-> NoSlot] /\ expiry = {} /\ replaced = [e \in Side |-> 0]
    /\ minted = 0 /\ faults = 0 /\ signals = {} /\ native = {}
    /\ auth = [e \in Side |-> NoAuth] /\ nonces = [e \in Side |-> 0]
    /\ frames = [e \in Side |-> <<>>] /\ checks = {} /\ binding = {}

Free(e) == slot[e].role = "none"
NewState(role, k) == [NoSlot EXCEPT !.role = role, !.k = k]
Offering(k) == [NewState("offerer", k) EXCEPT !.sdp = "local"]
Pc(e, k) == [node |-> e, k |-> k]
Signal(e, kind, k) == [to |-> Other(e), kind |-> kind, k |-> k]

-----------------------------------------------------------------------------
(***************************************************************************)
(* _retire.                                                                *)
(***************************************************************************)
\* onPeerLost runs when an open channel goes and its caller wants it told.
Told(e, notify) == notify /\ slot[e].up

\* The listeners of onPeerLost: MeshAuth drops its state, the transport unbinds.
Lost(e, told) ==
    /\ auth' = IF told THEN [auth EXCEPT ![e] = NoAuth] ELSE auth
    /\ binding' = IF told THEN binding \ {e} ELSE binding

\* The slot and its timers go at once, the native close later (NativeClose).
Retire(e, notify) ==
    /\ slot' = [slot EXCEPT ![e] = NoSlot]
    /\ expiry' = expiry \ {e}
    /\ Lost(e, Told(e, notify))

\* Mutant: the old attempt's deadline is deleted after the new one is armed.
DeadlineDropped(e) == IF Free(e) THEN expiry \cup {e} ELSE expiry \ {e}

\* _armReaper for a new attempt under the key, an older one's just retired or kept.
Deadline(e) == expiry \cup {e}

NativeClose(p) ==
    /\ p \in native /\ slot[p.node].k # p.k
    /\ native' = native \ {p}
    /\ UNCHANGED <<slot, expiry, replaced, minted, faults, signals, authVars>>

-----------------------------------------------------------------------------
(***************************************************************************)
(* Negotiation.                                                            *)
(***************************************************************************)
\* A signal is sent, or no path takes it.
Sending(m) == {signals, signals \cup {m}}

\* _initiateTo: from the peer list, or by connectViaRelay.
Initiate(e) ==
    /\ Free(e) /\ minted < MaxAttempt /\ minted' = minted + 1
    /\ slot' = [slot EXCEPT ![e] = Offering(minted + 1)]
    /\ expiry' = Deadline(e)
    /\ native' = native \cup {Pc(e, minted + 1)}
    /\ signals' \in Sending(Signal(e, "offer", minted + 1))
    /\ UNCHANGED <<replaced, faults, authVars>>

\* onPeerJoined: a row that waits for the offer.
Accept(e) ==
    /\ Free(e)
    /\ slot' = [slot EXCEPT ![e] = NewState("responder", 0)]
    /\ expiry' = Deadline(e)
    /\ UNCHANGED <<replaced, minted, faults, signals, native, authVars>>

\* An offer is ignored on an open channel, and refused past the replacements
\* allowed or when the ledger has no room; both refusals keep the old attempt.
OfferIgnored(m) ==
    /\ m \in signals /\ m.kind = "offer" /\ slot[m.to].up
    /\ signals' = signals \ {m}
    /\ UNCHANGED <<slot, expiry, replaced, minted, faults, native, authVars>>

OfferRefused(m) ==
    /\ m \in signals /\ m.kind = "offer" /\ ~slot[m.to].up
    /\ \E S \in Sending(Signal(m.to, "reject", m.k)) : signals' = S \ {m}
    /\ UNCHANGED <<slot, expiry, replaced, minted, faults, native, authVars>>

\* Else it takes the key, replacing a negotiation of another attempt, and
\* _handleOffer answers it.
OfferTaken(m) ==
    LET e == m.to
    IN  /\ m \in signals /\ m.kind = "offer" /\ ~slot[e].up
        /\ ~Free(e) => replaced[e] < AttemptReplaceMax
        /\ replaced' = IF Free(e) THEN replaced ELSE [replaced EXCEPT ![e] = @ + 1]
        /\ slot' = [slot EXCEPT ![e] = [NewState("responder", m.k) EXCEPT !.sdp = "stable"]]
        /\ expiry' = Deadline(e)
        /\ native' = native \cup {Pc(e, m.k)}
        /\ \E S \in Sending(Signal(e, "answer", m.k)) : signals' = S \ {m}
        /\ UNCHANGED <<minted, faults, authVars>>

\* An answer counts for the attempt it names.
OnAnswer(m) ==
    LET e == m.to
    IN  /\ m \in signals /\ m.kind = "answer" /\ signals' = signals \ {m}
        /\ slot' = IF slot[e].k = m.k /\ slot[e].sdp = "local" THEN [slot EXCEPT ![e].sdp = "stable"] ELSE slot
        /\ UNCHANGED <<expiry, replaced, minted, faults, native, authVars>>

\* A reject ends the offerer's attempt it names, unless that opened.
OnReject(m) ==
    LET e == m.to
    IN  /\ m \in signals /\ m.kind = "reject" /\ signals' = signals \ {m}
        /\ IF slot[e].role = "offerer" /\ ~slot[e].up /\ slot[e].k = m.k THEN Retire(e, TRUE)
           ELSE UNCHANGED <<slot, expiry, auth, binding>>
        /\ UNCHANGED <<replaced, minted, faults, native, nonces, frames, checks>>

-----------------------------------------------------------------------------
(***************************************************************************)
(* Failure and timers.                                                     *)
(***************************************************************************)
\* The connection fails; an offerer schedules one retry, open channel or not.
ConnFailed(e) ==
    /\ slot[e].k # 0 /\ slot[e].sdp = "stable" /\ ~slot[e].failed /\ faults < MaxFault
    /\ faults' = faults + 1
    /\ slot' = [slot EXCEPT ![e].failed = TRUE,
                            ![e].retry = IF slot[e].role = "offerer" /\ @ = "no" THEN "armed" ELSE @]
    /\ UNCHANGED <<expiry, replaced, minted, signals, native, authVars>>

\* The retry: the old connection goes without telling anyone, a new attempt
\* starts under the same deadline, or is refused.
RetryTimer(e) ==
    /\ slot[e].retry = "armed"
    /\ \/ /\ minted < MaxAttempt /\ minted' = minted + 1
          /\ slot' = [slot EXCEPT ![e] = Offering(minted + 1)]
          /\ native' = native \cup {Pc(e, minted + 1)}
          /\ expiry' = Deadline(e)
          /\ signals' \in Sending(Signal(e, "offer", minted + 1))
          /\ Lost(e, Told(e, FALSE))
       \/ Retire(e, FALSE) /\ UNCHANGED <<minted, native, signals>>
    /\ UNCHANGED <<replaced, faults, nonces, frames, checks>>

\* _reapTick on a channel that never opened.
Expired(e) == ~Free(e) /\ ~slot[e].up /\ e \in expiry

NegotiationTimeout(e) ==
    /\ Expired(e) /\ Retire(e, TRUE)
    /\ UNCHANGED <<replaced, minted, faults, signals, native, nonces, frames, checks>>

\* The channel of this node's slot is dead: it failed, or the other end let go.
Dead(e) == slot[e].failed \/ Pc(Other(e), slot[e].k) \notin native \/ slot[Other(e)].k # slot[e].k

\* 'closed', when the other end closed; else the heartbeat's eviction.
ChannelLost(e) ==
    /\ slot[e].up /\ Dead(e) /\ Retire(e, TRUE)
    /\ UNCHANGED <<replaced, minted, faults, signals, native, nonces, frames, checks>>

\* The bind deadline of an open channel whose identity is not bound.
BindTimeout(e) ==
    /\ slot[e].up /\ slot[e].bindTimer /\ ~slot[e].boundAt /\ Retire(e, TRUE)
    /\ UNCHANGED <<replaced, minted, faults, signals, native, nonces, frames, checks>>

\* The bridge's word that the other left: no live channel goes by it.
PeerLeft(e) ==
    /\ ~Free(e) /\ ~(slot[e].up /\ ~slot[e].failed) /\ faults < MaxFault
    /\ faults' = faults + 1
    /\ Retire(e, TRUE)
    /\ UNCHANGED <<replaced, minted, signals, native, nonces, frames, checks>>

\* closeConnection: unbind first, then disconnect.
CloseConnection(e) ==
    /\ e \in binding /\ ~Free(e) /\ faults < MaxFault
    /\ faults' = faults + 1
    /\ slot' = [slot EXCEPT ![e] = NoSlot] /\ expiry' = expiry \ {e}
    /\ binding' = binding \ {e}
    /\ auth' = IF slot[e].up THEN [auth EXCEPT ![e] = NoAuth] ELSE auth
    /\ UNCHANGED <<replaced, minted, signals, native, nonces, frames, checks>>

-----------------------------------------------------------------------------
(***************************************************************************)
(* MeshAuth.                                                               *)
(***************************************************************************)
\* Frames go on the current channel if it is open, else the send throws.
SendFrame(F, S, e, kind, v) ==
    IF S[e].up /\ Pc(Other(e), S[e].k) \in native
    THEN [F EXCEPT ![Other(e)] = Append(@, [k |-> S[e].k, kind |-> kind, v |-> v])] ELSE F

\* The bound on nonces, of both ends together.
CanMint(e) == auth[e].my # 0 \/ nonces["a"] + nonces["b"] < MaxNonce

\* _ensure: a fresh nonce, sent.
Ensured(e) == IF auth[e].my # 0 THEN auth[e] ELSE [NoAuth EXCEPT !.my = nonces[e] + 1]
Minted(e)  == IF auth[e].my # 0 THEN nonces ELSE [nonces EXCEPT ![e] = @ + 1]
HelloSent(F, S, e) == IF auth[e].my # 0 THEN F ELSE SendFrame(F, S, e, "hello", nonces[e] + 1)

\* What both ends sign: the two nonces and the channel's certificates.
Cbv(e, st) ==
    IF st.peer = 0 \/ slot[e].k = 0 \/ slot[e].sdp # "stable" THEN <<>>
    ELSE IF e = "a" THEN <<st.my, st.peer, slot[e].k>> ELSE <<st.peer, st.my, slot[e].k>>

\* _progress: sign once, and verify what is in hand, one verification at a time.
Progress(e, st, F) ==
    LET cbv  == Cbv(e, st)
        go   == ~st.bound /\ cbv # <<>>
        test == go /\ st.sig # <<>> /\ ~st.verifying
    IN  /\ auth' = [auth EXCEPT ![e] = [st EXCEPT !.sigSent = @ \/ go, !.verifying = @ \/ test]]
        /\ frames' = IF go /\ ~st.sigSent THEN SendFrame(F, slot, e, "sig", cbv) ELSE F
        /\ checks' = IF test THEN checks \cup {[node |-> e, my |-> st.my, ok |-> st.sig = cbv]} ELSE checks

\* dc.onopen: the retry is off, and a channel not yet bound gets a bind deadline.
Opened(e) == [slot[e] EXCEPT !.up = TRUE, !.retry = "no", !.bindTimer = ~slot[e].boundAt]

\* The change tells MeshAuth, which says hello unless it has a state under the key.
DcOpen(e) ==
    LET S == [slot EXCEPT ![e] = Opened(e)]
    IN  /\ slot[e].sdp = "stable" /\ ~slot[e].up /\ ~slot[e].failed
        /\ slot[Other(e)].k = slot[e].k /\ slot[Other(e)].sdp = "stable"
        /\ CanMint(e)
        /\ slot' = S /\ expiry' = expiry \ {e}
        /\ auth' = [auth EXCEPT ![e] = Ensured(e)]
        /\ nonces' = Minted(e)
        /\ frames' = HelloSent(frames, S, e)
        /\ UNCHANGED <<replaced, minted, faults, signals, native, checks, binding>>

\* onHello and onHelloSig; a frame of a channel already closed is gone.
OnFrame(e) ==
    /\ frames[e] # <<>> /\ CanMint(e)
    /\ LET f  == Head(frames[e])
           F  == [frames EXCEPT ![e] = Tail(@)]
           st == IF f.kind = "hello" THEN [Ensured(e) EXCEPT !.peer = f.v] ELSE [Ensured(e) EXCEPT !.sig = f.v]
       IN  IF Pc(e, f.k) \in native
           THEN Progress(e, st, HelloSent(F, slot, e)) /\ nonces' = Minted(e)
           ELSE frames' = F /\ UNCHANGED <<auth, checks, nonces>>
    /\ UNCHANGED <<negVars, binding>>

\* Mutant: the state captured before the await is marked, and lives on.
LedgerBindCaptured(e) == [slot EXCEPT ![e].boundAt = TRUE, ![e].bindTimer = FALSE]

\* ledgerBind: the channel that serves the key, if any, leaves the bind deadline.
LedgerBind(e) ==
    IF Free(e) THEN slot ELSE [slot EXCEPT ![e].boundAt = TRUE, ![e].bindTimer = FALSE]

\* verifyAuthHello answers: bindPeer under the key, whatever the key serves by
\* now; the state that asked may be gone.
Verified(v) ==
    LET e == v.node  same == auth[v.node].my = v.my
    IN  /\ v \in checks /\ checks' = checks \ {v}
        /\ binding' = IF v.ok THEN binding \cup {e} ELSE binding
        /\ slot' = IF v.ok THEN LedgerBind(e) ELSE slot
        /\ auth' = IF same THEN [auth EXCEPT ![e].verifying = FALSE, ![e].bound = @ \/ v.ok] ELSE auth
        /\ UNCHANGED <<expiry, replaced, minted, faults, signals, native, nonces, frames>>

MpNext ==
    \/ \E e \in Side : Initiate(e) \/ Accept(e)
    \/ \E m \in signals : OfferIgnored(m) \/ OfferRefused(m) \/ OfferTaken(m) \/ OnAnswer(m) \/ OnReject(m)
    \/ \E e \in Side : ConnFailed(e) \/ RetryTimer(e) \/ NegotiationTimeout(e) \/ ChannelLost(e)
    \/ \E e \in Side : BindTimeout(e) \/ PeerLeft(e) \/ CloseConnection(e)
    \/ \E e \in Side : DcOpen(e) \/ OnFrame(e)
    \/ \E p \in native : NativeClose(p)
    \/ \E v \in checks : Verified(v)

MpSpec == MpInit /\ [][MpNext]_mpVars

-----------------------------------------------------------------------------
\* The types; a key that _peers does not hold has nothing: no timer, no retry and
\* no binding outlives the state it was made for; and the reaper's deadline is
\* of a key that is held and not open.
MpTypeOK ==
    /\ \A e \in Side : slot[e] \in [role : {"none", "offerer", "responder"}, k : 0..MaxAttempt,
                          sdp : {"none", "local", "stable"}, up : BOOLEAN, failed : BOOLEAN,
                          retry : {"no", "armed"}, bindTimer : BOOLEAN, boundAt : BOOLEAN]
    /\ \A e \in Side : Free(e) => slot[e] = NoSlot
    /\ \A e \in expiry : ~Free(e) /\ ~slot[e].up
    /\ expiry \subseteq Side /\ binding \subseteq Side
    /\ signals \subseteq [to : Side, kind : {"offer", "answer", "reject"}, k : Attempt]
    /\ native \subseteq [node : Side, k : Attempt]
    /\ checks \subseteq [node : Side, my : 1..MaxNonce, ok : BOOLEAN]
    /\ minted \in 0..MaxAttempt /\ faults \in 0..MaxFault

\* No key is held without a timer that gives it back: a negotiation has its
\* deadline, through replacements, lost signals, rejects and the retry, for
\* offerer and responder; an open channel is bound or has its bind deadline, also
\* when a frame of an older channel left a state behind that keeps this end
\* from saying hello.  hasPeer() would else keep it from ever dialing that peer.
KeysTimed == \A e \in Side :
    /\ ~Free(e) /\ ~slot[e].up => e \in expiry
    /\ slot[e].up => slot[e].boundAt \/ slot[e].bindTimer

=============================================================================
