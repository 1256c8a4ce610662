---------------------------- MODULE SocketServer ----------------------------
(***************************************************************************)
(* WebSocketTransport in authenticate mode: the bridge's side of the sockets *)
(* that one client opens, one after the other.  Each connection runs the     *)
(* symmetric handshake (two nonces, two signatures), whose signing and       *)
(* verifying are awaited; the identity it proves is bound to the connection, *)
(* and requests to the client go by the connection bound last.               *)
(*                                                                           *)
(* The frames of one connection arrive in order.  The close of a connection  *)
(* is seen when the operating system reports it, which for a client that     *)
(* went away may be long after the client has come back by another one.      *)
(***************************************************************************)
EXTENDS Naturals

CONSTANTS
    MaxConn,     \* bound: connections the client opens
    MaxCall,     \* bound: requests to the client
    Overlap      \* a client may come back before its old connection is seen to close

ASSUME SocketServerAssumption == MaxConn \in Nat /\ MaxCall \in Nat /\ Overlap \in BOOLEAN

Conn == 1..MaxConn
Call == 1..MaxCall

\* The handshake's state of one connection, at the server.
Fresh == [here |-> TRUE, hello |-> FALSE, sig |-> "none", sigSent |-> FALSE, verifying |-> FALSE, bound |-> FALSE]

Gone == [Fresh EXCEPT !.here = FALSE]

VARIABLES
    up,         \* connections that are open
    opened,     \* connections opened so far
    auth,       \* [Conn -> the handshake's state; here: there is one]
    came,       \* [Conn -> the client's frames the server has read]
    signing,    \* connections for which buildAuthHello is awaited
    checking,   \* connections for which verifyAuthHello is awaited
    connOf,     \* the connection of the client's identity, or 0
    nodeOf,     \* connections the client's identity is recorded for
    calls,      \* [Call -> the state of a request to the client]
    asked       \* [Call -> the connection it was written to, or 0]

ssVars == <<up, opened, auth, came, signing, checking, connOf, nodeOf, calls, asked>>

SsInit ==
    /\ up = {} /\ opened = 0
    /\ auth = [c \in Conn |-> Gone] /\ came = [c \in Conn |-> 0]
    /\ signing = {} /\ checking = {}
    /\ connOf = 0 /\ nodeOf = {}
    /\ calls = [q \in Call |-> "unsent"] /\ asked = [q \in Call |-> 0]

Has(c) == auth[c].here

\* beginAuth: the state, with our nonce sent; idempotent.
Begun(c) == IF Has(c) THEN auth[c] ELSE Fresh

\* A connection opens and the handshake begins.
Opened ==
    /\ opened < MaxConn /\ (Overlap \/ up = {})
    /\ opened' = opened + 1 /\ up' = up \cup {opened + 1}
    /\ auth' = [auth EXCEPT ![opened + 1] = Fresh]
    /\ UNCHANGED <<came, signing, checking, connOf, nodeOf, calls, asked>>

\* The refused connection is closed by its owner; its close event follows.
AuthReject(c) == auth' = [auth EXCEPT ![c] = Gone]

\* _authMaybeProgress, up to its first await: sign once both nonces are known,
\* else verify the peer's signature if it is here.
Progress(c, st) ==
    LET sign  == ~st.bound /\ st.hello /\ ~st.sigSent
        check == ~st.bound /\ st.hello /\ ~sign /\ st.sig # "none" /\ ~st.verifying
    IN  /\ auth' = [auth EXCEPT ![c] = [st EXCEPT !.sigSent = @ \/ sign, !.verifying = @ \/ check]]
        /\ signing' = IF sign THEN signing \cup {c} ELSE signing
        /\ checking' = IF check THEN checking \cup {[c |-> c, sig |-> st.sig]} ELSE checking

\* The client's hello; one of another protocol is refused.
OnHello(c, good) ==
    /\ c \in up /\ came[c] = 0 /\ came' = [came EXCEPT ![c] = 1]
    /\ IF good THEN Progress(c, [Begun(c) EXCEPT !.hello = TRUE])
       ELSE AuthReject(c) /\ UNCHANGED <<signing, checking>>
    /\ UNCHANGED <<up, opened, connOf, nodeOf, calls, asked>>

\* The client's signature: it follows the client's hello.
OnSig(c, proof) ==
    /\ c \in up /\ came[c] = 1 /\ came' = [came EXCEPT ![c] = 2]
    /\ Progress(c, [Begun(c) EXCEPT !.sig = proof])
    /\ UNCHANGED <<up, opened, connOf, nodeOf, calls, asked>>

\* buildAuthHello returns.  A connection refused meanwhile is left alone; a
\* failure to sign or to send refuses it.
Signed(c, ok) ==
    /\ c \in signing
    /\ IF ~Has(c) THEN signing' = signing \ {c} /\ UNCHANGED <<auth, checking>>
       ELSE IF ~ok \/ c \notin up THEN signing' = signing \ {c} /\ AuthReject(c) /\ UNCHANGED checking
       ELSE LET st == auth[c]
                check == st.sig # "none" /\ ~st.bound /\ ~st.verifying
            IN  /\ signing' = signing \ {c}
                /\ auth' = [auth EXCEPT ![c].verifying = @ \/ check]
                /\ checking' = IF check THEN checking \cup {[c |-> c, sig |-> st.sig]} ELSE checking
    /\ UNCHANGED <<up, opened, came, connOf, nodeOf, calls, asked>>

\* (mutant) what was refused or closed during the await is bound all the same.
StillHereUnchecked(c) == TRUE

\* Is the handshake that verifyAuthHello was awaited for still there?
StillHere(c) == Has(c)

BindPeer(c) == connOf' = c /\ nodeOf' = nodeOf \cup {c}

\* verifyAuthHello returns: the proven identity is bound, a bad proof refused.
Verified(k) ==
    /\ k \in checking /\ checking' = checking \ {k}
    /\ IF ~StillHere(k.c) THEN UNCHANGED <<auth, connOf, nodeOf>>
       ELSE IF k.sig = "bad" THEN AuthReject(k.c) /\ UNCHANGED <<connOf, nodeOf>>
       ELSE /\ auth' = [auth EXCEPT ![k.c].bound = Has(k.c)]
            /\ BindPeer(k.c)
    /\ UNCHANGED <<up, opened, came, signing, calls, asked>>

(***************************************************************************)
(* Requests to the client.                                                   *)
(***************************************************************************)
IsConnected == connOf # 0 /\ connOf \in up

ServerSend(q) ==
    /\ calls[q] = "unsent" /\ \A p \in 1..(q - 1) : calls[p] # "unsent"
    /\ IF IsConnected
       THEN calls' = [calls EXCEPT ![q] = "waiting"] /\ asked' = [asked EXCEPT ![q] = connOf]
       ELSE calls' = [calls EXCEPT ![q] = "rejected"] /\ UNCHANGED asked
    /\ UNCHANGED <<up, opened, auth, came, signing, checking, connOf, nodeOf>>

\* The client's answer, or the request's timer.
ServerSettled(q, how) ==
    /\ calls[q] = "waiting" /\ (how = "resolved" => asked[q] \in up)
    /\ calls' = [calls EXCEPT ![q] = how]
    /\ UNCHANGED <<up, opened, auth, came, signing, checking, connOf, nodeOf, asked>>

\* unbindPeer clears the identity's route whichever connection it points to.
UnbindPeer(c) ==
    /\ connOf' = IF c \in nodeOf THEN 0 ELSE connOf
    /\ nodeOf' = nodeOf \ {c}

\* handleConnClosed: a death, the identity's requests rejected, the route gone.
ConnClosed(c) ==
    /\ c \in up /\ up' = up \ {c}
    /\ calls' = [q \in Call |-> IF c \in nodeOf /\ calls[q] = "waiting" THEN "rejected" ELSE calls[q]]
    /\ auth' = [auth EXCEPT ![c] = Gone]
    /\ UnbindPeer(c)
    /\ UNCHANGED <<opened, came, signing, checking, asked>>

\* closeConnection unbinds and leaves the socket to its owner.
ServerCloses ==
    /\ connOf # 0 /\ UnbindPeer(connOf)
    /\ UNCHANGED <<up, opened, auth, came, signing, checking, calls, asked>>

SsNext ==
    \/ Opened
    \/ \E c \in Conn :
          \/ \E good \in BOOLEAN : OnHello(c, good) \/ Signed(c, good)
          \/ \E proof \in {"good", "bad"} : OnSig(c, proof)
          \/ ConnClosed(c)
    \/ \E k \in checking : Verified(k)
    \/ \E q \in Call : ServerSend(q) \/ \E how \in {"resolved", "rejected"} : ServerSettled(q, how)
    \/ ServerCloses

SsSpec == SsInit /\ [][SsNext]_ssVars

(***************************************************************************)
(* Properties.                                                               *)
(***************************************************************************)
\* Every variable stays in its type.
SsTypeOK ==
    /\ up \subseteq Conn /\ opened \in 0..MaxConn
    /\ auth \in [Conn -> [here : BOOLEAN, hello : BOOLEAN, sig : {"none", "good", "bad"},
                         sigSent : BOOLEAN, verifying : BOOLEAN, bound : BOOLEAN]]
    /\ came \in [Conn -> 0..2] /\ signing \subseteq Conn
    /\ checking \subseteq [c : Conn, sig : {"good", "bad"}]
    /\ connOf \in 0..MaxConn /\ nodeOf \subseteq Conn
    /\ calls \in [Call -> {"unsent", "waiting", "resolved", "rejected"}]
    /\ asked \in [Call -> 0..MaxConn]

\* The identity is on record only for connections that are open and whose
\* client has sent a signature that proves it, whatever was refused or closed
\* while the signature was being checked; and its route is one of them.
BoundIsOpen ==
    /\ connOf # 0 => connOf \in nodeOf
    /\ \A c \in nodeOf : c \in up /\ came[c] = 2

=============================================================================
