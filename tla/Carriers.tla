----------------------------- MODULE Carriers -----------------------------
(***************************************************************************)
(* The two places that say which transport carries a peer: the composite's   *)
(* route table (Requests) and the socket server's bindings (SocketServer).   *)
(***************************************************************************)
EXTENDS Requests, SocketServer

\* Who carries a peer: the composite's routes agree with those of its
\* sub-transports (_routeBind, _onSubDeath), and the socket server binds an
\* identity only to a connection that is open (bindPeer, handleConnClosed).
CarriersAgree == RoutesAgree /\ BoundIsOpen
===========================================================================
