------------------------------- MODULE Walks -------------------------------
(***************************************************************************)
(* What travels from node to node with its path: a lookup, which each node  *)
(* acknowledges and hands on, and a relayed signal, whose every hop waits    *)
(* for the answer of the next.                                               *)
(***************************************************************************)
EXTENDS Lookup, SignalRelay

\* A lookup and a relayed signal claim only what happened.
WalksHonest == WalkHonest /\ RelayHonest
=============================================================================
