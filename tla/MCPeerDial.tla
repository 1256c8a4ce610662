---------------------------- MODULE MCPeerDial ----------------------------
(* Instances of PeerDial for TLC.                                          *)
EXTENDS PeerDial, TLC

CONSTANTS a, b
===========================================================================
