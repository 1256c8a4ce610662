--------------------------- MODULE MCWriteFlight ---------------------------
(* Instances of WriteFlight for TLC.                                        *)
EXTENDS WriteFlight

CONSTANTS p, q
=============================================================================
