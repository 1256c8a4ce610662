--------------------------- MODULE MCMergeMachine ---------------------------
(* Instances of MergeMachine for TLC.                                       *)
EXTENDS MergeMachine, TLC

CONSTANTS l1, l2, c1, c2, x, y

\* Bound: one fault of any kind, and a frame that comes twice among two writes.
OneFault ==
    /\ dups + crashes + jumps <= 1
    /\ dups = 1 => Cardinality(issued) <= 2
=============================================================================
