------------------------------- MODULE MCPairs ------------------------------
(***************************************************************************)
(* Two that have to agree, for TLC: a behaviour moves two roots that merge,  *)
(* or the two ends of a channel, and leaves the other component in its       *)
(* initial state.                                                            *)
(***************************************************************************)
EXTENDS MergeMachine, MeshPair

VARIABLE pair

pairsVars == <<pair, vars, mpVars>>

PairsInit ==
    /\ pair \in {"merge", "channel"}
    /\ Init /\ MpInit /\ issued = {}

PairsNext ==
    \/ pair = "merge" /\ Next /\ UNCHANGED <<pair, mpVars>>
    \/ pair = "channel" /\ MpNext /\ UNCHANGED <<pair, vars>>

PairsSpec == PairsInit /\ [][PairsNext]_pairsVars

\* Every variable of the merge and the channel stays in its type.
PairsTypeOK == TypeOK /\ MpTypeOK
=============================================================================
