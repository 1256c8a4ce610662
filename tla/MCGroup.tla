------------------------------- MODULE MCGroup ------------------------------
(***************************************************************************)
(* One among several, for TLC: a behaviour moves the channels of a node,      *)
(* or the readers of a topic, or the relays that depart one after the other, *)
(* and leaves the other components in their initial states.                  *)
(***************************************************************************)
EXTENDS ChannelLedger, DeliveryTree, Handoff, TLC

CONSTANTS t1, t2, t3, m1, m2, n1

\* Two handles of one identity: the duplicate channels that glare produces.
MCSameNode == [m \in MeshId |-> n1]
MCPoolTight == [k \in Cls |-> IF k = "M" THEN 1 ELSE 2]

\* Channels are interchangeable, and so are readers and relays; they share names.
Symm == Permutations(Token)

VARIABLE part

groupVars == <<part, vars, dtVars, hoVars>>

GroupInit == part \in {"ledger", "tree", "handoff"} /\ Init /\ DtInit /\ HoInit

GroupNext ==
    \/ part = "ledger" /\ Next /\ UNCHANGED <<part, dtVars, hoVars>>
    \/ part = "tree" /\ DtNext /\ UNCHANGED <<part, vars, hoVars>>
    \/ part = "handoff" /\ HoNext /\ UNCHANGED <<part, vars, dtVars>>

GroupSpec == GroupInit /\ [][GroupNext]_groupVars

\* Every variable of the ledger, the tree and the handoffs stays in its type.
GroupTypeOK == TypeOK /\ DtTypeOK /\ HoTypeOK

=============================================================================
