------------------------------- MODULE MCNet -------------------------------
(***************************************************************************)
(* The parts between a peer's API and its channels, for TLC: the composite's *)
(* requests, the socket server, the lookup walk, the signal relay, the      *)
(* admission of peers, the fill of the table, the kill of a message, the    *)
(* client's retries and the life of a topic.  They share no state, so a     *)
(* behaviour moves one and leaves the others in an initial state.           *)
(***************************************************************************)
EXTENDS Carriers, Walks, Seating, Retractions, Lifetime

VARIABLE part

Part == {"requests", "server", "lookup", "relay", "admission", "fill", "kills", "client", "lifetime"}

\* Three peers in one band and a fourth, the farthest, in another.
MCBand == <<1, 1, 1, 2>>

\* A root, its child and the child's child.
MCKids == <<{2}, {3}, {}>>

netVars == <<part, rqVars, ssVars, lkVars, srVars, adVars, flVars, kiVars, clVars, ltVars>>

NetInit ==
    /\ part \in Part
    /\ RqInit /\ SsInit /\ LkInit /\ SrInit /\ AdInit /\ FlInit /\ KiInit /\ ClInit /\ LtInit
    /\ part # "lookup" => link = {}
    /\ part # "relay" => channel = {} /\ serves = {}
    /\ part # "admission" => gated /\ armed

NetNext ==
    /\ part' = part
    /\ IF part = "requests" THEN RqNext ELSE UNCHANGED rqVars
    /\ IF part = "server" THEN SsNext ELSE UNCHANGED ssVars
    /\ IF part = "lookup" THEN LkNext ELSE UNCHANGED lkVars
    /\ IF part = "relay" THEN SrNext ELSE UNCHANGED srVars
    /\ IF part = "admission" THEN AdNext ELSE UNCHANGED adVars
    /\ IF part = "fill" THEN FlNext ELSE UNCHANGED flVars
    /\ IF part = "kills" THEN KiNext ELSE UNCHANGED kiVars
    /\ IF part = "client" THEN ClNext ELSE UNCHANGED clVars
    /\ IF part = "lifetime" THEN LtNext ELSE UNCHANGED ltVars

NetSpec == NetInit /\ [][NetNext]_netVars

\* Every variable of the nine components stays in its type.
NetTypeOK ==
    /\ RqTypeOK /\ SsTypeOK /\ LkTypeOK /\ SrTypeOK /\ AdTypeOK /\ FlTypeOK
    /\ KiTypeOK /\ ClTypeOK /\ LtTypeOK
=============================================================================
