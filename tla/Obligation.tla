----------------------------- MODULE Obligation -----------------------------
(***************************************************************************)
(* What the durability ledger promises (header of pubsub/durability.js):     *)
(* "Durability : pending -> verified | expired | cancelled".  An obligation  *)
(* opens once, with the stamp of its message; it ends once; what has ended   *)
(* may be forgotten, what stands may not, except by a node that leaves.      *)
(***************************************************************************)
CONSTANTS
    Holder,   \* the roles of the node
    Message   \* the messages of a role

VARIABLES
    stamped,  \* stamped[h]: messages stamped so far
    life      \* life[h][m]: the state of the obligation, "none" when there is no entry

obVars == <<stamped, life>>

Ended == {"verified", "expired", "cancelled"}

ObInit ==
    /\ stamped = [h \in Holder |-> {}]
    /\ life = [h \in Holder |-> [m \in Message |-> "none"]]

\* Entries that have ended may be forgotten, anywhere on the node.
Forgets(old, new) ==
    \A h \in Holder, m \in Message : new[h][m] = old[h][m] \/ (old[h][m] \in Ended /\ new[h][m] = "none")

\* A message is stamped: its obligation opens, or the node has no room for it.
StampOne(h, m) ==
    /\ m \notin stamped[h] /\ stamped' = [stamped EXCEPT ![h] = @ \cup {m}]
    /\ life' \in [Holder -> [Message -> Ended \cup {"none", "pending"}]]
    /\ \/ Forgets(life, life')
       \/ life[h][m] = "none" /\ life'[h][m] = "pending"
          /\ Forgets(life, [life' EXCEPT ![h][m] = "none"])

\* Some obligations of one role end, all in the same way.
EndSome(h, S, how) ==
    /\ \A m \in S : life[h][m] = "pending"
    /\ life' = [life EXCEPT ![h] = [m \in Message |-> IF m \in S THEN how ELSE @[m]]]
    /\ UNCHANGED stamped

\* leave() forgets everything.
Clear ==
    /\ life' = [h \in Holder |-> [m \in Message |-> "none"]]
    /\ UNCHANGED stamped

ObNext ==
    \/ \E h \in Holder, m \in Message : StampOne(h, m)
    \/ \E h \in Holder, S \in SUBSET Message, how \in Ended : EndSome(h, S, how)
    \/ Clear

ObSpec == ObInit /\ [][ObNext]_obVars

=============================================================================
