---------------------------- MODULE Retractions ----------------------------
(***************************************************************************)
(* The two places that keep a retraction: the tombstones of the delivery     *)
(* tree (Kills) and the pending publishes of a client (Client).              *)
(***************************************************************************)
EXTENDS Kills, Client

\* A retracted message is not given back, by a holder that was told
\* (_applyDel, _onDeliver) or by a client's retry (kill, _settlePublish).
RetractionsHold == KilledStaysDead /\ RetractionOutlivesBody
=============================================================================
