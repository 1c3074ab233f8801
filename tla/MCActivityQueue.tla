-------------------------- MODULE MCActivityQueue ---------------------------
(* Instances of ActivityQueue for TLC: two requests of up to two           *)
(* activities, one of the activities with a wrong secret.                  *)
EXTENDS ActivityQueue, TLC

CONSTANTS a1, a2, a3, forged, r1, r2

MCActivities == {a1, a2, a3, forged}
MCForged == {forged}
MCRequests == {r1, r2}
MixedBatch == r1 :> <<a1, a2>> @@ r2 :> <<a3, forged>>
=============================================================================
