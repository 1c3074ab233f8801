-------------------------- MODULE MCSubscriptions ---------------------------
(* Small instances of Subscriptions for TLC.                               *)
EXTENDS Subscriptions, TLC

(* Identifiers are interchangeable. Used only in runs of safety properties.*)
Symmetry == Permutations(Ids)
=============================================================================
