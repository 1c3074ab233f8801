----------------------------- MODULE MCAccounts -----------------------------
(* Instances of Accounts for TLC. The processes are interchangeable.       *)
EXTENDS Accounts, TLC

Symmetry == Permutations(Procs)
=============================================================================
