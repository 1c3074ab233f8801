---------------------------- MODULE MCAdmission -----------------------------
(* Small instances of Admission for TLC.                                   *)
EXTENDS Admission, TLC

(* Users are interchangeable, and so are request goroutines. Used only in  *)
(* runs without liveness properties.                                       *)
Symmetry == Permutations(Users) \cup Permutations(Procs)
=============================================================================
