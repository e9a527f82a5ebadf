---------------------------- MODULE MCAdmission -----------------------------
(* Admission on small instances.                                           *)
EXTENDS Admission, TLC

Symmetry == Permutations(Users) \cup Permutations(Requests)
=============================================================================
