-------------------------- MODULE MCAttemptBudget ---------------------------
(* AttemptBudget on a small instance: one subject from two addresses.      *)
EXTENDS AttemptBudget, TLC

CONSTANTS s1, i1, i2

OneSubject == {[subject |-> s1, address |-> i] : i \in {i1, i2}}

Symmetry == Permutations(Attempts) \cup Permutations({i1, i2})
=============================================================================
