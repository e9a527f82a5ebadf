------------------------------- MODULE MCSeal -------------------------------
(* Seal on a small instance.                                               *)
EXTENDS Seal, TLC

Symmetry == Permutations(Hosts)
=============================================================================
