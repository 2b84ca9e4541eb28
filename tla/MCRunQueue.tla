----------------------------- MODULE MCRunQueue -----------------------------
(* Model values and symmetry for RunQueue. *)
EXTENDS RunQueue, TLC

Symmetry == Permutations(Slots)
=============================================================================
