-------------------------- MODULE MCOwnerProcess --------------------------
(***************************************************************************)
(* Bounded instances of OwnerProcess.                                      *)
(***************************************************************************)
EXTENDS OwnerProcess, TLC

Symmetry == Permutations(Processes) \cup Permutations(Clients)
=============================================================================
