------------------------- MODULE MCControlClients -------------------------
(* Instances of ControlClients for TLC.                                    *)
EXTENDS ControlClients, TLC

\* Connections are interchangeable.
Symmetry == Permutations(Sessions)
=============================================================================
