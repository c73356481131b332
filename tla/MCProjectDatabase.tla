-------------------------- MODULE MCProjectDatabase --------------------------
(***************************************************************************)
(* Instances of ProjectDatabase for TLC.                                   *)
(***************************************************************************)
EXTENDS ProjectDatabase, TLC

\* Clients run the same code.
Symmetry == Permutations(Clients)
=============================================================================
