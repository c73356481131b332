------------------------- MODULE MCOperationRequests -------------------------
(***************************************************************************)
(* Instances of OperationRequests for TLC.                                 *)
(***************************************************************************)
EXTENDS OperationRequests, TLC

Symmetry ==
    Permutations(Projects) \cup Permutations(Actors) \cup Permutations(Keys)
    \cup Permutations(Grants) \cup Permutations(Handlers)
=============================================================================
