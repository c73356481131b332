--------------------------- MODULE MCProvisionSaga ---------------------------
(***************************************************************************)
(* Instances of ProvisionSaga for TLC.                                     *)
(***************************************************************************)
EXTENDS ProvisionSaga, TLC

Symmetry == Permutations(Workers)
=============================================================================
