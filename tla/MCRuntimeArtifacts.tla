------------------------- MODULE MCRuntimeArtifacts -------------------------
(***************************************************************************)
(* Instances of RuntimeArtifacts for TLC.                                  *)
(***************************************************************************)
EXTENDS RuntimeArtifacts, TLC

\* Writers and contents are interchangeable.
Symmetry == Permutations(Writers) \cup Permutations(Contents)
=============================================================================
