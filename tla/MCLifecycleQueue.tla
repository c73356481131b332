-------------------------- MODULE MCLifecycleQueue --------------------------
(***************************************************************************)
(* Instances of LifecycleQueue for TLC.                                    *)
(***************************************************************************)
EXTENDS LifecycleQueue, TLC

\* Workers and jobs are interchangeable: no definition orders or names them.
Symmetry == Permutations(Workers) \cup Permutations(Jobs)
=============================================================================
