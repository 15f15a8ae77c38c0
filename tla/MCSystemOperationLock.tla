------------------------- MODULE MCSystemOperationLock -------------------------
(***************************************************************************)
(* SystemOperationLock for TLC: operations are interchangeable.            *)
(***************************************************************************)
EXTENDS SystemOperationLock, TLC

Symmetry == Permutations(Procs)

=============================================================================
