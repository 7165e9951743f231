------------------------- MODULE MCExecutionService -------------------------
(* Instances of ExecutionService for TLC. *)
EXTENDS ExecutionService, TLC

Symmetry == Permutations(Workers) \cup Permutations(RebuildIds)
\* For runs without liveness: inputs are only compared.
InputSymmetry == Permutations(Inputs)
=============================================================================
