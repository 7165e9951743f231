------------------------- MODULE MCActualCompletion -------------------------
(* Instances of ActualCompletion for TLC. *)
EXTENDS ActualCompletion, TLC

Symmetry == Permutations(Callers) \cup Permutations(Keys) \cup Permutations(Others)
=============================================================================
