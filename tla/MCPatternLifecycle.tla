------------------------- MODULE MCPatternLifecycle -------------------------
(* Instances of PatternLifecycle for TLC. *)
EXTENDS PatternLifecycle, TLC

\* The rules of any two patterns disagree.
Rivals == {s \in SUBSET Patterns : Cardinality(s) = 2}

Symmetry == Permutations(Patterns)
=============================================================================
