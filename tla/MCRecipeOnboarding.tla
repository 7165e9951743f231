------------------------- MODULE MCRecipeOnboarding -------------------------
(* Instances of RecipeOnboarding for TLC. *)
EXTENDS RecipeOnboarding, TLC

Symmetry == Permutations(Workers) \cup Permutations(Contents)
=============================================================================
