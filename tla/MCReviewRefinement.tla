------------------------- MODULE MCReviewRefinement -------------------------
(* Model-checking instances of ReviewRefinement. *)
EXTENDS ReviewRefinement, ReviewInvariant, TLC

Symmetry == Permutations(Workers) \cup Permutations(DecisionIds)
=============================================================================
