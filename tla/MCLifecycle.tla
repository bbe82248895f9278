----------------------------- MODULE MCLifecycle -----------------------------
(* An instance of LifecycleRefinement for TLC.                              *)
EXTENDS LifecycleRefinement, TLC

CONSTANTS i1, i2, s1, s2

MCMilestones == {"first-milestone.md"}

Symmetry == Permutations(Invocations) \cup Permutations(Sessions)
=============================================================================
