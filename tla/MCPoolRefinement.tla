-------------------------- MODULE MCPoolRefinement --------------------------
(* Model values for the TLC run of PoolRefinement.                         *)
EXTENDS PoolRefinement, TLC

CONSTANTS c1, c2, c3, p1, p2

ThreadSymmetry == Permutations(Calls) \cup Permutations(Stoppers)
=============================================================================
