----------------------------- MODULE MCControl -----------------------------
\* Model-checking instance of Control: two interchangeable threads at most.
EXTENDS Control, TLC

ThreadSymmetry == Permutations(Threads)
=============================================================================
