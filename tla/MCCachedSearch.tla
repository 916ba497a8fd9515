--------------------------- MODULE MCCachedSearch ---------------------------
(* CachedSearch on small instances. *)
EXTENDS CachedSearch, TLC

CONSTANTS a, b, w1, j1, j2

Symmetry == Permutations(Products) \cup Permutations(Jobs)
=============================================================================
