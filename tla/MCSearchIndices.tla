-------------------------- MODULE MCSearchIndices --------------------------
(* Two products, two processes and two reindex jobs, interchangeable each. *)
EXTENDS SearchIndices, TLC

CONSTANTS p1, p2, w1, w2, r1, r2

Symmetry == Permutations({p1, p2}) \cup Permutations({w1, w2}) \cup Permutations({r1, r2})
=============================================================================
