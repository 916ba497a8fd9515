-------------------------- MODULE MCMolliePayments --------------------------
(* MolliePayments on small instances. *)
EXTENDS MolliePayments, TLC

Symmetry == Permutations(Pids) \cup Permutations(Workers)
=============================================================================
