-------------------------- MODULE MCStripePayments --------------------------
(* StripePayments on small instances. *)
EXTENDS StripePayments, TLC

Symmetry == Permutations(Pids) \cup Permutations(Workers)
=============================================================================
