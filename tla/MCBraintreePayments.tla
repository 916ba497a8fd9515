------------------------ MODULE MCBraintreePayments ------------------------
(* Values for model checking BraintreePayments. *)
EXTENDS BraintreePayments, TLC

Symmetry == Permutations(Payments) \cup Permutations(Records)
            \cup Permutations(Admins) \cup Permutations(Clients)
=============================================================================
