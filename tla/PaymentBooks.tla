---------------------------- MODULE PaymentBooks ----------------------------
(***************************************************************************)
(* What a payment plugin promises the shop, whatever the payment service   *)
(* provider and however its notifications arrive: the books never run      *)
(* ahead of the bank.  A payment is booked as authorized only after the    *)
(* provider reserved the money, as settled only after it took the money,   *)
(* and what was booked is never unbooked.  Nothing is said of when a       *)
(* payment is booked, or whether it is.                                    *)
(***************************************************************************)
CONSTANT Pids      \* the provider's payments

VARIABLES
    charge,        \* what the provider did with the customer's money
    booked         \* how the shop has the payment on its order

vars == <<charge, booked>>

Init ==
    /\ charge = [p \in Pids |-> "none"]
    /\ booked = [p \in Pids |-> "none"]

Hold(p) ==
    /\ charge[p] = "none"
    /\ charge' = [charge EXCEPT ![p] = "held"]
    /\ UNCHANGED booked

Take(p) ==
    /\ charge[p] \in {"none", "held"}
    /\ charge' = [charge EXCEPT ![p] = "taken"]
    /\ UNCHANGED booked

Release(p) ==
    /\ charge[p] = "held"
    /\ charge' = [charge EXCEPT ![p] = "released"]
    /\ UNCHANGED booked

(* The shop may learn of a reservation after it lapsed. *)
BookAuthorized(p) ==
    /\ charge[p] # "none"
    /\ booked[p] = "none"
    /\ booked' = [booked EXCEPT ![p] = "authorized"]
    /\ UNCHANGED charge

BookSettled(p) ==
    /\ charge[p] = "taken"
    /\ booked[p] # "settled"
    /\ booked' = [booked EXCEPT ![p] = "settled"]
    /\ UNCHANGED charge

Next ==
    \E p \in Pids : \/ Hold(p) \/ Take(p) \/ Release(p)
                    \/ BookAuthorized(p) \/ BookSettled(p)

Spec == Init /\ [][Next]_vars
=============================================================================
