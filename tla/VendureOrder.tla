---------------------------- MODULE VendureOrder ----------------------------
(***************************************************************************)
(* The part of @vendure/core the payment plugins drive: an order, its      *)
(* state machine and the payments recorded on it.  @vendure/core is a      *)
(* dependency of this repository, not part of it, so every operator here   *)
(* is modelled from how the plugins (and their e2e tests) use it:          *)
(* OrderService.transitionToState, addPaymentToOrder, settlePayment and    *)
(* totalCoveredByPayments, with the default order process.                 *)
(*                                                                         *)
(* An order is a record                                                    *)
(*   state     its position in the order process                           *)
(*   total     totalWithTax                                                *)
(*   ready     it has lines, a customer and a shipping method, which the   *)
(*             process demands before ArrangingPayment                     *)
(*   placed    orderPlacedAt is set                                        *)
(*   payments  the payments recorded on it, oldest first                   *)
(***************************************************************************)
EXTENDS Integers, Sequences, FiniteSetsExt

OrderState == {"Draft", "AddingItems", "ArrangingPayment", "PaymentAuthorized",
               "PaymentSettled", "ArrangingAdditionalPayment", "Cancelled"}

PaymentState == {"Authorized", "Settled"}

(* The orders whose total is taken from Totals and whose payments carry    *)
(* one of the transaction ids in Txs.                                      *)
OrderRecord(Totals, Txs) ==
    [state : OrderState, total : Totals, ready : BOOLEAN, placed : BOOLEAN,
     payments : Seq([tx : Txs, amount : Nat, state : PaymentState])]

(* The default order process: which state may follow which. *)
NextStates ==
    [Draft                      |-> {"ArrangingPayment", "Cancelled"},
     AddingItems                |-> {"ArrangingPayment", "Cancelled"},
     ArrangingPayment           |-> {"PaymentAuthorized", "PaymentSettled",
                                     "AddingItems", "Cancelled"},
     PaymentAuthorized          |-> {"PaymentSettled", "Cancelled",
                                     "ArrangingAdditionalPayment"},
     PaymentSettled             |-> {"Cancelled", "ArrangingAdditionalPayment"},
     ArrangingAdditionalPayment |-> {"PaymentAuthorized", "PaymentSettled",
                                     "Cancelled"},
     Cancelled                  |-> {}]

ArrangingStates == {"ArrangingPayment", "ArrangingAdditionalPayment"}

(* totalCoveredByPayments: what the payments in one of the states add up to. *)
CoveredBy(o, states) ==
    MapThenSumSet(LAMBDA i : o.payments[i].amount,
                  {i \in DOMAIN o.payments : o.payments[i].state \in states})

AmountToPay(o) == o.total - CoveredBy(o, PaymentState)

CanTransition(o, to) ==
    /\ to \in NextStates[o.state]
    /\ to = "ArrangingPayment" => o.ready
    /\ to = "PaymentAuthorized" => CoveredBy(o, PaymentState) >= o.total
    /\ to = "PaymentSettled" => CoveredBy(o, {"Settled"}) >= o.total

(* A transition, with the order placed strategy: leaving ArrangingPayment  *)
(* for a paid state sets orderPlacedAt.                                    *)
Transitioned(o, to) ==
    [o EXCEPT !.state  = to,
              !.placed = @ \/ /\ o.state = "ArrangingPayment"
                              /\ to \in {"PaymentAuthorized", "PaymentSettled"}]

(* What OrderService does once a payment was added or settled: move on to  *)
(* the paid state the payments now cover.                                  *)
Progressed(o) ==
    IF CanTransition(o, "PaymentSettled") THEN Transitioned(o, "PaymentSettled")
    ELSE IF CanTransition(o, "PaymentAuthorized") THEN Transitioned(o, "PaymentAuthorized")
    ELSE o

(* addPaymentToOrder answers OrderPaymentStateError in every other state. *)
CanAddPayment(o) == o.state \in ArrangingStates

WithPayment(o, p) == Progressed([o EXCEPT !.payments = Append(@, p)])

(* settlePayment saves the payment, then moves the order. *)
Settling(o, i) == [o EXCEPT !.payments[i].state = "Settled"]

WithSettled(o, i) == Progressed(Settling(o, i))

(* The positions at which transaction tx is recorded. *)
RecordsOf(o, tx) == {i \in DOMAIN o.payments : o.payments[i].tx = tx}
=============================================================================
