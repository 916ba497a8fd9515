--------------------------- MODULE StripePayments ---------------------------
(***************************************************************************)
(* stripe-plugin: how one order gets paid through Stripe.                  *)
(*                                                                         *)
(* StripeService.createPaymentIntent asks for a payment intent under an    *)
(* idempotency key of order code and amount, the customer pays at Stripe,  *)
(* and StripeController.webhook books the payment.  The webhook runs in a  *)
(* database transaction: it reads the order, verifies the signature, moves *)
(* the order to ArrangingPayment if it was elsewhere, and adds the payment.*)
(* The transition is tried a second time under the default channel, in a   *)
(* context of its own and hence outside the transaction.  What then cannot *)
(* be booked is logged and answered with 200; Stripe repeats an event only *)
(* until it has seen a 2xx, which may get lost.                            *)
(*                                                                         *)
(* Abstractions: one order, which exists in the channel of the metadata;   *)
(* intents of other systems (no Vendure metadata, controller 64-72) never  *)
(* reach the order; a commit is atomic; the webhook secret is the one      *)
(* Stripe signs with, so the verification fails only when the payment      *)
(* method is not eligible (getStripeClient throws, controller 87-94).      *)
(***************************************************************************)
EXTENDS VendureOrder

CONSTANTS
    Pids,              \* payment intents Stripe may create for the order
    Workers,           \* concurrent webhook requests
    Totals,            \* the totals the order can have, in Vendure's units
    Units,             \* Vendure units in Stripe's smallest: 1, or 100 for JPY
    MaxDisturbances    \* bound on edits, moves, toggles, expiries and crashes

ASSUME ConstantsAssumption ==
    /\ Totals \subseteq Nat
    /\ Units \in Nat \ {0}
    /\ MaxDisturbances \in Nat

VARIABLES
    order,         \* the order in the shop's database
    intent,        \* the payment intents at Stripe
    owed,          \* events Stripe has yet to hear a 2xx for
    logged,        \* intents an error "unable to book" was logged for
    refunds,       \* what was refunded: by the shop's books, and by Stripe
    eligible,      \* the Stripe payment method is enabled and eligible
    worker,        \* the webhook requests being handled
    disturbances   \* disturbances so far

vars == <<order, intent, owed, logged, refunds, eligible, worker, disturbances>>

-----------------------------------------------------------------------------
(* Amounts *)

(* Math.round rounds a half up. *)
AmountInStripeMinorUnits(total) == (2 * total + Units) \div (2 * Units)

AmountFromStripeMinorUnits(amount) == amount * Units

-----------------------------------------------------------------------------
(* Types *)

Event == Pids \X {"succeeded", "failed"}

Idle == [pc |-> "idle", event |-> <<>>]

(* One webhook request: the await it is at and the event it is for. *)
Worker == {Idle} \cup [pc : {"read", "transition", "retry", "add"}, event : Event]

(* keyed: Stripe still remembers the idempotency key. *)
Intent == [status : {"none", "open", "succeeded"}, amount : Nat, keyed : BOOLEAN]

TypeOK ==
    /\ order \in OrderRecord(Totals, Pids)
    /\ intent \in [Pids -> Intent]
    /\ owed \subseteq Event
    /\ logged \subseteq Pids
    /\ refunds \in [Pids -> [shop : Nat, stripe : Nat]]
    /\ eligible \in BOOLEAN
    /\ worker \in [Workers -> Worker]
    /\ disturbances \in 0..MaxDisturbances

Init ==
    /\ order \in [state : {"AddingItems"}, total : Totals, ready : BOOLEAN,
                  placed : {FALSE}, payments : {<<>>}]
    /\ intent = [p \in Pids |-> [status |-> "none", amount |-> 0, keyed |-> FALSE]]
    /\ owed = {}
    /\ logged = {}
    /\ refunds = [p \in Pids |-> [shop |-> 0, stripe |-> 0]]
    /\ eligible = TRUE
    /\ worker = [w \in Workers |-> Idle]
    /\ disturbances = 0

Recorded(p) == RecordsOf(order, p) # {}

-----------------------------------------------------------------------------
(* The customer and the administrator, through Vendure's own APIs. *)

Disturb ==
    /\ disturbances < MaxDisturbances
    /\ disturbances' = disturbances + 1

EditOrder ==
    /\ order.state = "AddingItems"
    /\ \E t \in Totals, r \in BOOLEAN :
           order' = [order EXCEPT !.total = t, !.ready = r]
    /\ Disturb
    /\ UNCHANGED <<intent, owed, logged, refunds, eligible, worker>>

MoveOrder ==
    /\ \E to \in {"ArrangingPayment", "AddingItems", "Cancelled"} :
           CanTransition(order, to) /\ order' = Transitioned(order, to)
    /\ Disturb
    /\ UNCHANGED <<intent, owed, logged, refunds, eligible, worker>>

(* modifyOrder raises the total of a paid order. *)
ModifyOrder ==
    /\ CanTransition(order, "ArrangingAdditionalPayment")
    /\ \E t \in Totals :
           /\ t > order.total
           /\ order' = Transitioned([order EXCEPT !.total = t],
                                    "ArrangingAdditionalPayment")
    /\ Disturb
    /\ UNCHANGED <<intent, owed, logged, refunds, eligible, worker>>

ToggleMethod ==
    /\ eligible' = ~eligible
    /\ Disturb
    /\ UNCHANGED <<order, intent, owed, logged, refunds, worker>>

-----------------------------------------------------------------------------
(* Payment intents *)

(* Stripe remembers an intent under `${order.code}_${amount}`. *)
Remembered(amount) ==
    \E q \in Pids : intent[q].keyed /\ intent[q].amount = amount

(* createPaymentIntent of the active order, or of one that awaits an       *)
(* additional payment where the exported StripeService is called: Stripe   *)
(* is asked for the whole total, whatever was paid already.  A remembered  *)
(* key gets the customer the intent that exists; nothing changes then.     *)
(* Stripe refuses an amount of zero.                                       *)
CreatePaymentIntent(p) ==
    /\ eligible
    /\ order.state \in {"AddingItems"} \cup ArrangingStates
    /\ intent[p].status = "none"
    /\ LET amount == AmountInStripeMinorUnits(order.total)
       IN  /\ amount > 0
           /\ ~Remembered(amount)
           /\ intent' = [intent EXCEPT ![p] =
                            [status |-> "open", amount |-> amount, keyed |-> TRUE]]
    /\ UNCHANGED <<order, owed, logged, refunds, eligible, worker, disturbances>>

(* Stripe forgets an idempotency key after a day (external). *)
KeyExpires(p) ==
    /\ intent[p].keyed
    /\ intent' = [intent EXCEPT ![p].keyed = FALSE]
    /\ Disturb
    /\ UNCHANGED <<order, owed, logged, refunds, eligible, worker>>

(* The customer pays at Stripe, or an attempt fails and can be repeated    *)
(* (external).                                                             *)
CustomerPays(p) ==
    /\ intent[p].status = "open"
    /\ intent' = [intent EXCEPT ![p].status = "succeeded"]
    /\ owed' = owed \cup {<<p, "succeeded">>}
    /\ UNCHANGED <<order, logged, refunds, eligible, worker, disturbances>>

AttemptFails(p) ==
    /\ intent[p].status = "open"
    /\ owed' = owed \cup {<<p, "failed">>}
    /\ Disturb
    /\ UNCHANGED <<order, intent, logged, refunds, eligible, worker>>

-----------------------------------------------------------------------------
(* StripeController.webhook *)

ReceiveWebhook(w, e) ==
    /\ e \in owed
    /\ worker[w] = Idle
    /\ worker' = [worker EXCEPT ![w] = [pc |-> "read", event |-> e]]
    /\ UNCHANGED <<order, intent, owed, logged, refunds, eligible, disturbances>>

Goes(w, pc) == worker' = [worker EXCEPT ![w].pc = pc]

Stops(w) == worker' = [worker EXCEPT ![w] = Idle]

(* 200, which Stripe may or may not receive. *)
Answers200(w) ==
    /\ owed' \in {owed, owed \ {worker[w].event}}
    /\ Stops(w)

(* An error is logged and answered with 200; the transaction commits what  *)
(* it holds.                                                               *)
GivesUp(w) ==
    /\ logged' = logged \cup {worker[w].event[1]}
    /\ Answers200(w)

(* The signature cannot be verified without an eligible method: 400. *)
RejectEvent(w) ==
    /\ worker[w].pc = "read"
    /\ ~eligible
    /\ Stops(w)
    /\ UNCHANGED <<order, intent, owed, logged, refunds, eligible, disturbances>>

IgnoreFailure(w) ==
    /\ worker[w].pc = "read"
    /\ eligible
    /\ worker[w].event[2] = "failed"
    /\ Answers200(w)
    /\ UNCHANGED <<order, intent, logged, refunds, eligible, disturbances>>

(* Mutant: a failed attempt is not told from a payment. *)
ReadOrderOfAnyEvent(w) ==
    /\ worker[w].pc = "read"
    /\ eligible
    /\ Goes(w, IF order.state \in ArrangingStates THEN "add" ELSE "transition")
    /\ UNCHANGED <<order, intent, owed, logged, refunds, eligible, disturbances>>

(* The state read here decides whether a transition is tried. *)
ReadOrder(w) ==
    /\ worker[w].pc = "read"
    /\ eligible
    /\ worker[w].event[2] = "succeeded"
    /\ Goes(w, IF order.state \in ArrangingStates THEN "add" ELSE "transition")
    /\ UNCHANGED <<order, intent, owed, logged, refunds, eligible, disturbances>>

(* Mutant: Stripe's status is handed on instead of Vendure's. *)
CreatedPaymentUntranslated(w) ==
    LET p == worker[w].event[1]
    IN  [tx |-> p, amount |-> AmountFromStripeMinorUnits(intent[p].amount),
         state |-> intent[p].status]

(* Mutant: the amount due is booked. *)
CreatedPaymentOfAmountDue(w) ==
    [tx |-> worker[w].event[1], amount |-> AmountToPay(order), state |-> "Settled"]

(* Mutant: Stripe's amount is booked as it is. *)
CreatedPaymentUnconverted(w) ==
    [tx |-> worker[w].event[1], amount |-> intent[worker[w].event[1]].amount,
     state |-> "Settled"]

(* stripePaymentMethodHandler.createPayment *)
CreatedPayment(w) ==
    LET p == worker[w].event[1]
    IN  [tx     |-> p,
         amount |-> AmountFromStripeMinorUnits(intent[p].amount),
         state  |-> "Settled"]

(* addPaymentToOrder on order o, and how the webhook ends.  In another     *)
(* state, or with an ineligible method, the payment is refused and o stays *)
(* as it is; a disabled method makes the whole transaction throw.          *)
AddsTo(w, o) ==
    \/ /\ eligible /\ CanAddPayment(o)
       /\ order' = WithPayment(o, CreatedPayment(w))
       /\ Answers200(w)
       /\ UNCHANGED logged
    \/ /\ ~eligible \/ ~CanAddPayment(o)
       /\ order' = o
       /\ GivesUp(w)
    \/ /\ ~eligible
       /\ Stops(w)
       /\ UNCHANGED <<order, owed, logged>>

(* The transition and the payment, committed together. *)
TransitionAndAdd(w) ==
    /\ worker[w].pc = "transition"
    /\ CanTransition(order, "ArrangingPayment")
    /\ AddsTo(w, Transitioned(order, "ArrangingPayment"))
    /\ UNCHANGED <<intent, refunds, eligible, disturbances>>

TransitionFails(w) ==
    /\ worker[w].pc = "transition"
    /\ ~CanTransition(order, "ArrangingPayment")
    /\ Goes(w, "retry")
    /\ UNCHANGED <<order, intent, owed, logged, refunds, eligible, disturbances>>

(* The second attempt, under the default channel, is committed at once. *)
RetryTransition(w) ==
    /\ worker[w].pc = "retry"
    /\ CanTransition(order, "ArrangingPayment")
    /\ order' = Transitioned(order, "ArrangingPayment")
    /\ Goes(w, "add")
    /\ UNCHANGED <<intent, owed, logged, refunds, eligible, disturbances>>

(* Mutant: nothing is logged. *)
RetryFailsSilently(w) ==
    /\ worker[w].pc = "retry"
    /\ ~CanTransition(order, "ArrangingPayment")
    /\ Answers200(w)
    /\ UNCHANGED <<order, intent, logged, refunds, eligible, disturbances>>

RetryFails(w) ==
    /\ worker[w].pc = "retry"
    /\ ~CanTransition(order, "ArrangingPayment")
    /\ GivesUp(w)
    /\ UNCHANGED <<order, intent, refunds, eligible, disturbances>>

AddPayment(w) ==
    /\ worker[w].pc = "add"
    /\ AddsTo(w, order)
    /\ UNCHANGED <<intent, refunds, eligible, disturbances>>

(* The server goes down in the middle of a request. *)
Crash(w) ==
    /\ worker[w] # Idle
    /\ Stops(w)
    /\ Disturb
    /\ UNCHANGED <<order, intent, owed, logged, refunds, eligible>>

-----------------------------------------------------------------------------
(* The administrator refunds part or all of a payment: OrderService calls  *)
(* stripePaymentMethodHandler.createRefund, which hands Stripe the amount  *)
(* as Vendure has it.  Stripe refuses more than it took (a StripeError,    *)
(* and a Failed refund in the shop).                                       *)
CreateRefund(p) ==
    /\ eligible
    /\ \E i \in RecordsOf(order, p) :
         \E amount \in {Units, order.payments[i].amount} :
           /\ refunds[p].shop + amount <= order.payments[i].amount
           /\ refunds[p].stripe + amount <= intent[p].amount
           /\ refunds' = [refunds EXCEPT ![p] = [shop   |-> @.shop + amount,
                                                 stripe |-> @.stripe + amount]]
    /\ UNCHANGED <<order, intent, owed, logged, eligible, worker, disturbances>>

-----------------------------------------------------------------------------

Shop == EditOrder \/ MoveOrder \/ ModifyOrder \/ ToggleMethod

Stripe(p) ==
    CreatePaymentIntent(p) \/ KeyExpires(p) \/ CustomerPays(p) \/ AttemptFails(p)

Handle(w) ==
    \/ RejectEvent(w) \/ IgnoreFailure(w) \/ ReadOrder(w)
    \/ TransitionAndAdd(w) \/ TransitionFails(w)
    \/ RetryTransition(w) \/ RetryFails(w) \/ AddPayment(w)

Next ==
    \/ Shop
    \/ \E p \in Pids : Stripe(p) \/ CreateRefund(p)
    \/ \E w \in Workers : Handle(w) \/ Crash(w)
    \/ \E w \in Workers, e \in owed : ReceiveWebhook(w, e)

Spec == Init /\ [][Next]_vars

(* A request that began runs on unless the server crashes; Stripe repeats  *)
(* an event until it hears a 2xx (strong fairness: see MolliePayments).    *)
FairSpec ==
    /\ Spec
    /\ \A w \in Workers : WF_vars(Handle(w))
    /\ \A e \in Event : SF_vars(\E w \in Workers : ReceiveWebhook(w, e))

-----------------------------------------------------------------------------
(* Properties *)

(* Whatever event is repeated, late or interrupted, what the order has     *)
(* recorded was paid at Stripe, and with the amount of the event rather    *)
(* than the amount due (stripe.handler.ts:60).                             *)
RecordsAreBacked ==
    \A i \in DOMAIN order.payments :
        LET r == order.payments[i]
        IN  /\ intent[r.tx].status = "succeeded"
            /\ r.amount = AmountFromStripeMinorUnits(intent[r.tx].amount)

(* An event the webhook answered with 200 is booked, or an error was       *)
(* logged for it (stripe.controller.ts:144-150, 163-169): the answer alone *)
(* never makes a payment disappear.                                        *)
NoSilentLoss ==
    \A p \in Pids :
        intent[p].status = "succeeded" /\ <<p, "succeeded">> \notin owed
            => Recorded(p) \/ p \in logged

MoneyTaken ==
    MapThenSumSet(LAMBDA p : AmountFromStripeMinorUnits(intent[p].amount),
                  {p \in Pids : intent[p].status = "succeeded"})

RecordedOnce == \A i, j \in DOMAIN order.payments :
                    order.payments[i].tx = order.payments[j].tx => i = j

(* An order in PaymentSettled none of whose payments was recorded twice is *)
(* paid in full at Stripe, though intents of earlier totals stay payable.  *)
SettledOrderIsPaid ==
    order.state = "PaymentSettled" /\ RecordedOnce => MoneyTaken >= order.total

(* Every paid intent is in the end booked or logged, through crashes and   *)
(* repeated events, unless the payment method stays ineligible.            *)
PaidIsHandled ==
    \A p \in Pids :
        intent[p].status = "succeeded" ~> Recorded(p) \/ p \in logged \/ ~eligible

ChargeOf(p) == IF intent[p].status = "succeeded" THEN "taken" ELSE "none"

BookedAs(p) == IF Recorded(p) THEN "settled" ELSE "none"

Books == INSTANCE PaymentBooks WITH charge <- [p \in Pids |-> ChargeOf(p)],
                                    booked <- [p \in Pids |-> BookedAs(p)]

(* The plugin keeps the books as PaymentBooks promises. *)
KeepsTheBooks == Books!Spec

(* What the repository says and the code does not do; refuted by a run.    *)

(* stripe-utils.ts:12-13 says of a currency without fraction that "we need *)
(* to divide the amount by 100" for Stripe.  A refund is not divided:      *)
(* Stripe gives back a hundred times what the shop has on its books.       *)
RefundsMatch ==
    \A p \in Pids : refunds[p].shop = AmountFromStripeMinorUnits(refunds[p].stripe)
=============================================================================
