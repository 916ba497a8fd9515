--------------------------- MODULE MolliePayments ---------------------------
(***************************************************************************)
(* mollie-plugin: how one order gets paid through Mollie.                  *)
(*                                                                         *)
(* MollieService.createPaymentIntent asks Mollie for a payment, the        *)
(* customer pays at Mollie, Mollie calls the webhook on every change of    *)
(* the payment, and handleMolliePaymentStatus books the payment on the     *)
(* order.  A webhook and a sync mutation run in workers of the server.     *)
(* They interleave at every await: the payment is fetched, then the order  *)
(* is read, then the decision taken from that reading is carried out:      *)
(* addPayment in a database transaction of its own, settleExistingPayment  *)
(* without one.  Mollie repeats a webhook until it is answered with 200,   *)
(* and may not see the 200.                                                *)
(*                                                                         *)
(* Abstractions: one order; the payment method exists and has an apiKey    *)
(* (mollie.service.ts:256-266 return or throw otherwise, before anything   *)
(* is read); a transaction is atomic; the customer's names and address     *)
(* are complete.                                                           *)
(***************************************************************************)
EXTENDS VendureOrder

CONSTANTS
    Pids,                      \* payments Mollie may create for the order
    FreeTx,                    \* the id 'Settled without Mollie'
    Workers,                   \* concurrent requests the server handles
    Totals,                    \* the totals the order can have
    MaxDisturbances,           \* bound on edits, modifications and crashes
    DisableWebhookProcessing   \* the plugin option of that name

ASSUME ConstantsAssumption ==
    /\ FreeTx \notin Pids
    /\ Totals \subseteq Nat
    /\ MaxDisturbances \in Nat
    /\ DisableWebhookProcessing \in BOOLEAN

VARIABLES
    order,         \* the order in the shop's database
    mollie,        \* the payments at Mollie
    intents,       \* the payments in the order of their creation
    capture,       \* the last capture requested of each payment
    hook,          \* status changes Mollie has yet to hear a 200 for
    reported,      \* payments logged as "should be refunded"
    worker,        \* the requests being handled
    polling,       \* payments whose settlePayment waits for a capture
    disturbances   \* edits, modifications and crashes so far

vars == <<order, mollie, intents, capture, hook, reported, worker, polling,
          disturbances>>

-----------------------------------------------------------------------------
(* Types *)

Txs == Pids \cup {FreeTx}

MollieStatus == {"none", "open", "failed", "authorized", "released", "paid"}

(* One run of handleMolliePaymentStatus, or of the part of                 *)
(* createPaymentIntent that settles a free order.                          *)
(*   pc      the await it is at                                            *)
(*   kind    what it serves                                                *)
(*   pid     the payment it handles; note, the change it was called for    *)
(*   todo    the payments a sync still has to handle                       *)
(*   status  the fetched payment's status                                  *)
(*   seen    the state of the order when it was read                       *)
Worker ==
    [pc : {"idle", "fetch", "read", "add", "settle", "move"},
     kind : {"none", "webhook", "sync", "intent"},
     pid : Txs, note : MollieStatus, todo : SUBSET Pids,
     status : MollieStatus, seen : OrderState]

Idle == [pc |-> "idle", kind |-> "none", pid |-> FreeTx, note |-> "none",
         todo |-> {}, status |-> "none", seen |-> "Draft"]

TypeOK ==
    /\ order \in OrderRecord(Totals, Txs)
    /\ mollie \in [Pids -> [status : MollieStatus, amount : Nat, manual : BOOLEAN]]
    /\ intents \in Seq(Pids)
    /\ capture \in [Pids -> {"none", "pending", "succeeded", "failed"}]
    /\ hook \subseteq Pids \X MollieStatus
    /\ reported \subseteq Pids
    /\ worker \in [Workers -> Worker]
    /\ polling \subseteq Pids
    /\ disturbances \in 0..MaxDisturbances

Init ==
    /\ order \in [state : {"AddingItems", "Draft"}, total : Totals,
                  ready : BOOLEAN, placed : {FALSE}, payments : {<<>>}]
    /\ mollie = [p \in Pids |-> [status |-> "none", amount |-> 0, manual |-> FALSE]]
    /\ intents = <<>>
    /\ capture = [p \in Pids |-> "none"]
    /\ hook = {}
    /\ reported = {}
    /\ worker = [w \in Workers |-> Idle]
    /\ polling = {}
    /\ disturbances = 0

(* Mutant: the list forgets orders whose checkout has begun. *)
StatesWithoutArranging ==
    {"AddingItems", "ArrangingAdditionalPayment", "PaymentAuthorized", "Draft"}

(* VENDURE_STATES_THAT_REQUIRE_ACTION *)
StatesThatRequireAction ==
    {"AddingItems", "ArrangingPayment", "ArrangingAdditionalPayment",
     "PaymentAuthorized", "Draft"}

Recorded(p) == RecordsOf(order, p) # {}

-----------------------------------------------------------------------------
(* The customer and the administrator, through Vendure's own APIs.         *)

Disturb ==
    /\ disturbances < MaxDisturbances
    /\ disturbances' = disturbances + 1

(* Lines, addresses and coupons change only before payment is arranged. *)
EditOrder ==
    /\ order.state \in {"AddingItems", "Draft"}
    /\ \E t \in Totals, r \in BOOLEAN :
           order' = [order EXCEPT !.total = t, !.ready = r]
    /\ Disturb
    /\ UNCHANGED <<mollie, intents, capture, hook, reported, worker, polling>>

(* The storefront moves the order to ArrangingPayment, or back. *)
MoveOrder ==
    /\ \E to \in {"ArrangingPayment", "AddingItems"} :
           /\ CanTransition(order, to)
           /\ order' = Transitioned(order, to)
    /\ Disturb
    /\ UNCHANGED <<mollie, intents, capture, hook, reported, worker, polling>>

CancelOrder ==
    /\ CanTransition(order, "Cancelled")
    /\ order' = Transitioned(order, "Cancelled")
    /\ UNCHANGED <<mollie, intents, capture, hook, reported, worker, polling, disturbances>>

(* modifyOrder raises the total of a placed order, which then waits for an *)
(* additional payment.                                                     *)
ModifyOrder ==
    /\ CanTransition(order, "ArrangingAdditionalPayment")
    /\ \E t \in Totals :
           /\ t > order.total
           /\ order' = Transitioned([order EXCEPT !.total = t],
                                    "ArrangingAdditionalPayment")
    /\ Disturb
    /\ UNCHANGED <<mollie, intents, capture, hook, reported, worker, polling>>

(* createPaymentIntent: the states it accepts.  Any state other than the   *)
(* Arranging ones is tried by a dry run of the transition.                 *)
MayArrangePayment ==
    order.state \in ArrangingStates \/ CanTransition(order, "ArrangingPayment")

(* createPaymentIntent with something left to pay: Mollie gets a payment   *)
(* for the amount due now.  (Mollie refuses an amount below zero, and the  *)
(* mutation fails without a trace.)                                        *)
CreatePaymentIntent(p) ==
    /\ mollie[p].status = "none"
    /\ MayArrangePayment
    /\ AmountToPay(order) \in Nat \ {0}
    /\ \E manual \in BOOLEAN :
           mollie' = [mollie EXCEPT ![p] =
                         [status |-> "open", amount |-> AmountToPay(order), manual |-> manual]]
    /\ intents' = Append(intents, p)
    /\ UNCHANGED <<order, capture, hook, reported, worker, polling, disturbances>>

(* createPaymentIntent with nothing left to pay: the order read here is    *)
(* settled by addPayment, in a transaction of its own.                     *)
CreateFreeIntent(w) ==
    /\ worker[w].pc = "idle"
    /\ MayArrangePayment
    /\ AmountToPay(order) = 0
    /\ worker' = [worker EXCEPT ![w] =
                     [Idle EXCEPT !.pc = "add", !.kind = "intent", !.seen = order.state,
                                  !.status = "paid"]]
    /\ UNCHANGED <<order, mollie, intents, capture, hook, reported, polling, disturbances>>

-----------------------------------------------------------------------------
(* Mollie and the customer at its checkout (external).                     *)

(* Mollie changes a payment and owes the shop a webhook for it. *)
MollieSets(p, status) ==
    /\ mollie' = [mollie EXCEPT ![p].status = status]
    /\ hook' = hook \cup {<<p, status>>}
    /\ UNCHANGED <<order, intents, reported, worker, polling, disturbances>>

CustomerPays(p) ==
    /\ mollie[p].status = "open"
    /\ MollieSets(p, IF mollie[p].manual THEN "authorized" ELSE "paid")
    /\ UNCHANGED capture

PaymentFails(p) ==
    /\ mollie[p].status = "open"
    /\ MollieSets(p, "failed")
    /\ UNCHANGED capture

AuthorizationLapses(p) ==
    /\ mollie[p].status = "authorized"
    /\ MollieSets(p, "released")
    /\ UNCHANGED capture

CaptureSucceeds(p) ==
    /\ capture[p] = "pending"
    /\ mollie[p].status = "authorized"
    /\ MollieSets(p, "paid")
    /\ capture' = [capture EXCEPT ![p] = "succeeded"]

CaptureFails(p) ==
    /\ capture[p] = "pending"
    /\ capture' = [capture EXCEPT ![p] = "failed"]
    /\ UNCHANGED <<order, mollie, intents, hook, reported, worker, polling, disturbances>>

-----------------------------------------------------------------------------
(* How a run of the handler ends. *)

(* Mollie lists payments newest first. *)
Newest(q, pids) ==
    /\ q \in pids
    /\ \E i \in DOMAIN intents :
           /\ intents[i] = q
           /\ \A j \in DOMAIN intents : intents[j] \in pids => j <= i

(* The next payment of a sync's list. *)
NextOfSync(w) ==
    \E q \in worker[w].todo :
        /\ Newest(q, worker[w].todo)
        /\ worker' = [worker EXCEPT ![w] =
                         [Idle EXCEPT !.pc = "fetch", !.kind = "sync", !.pid = q,
                                      !.todo = worker[w].todo \ {q}]]

Stops(w) == worker' = [worker EXCEPT ![w] = Idle]

(* The handler returns and leaves the order as o.  A webhook is answered   *)
(* with 200, which Mollie may or may not receive; a sync takes up its next *)
(* payment unless the order is settled.                                    *)
Returns(w, o) ==
    /\ order' = o
    /\ \/ /\ worker[w].kind = "webhook"
          /\ hook' \in {hook, hook \ {<<worker[w].pid, worker[w].note>>}}
          /\ Stops(w)
       \/ /\ worker[w].kind = "sync"
          /\ worker[w].todo # {}
          /\ o.state # "PaymentSettled"
          /\ NextOfSync(w)
          /\ UNCHANGED hook
       \/ /\ worker[w].kind = "sync"
          /\ worker[w].todo = {} \/ o.state = "PaymentSettled"
          /\ Stops(w)
          /\ UNCHANGED hook
       \/ /\ worker[w].kind = "intent"
          /\ Stops(w)
          /\ UNCHANGED hook

(* Mutant: an error is answered with 200 as well. *)
ThrowsAnswered(w) ==
    /\ Stops(w)
    /\ hook' = hook \ {<<worker[w].pid, worker[w].note>>}
    /\ UNCHANGED order

(* The handler throws: the transaction rolls back, a webhook is answered   *)
(* with 500 and stays owed, a sync ends.                                   *)
Throws(w) ==
    /\ Stops(w)
    /\ UNCHANGED <<order, hook>>

-----------------------------------------------------------------------------
(* The webhook and the sync mutation.                                      *)

ReceiveWebhook(w, n) ==
    /\ n \in hook
    /\ ~DisableWebhookProcessing
    /\ worker[w].pc = "idle"
    /\ worker' = [worker EXCEPT ![w] =
                     [Idle EXCEPT !.pc = "fetch", !.kind = "webhook",
                                  !.pid = n[1], !.note = n[2]]]
    /\ UNCHANGED <<order, mollie, intents, capture, hook, reported, polling, disturbances>>

(* With disableWebhookProcessing the webhook is answered with 200 and      *)
(* nothing else happens.                                                   *)
IgnoreWebhook(n) ==
    /\ n \in hook
    /\ DisableWebhookProcessing
    /\ hook' = hook \ {n}
    /\ UNCHANGED <<order, mollie, intents, capture, reported, worker, polling, disturbances>>

(* Mutant: only authorized payments are listed. *)
StartSyncOfAuthorized(w) ==
    /\ worker[w].pc = "idle"
    /\ order.state \in StatesThatRequireAction
    /\ LET listed == {p \in Pids : mollie[p].status = "authorized"}
       IN  \E q \in listed :
               /\ Newest(q, listed)
               /\ worker' = [worker EXCEPT ![w] =
                                [Idle EXCEPT !.pc = "fetch", !.kind = "sync", !.pid = q,
                                             !.todo = listed \ {q}]]
    /\ UNCHANGED <<order, mollie, intents, capture, hook, reported, polling, disturbances>>

(* syncMolliePaymentStatus: the listed payments of this order that are     *)
(* paid or authorized are handled one after the other.                     *)
StartSync(w) ==
    /\ worker[w].pc = "idle"
    /\ order.state \in StatesThatRequireAction
    /\ LET listed == {p \in Pids : mollie[p].status \in {"authorized", "paid"}}
       IN  \E q \in listed :
               /\ Newest(q, listed)
               /\ worker' = [worker EXCEPT ![w] =
                                [Idle EXCEPT !.pc = "fetch", !.kind = "sync", !.pid = q,
                                             !.todo = listed \ {q}]]
    /\ UNCHANGED <<order, mollie, intents, capture, hook, reported, polling, disturbances>>

(* payments.get *)
FetchPayment(w) ==
    /\ worker[w].pc = "fetch"
    /\ worker' = [worker EXCEPT ![w].pc = "read",
                                ![w].status = mollie[worker[w].pid].status]
    /\ UNCHANGED <<order, mollie, intents, capture, hook, reported, polling, disturbances>>

(* Mutant: a payment of a cancelled order is not reported. *)
DecisionIgnoringCancelled(o, p, st) ==
    IF st \notin {"authorized", "paid"} THEN "ignore"
    ELSE IF o.placed /\ RecordsOf(o, p) = {} THEN "report"
    ELSE IF o.state \notin StatesThatRequireAction THEN "ignore"
    ELSE IF o.state = "PaymentAuthorized" /\ st = "paid" THEN "settle"
    ELSE IF st = "paid" \/ o.state = "AddingItems" THEN "add"
    ELSE "unhandled"

(* What the handler makes of payment p in status st and the order o it     *)
(* read, in the order in which it looks at them.                           *)
Decision(o, p, st) ==
    IF st \notin {"authorized", "paid"} THEN "ignore"
    ELSE IF o.placed /\ RecordsOf(o, p) = {} THEN "report"
    ELSE IF o.state = "Cancelled" /\ st = "paid" THEN "report"
    ELSE IF o.state \notin StatesThatRequireAction THEN "ignore"
    ELSE IF o.state = "PaymentAuthorized" /\ st = "paid" THEN "settle"
    ELSE IF st = "paid" THEN "add"
    ELSE IF o.state = "AddingItems" THEN "add"
    ELSE "unhandled"

(* findOneByCode, and every way on that ends the handler there. *)
ReadOrderAndFinish(w) ==
    /\ worker[w].pc = "read"
    /\ LET p == worker[w].pid
           d == Decision(order, p, worker[w].status)
       IN  \/ d = "ignore" /\ Returns(w, order) /\ UNCHANGED reported
           \/ d = "report" /\ Returns(w, order) /\ reported' = reported \cup {p}
           \/ d = "unhandled" /\ Throws(w) /\ UNCHANGED reported
    /\ UNCHANGED <<mollie, intents, capture, polling, disturbances>>

(* findOneByCode, and the decision to change the order. *)
ReadOrder(w) ==
    /\ worker[w].pc = "read"
    /\ Decision(order, worker[w].pid, worker[w].status) \in {"add", "settle"}
    /\ worker' = [worker EXCEPT
                     ![w].pc = Decision(order, worker[w].pid, worker[w].status),
                     ![w].seen = order.state]
    /\ UNCHANGED <<order, mollie, intents, capture, hook, reported, polling, disturbances>>

(* Mutants: the amount due is booked instead of the amount paid; Mollie's  *)
(* status is handed on instead of Vendure's.                               *)
CreatedPaymentOfAmountDue(w) ==
    [tx     |-> worker[w].pid,
     amount |-> AmountToPay(order),
     state  |-> IF worker[w].status = "paid" THEN "Settled" ELSE "Authorized"]

CreatedPaymentUntranslated(w) ==
    [tx     |-> worker[w].pid,
     amount |-> IF worker[w].pid = FreeTx THEN 0 ELSE mollie[worker[w].pid].amount,
     state  |-> worker[w].status]

(* The payment molliePaymentHandler.createPayment makes of the metadata    *)
(* addPayment hands it: the amount is Mollie's, not the amount due.        *)
CreatedPayment(w) ==
    LET p == worker[w].pid
    IN  [tx     |-> p,
         amount |-> IF p = FreeTx THEN 0 ELSE mollie[p].amount,
         state  |-> IF worker[w].status = "paid" THEN "Settled" ELSE "Authorized"]

(* addPayment moves the order to ArrangingPayment if it was not there when *)
(* it was read.                                                            *)
NeedsTransition(w) == worker[w].seen \notin ArrangingStates

ArrangedOrder(w) ==
    IF NeedsTransition(w) THEN Transitioned(order, "ArrangingPayment") ELSE order

CanRecord(w) ==
    /\ NeedsTransition(w) => CanTransition(order, "ArrangingPayment")
    /\ CanAddPayment(ArrangedOrder(w))

AddPayment(w) ==
    /\ worker[w].pc = "add"
    /\ \/ CanRecord(w) /\ Returns(w, WithPayment(ArrangedOrder(w), CreatedPayment(w)))
       \/ ~CanRecord(w) /\ Throws(w)
    /\ UNCHANGED <<mollie, intents, capture, reported, polling, disturbances>>

(* settleExistingPayment finds the first payment with Mollie's id; Vendure *)
(* settles it if it is authorized and refuses otherwise.                   *)
FirstRecord(i, p) ==
    /\ i \in RecordsOf(order, p)
    /\ \A j \in RecordsOf(order, p) : i <= j

Settleable(i, p) == FirstRecord(i, p) /\ order.payments[i].state = "Authorized"

SettleExistingPayment(w) ==
    /\ worker[w].pc = "settle"
    /\ LET p == worker[w].pid
       IN  \/ /\ \E i \in DOMAIN order.payments :
                    Settleable(i, p) /\ order' = Settling(order, i)
              /\ worker' = [worker EXCEPT ![w].pc = "move"]
              /\ UNCHANGED hook
           \/ /\ \A i \in DOMAIN order.payments : ~Settleable(i, p)
              /\ Throws(w)
    /\ UNCHANGED <<mollie, intents, capture, reported, polling, disturbances>>

(* settlePayment moves the order on afterwards, and no transaction holds   *)
(* the two together: after a crash in between the order stays as it was,   *)
(* for a repeated webhook finds nothing to settle and throws.              *)
MoveSettledOrder(w) ==
    /\ worker[w].pc = "move"
    /\ Returns(w, Progressed(order))
    /\ UNCHANGED <<mollie, intents, capture, reported, polling, disturbances>>

(* The server goes down in the middle of a request. *)
Crash(w) ==
    /\ worker[w].pc # "idle"
    /\ Stops(w)
    /\ Disturb
    /\ UNCHANGED <<order, mollie, intents, capture, hook, reported, polling>>

-----------------------------------------------------------------------------
(* The administrator settles an authorized payment: OrderService calls     *)
(* molliePaymentHandler.settlePayment.                                     *)

AuthorizedRecord(i, p) ==
    i \in RecordsOf(order, p) /\ order.payments[i].state = "Authorized"

(* Mutant: nothing is asked of Mollie. *)
SettleUnchecked(p) ==
    /\ \E i \in DOMAIN order.payments :
           AuthorizedRecord(i, p) /\ order' = WithSettled(order, i)
    /\ UNCHANGED <<mollie, intents, capture, hook, reported, worker, polling, disturbances>>

(* Mollie has the money already: nothing to capture. *)
SettlePaid(p) ==
    /\ mollie[p].status = "paid"
    /\ \E i \in DOMAIN order.payments :
           AuthorizedRecord(i, p) /\ order' = WithSettled(order, i)
    /\ UNCHANGED <<mollie, intents, capture, hook, reported, worker, polling, disturbances>>

(* A capture is requested, and then polled.  Calling again while an        *)
(* earlier capture is pending requests another; the model keeps the last.  *)
RequestCapture(p) ==
    /\ mollie[p].status = "authorized"
    /\ \E i \in DOMAIN order.payments : AuthorizedRecord(i, p)
    /\ capture' = [capture EXCEPT ![p] = "pending"]
    /\ polling' = polling \cup {p}
    /\ UNCHANGED <<order, mollie, intents, hook, reported, worker, disturbances>>

(* Mutant: a pending capture is taken for one that succeeded. *)
CaptureAssumed(p) ==
    /\ p \in polling
    /\ capture[p] \in {"pending", "succeeded"}
    /\ \/ \E i \in DOMAIN order.payments :
              AuthorizedRecord(i, p) /\ order' = WithSettled(order, i)
       \/ /\ \A i \in DOMAIN order.payments : ~AuthorizedRecord(i, p)
          /\ UNCHANGED order
    /\ polling' = polling \ {p}
    /\ UNCHANGED <<mollie, intents, capture, hook, reported, worker, disturbances>>

(* A poll finds the capture succeeded.  The payment may have been settled  *)
(* by the webhook meanwhile; Vendure then stores it as settled once more,  *)
(* and moves the order if the webhook has not.                             *)
CaptureConfirmed(p) ==
    /\ p \in polling
    /\ capture[p] = "succeeded"
    /\ \/ \E i \in DOMAIN order.payments :
              AuthorizedRecord(i, p) /\ order' = WithSettled(order, i)
       \/ /\ \A i \in DOMAIN order.payments : ~AuthorizedRecord(i, p)
          /\ order' = Progressed(order)
    /\ polling' = polling \ {p}
    /\ UNCHANGED <<mollie, intents, capture, hook, reported, worker, disturbances>>

(* The capture failed, or is still pending after the tenth poll: throw. *)
CaptureGivenUp(p) ==
    /\ p \in polling
    /\ capture[p] \in {"failed", "pending"}
    /\ polling' = polling \ {p}
    /\ UNCHANGED <<order, mollie, intents, capture, hook, reported, worker, disturbances>>

-----------------------------------------------------------------------------

Shop == EditOrder \/ MoveOrder \/ CancelOrder \/ ModifyOrder

Mollie(p) ==
    \/ CustomerPays(p) \/ PaymentFails(p) \/ AuthorizationLapses(p)
    \/ CaptureSucceeds(p) \/ CaptureFails(p)

Admin(p) ==
    \/ SettlePaid(p) \/ RequestCapture(p)
    \/ CaptureConfirmed(p) \/ CaptureGivenUp(p)

(* The next step of a request that is being handled. *)
Handle(w) ==
    \/ FetchPayment(w) \/ ReadOrderAndFinish(w) \/ ReadOrder(w)
    \/ AddPayment(w) \/ SettleExistingPayment(w) \/ MoveSettledOrder(w)

Next ==
    \/ Shop
    \/ \E p \in Pids : CreatePaymentIntent(p) \/ Mollie(p) \/ Admin(p)
    \/ \E w \in Workers : CreateFreeIntent(w) \/ StartSync(w) \/ Handle(w) \/ Crash(w)
    \/ \E w \in Workers, n \in hook : ReceiveWebhook(w, n)
    \/ \E n \in hook : IgnoreWebhook(n)

Spec == Init /\ [][Next]_vars

(* A request the server has begun runs on unless the server crashes, and   *)
(* Mollie repeats every webhook it has no 200 for.  The retry is strongly  *)
(* fair because the server takes any number of requests at once: that the  *)
(* model's workers may all be busy must not starve one webhook forever.    *)
Fairness ==
    /\ \A w \in Workers : WF_vars(Handle(w))
    /\ \A p \in Pids, s \in MollieStatus :
           SF_vars(\E w \in Workers : ReceiveWebhook(w, <<p, s>>))

FairSpec == Spec /\ Fairness

(* The storefront that relies on the sync mutation calls it until the      *)
(* order is paid; no webhook is processed.                                 *)
FairSyncSpec ==
    /\ Spec
    /\ \A w \in Workers : WF_vars(Handle(w))
    /\ SF_vars(\E w \in Workers : StartSync(w))

-----------------------------------------------------------------------------
(* Properties *)

(* The books never run ahead of Mollie (handleMolliePaymentStatus and      *)
(* settlePayment act on a status that may be stale): a payment recorded as *)
(* settled is paid at Mollie, one recorded as authorized was authorized,   *)
(* and both carry the amount Mollie charged rather than the amount due.    *)
RecordsAreBacked ==
    \A i \in DOMAIN order.payments :
        LET r == order.payments[i]
        IN  IF r.tx = FreeTx THEN r.amount = 0
            ELSE /\ r.amount = mollie[r.tx].amount
                 /\ mollie[r.tx].status \in IF r.state = "Settled" THEN {"paid"}
                                            ELSE {"authorized", "released", "paid"}

(* No payment is lost in silence: once Mollie has a 200 for the webhook of *)
(* a paid payment, the payment is on the order or was logged as one to     *)
(* refund, whatever the order went through while it was handled.           *)
NoSilentLoss ==
    ~DisableWebhookProcessing =>
        \A p \in Pids :
            mollie[p].status = "paid" /\ <<p, "paid">> \notin hook
                => Recorded(p) \/ p \in reported

MoneyTaken ==
    MapThenSumSet(LAMBDA p : mollie[p].amount, {p \in Pids : mollie[p].status = "paid"})

RecordedOnce == \A i, j \in DOMAIN order.payments :
                    order.payments[i].tx = order.payments[j].tx => i = j

(* An order in PaymentSettled none of whose payments was recorded twice is *)
(* paid in full at Mollie, though its total, its payments and its state    *)
(* are read and written by different requests.                             *)
SettledOrderIsPaid ==
    order.state = "PaymentSettled" /\ RecordedOnce => MoneyTaken >= order.total

(* The abstract books: what Mollie did with the money, what is booked.     *)
ChargeOf(p) ==
    CASE mollie[p].status \in {"none", "open", "failed"} -> "none"
      [] mollie[p].status = "authorized" -> "held"
      [] mollie[p].status = "released" -> "released"
      [] mollie[p].status = "paid" -> "taken"

BookedAs(p) ==
    IF \E i \in RecordsOf(order, p) : order.payments[i].state = "Settled" THEN "settled"
    ELSE IF Recorded(p) THEN "authorized" ELSE "none"

Books == INSTANCE PaymentBooks WITH charge <- [p \in Pids |-> ChargeOf(p)],
                                    booked <- [p \in Pids |-> BookedAs(p)]

(* The plugin keeps the books as PaymentBooks promises: one booking at a   *)
(* time, never ahead of the bank, never undone by a late or stale request. *)
KeepsTheBooks == Books!Spec

(* A payment Mollie took the money of is put on the order or reported,     *)
(* through crashes, repeated webhooks and stale readings, unless the       *)
(* customer leaves the cart in a condition Vendure takes no payment in.    *)
PaidIsHandled ==
    \A p \in Pids :
        mollie[p].status = "paid" ~> Recorded(p) \/ p \in reported \/ ~order.ready

(* A settlement was cut off after the payment was saved: every later try   *)
(* throws, as the payment is settled already.                              *)
LeftBehind ==
    /\ order.state = "PaymentAuthorized"
    /\ CoveredBy(order, {"Settled"}) >= order.total
    /\ \A w \in Workers : worker[w].pc # "move"

(* mollie.plugin.ts:87: with webhook processing disabled the sync mutation *)
(* alone, repeated, books what was paid for an order that still waits for  *)
(* payment, as long as there is no other payment the handler throws on, as *)
(* it does on an authorized one and on one that left the order behind: the *)
(* sync ends there.                                                        *)
SyncHandlesPaid ==
    \A p \in Pids :
        mollie[p].status = "paid" ~>
            \/ Recorded(p) \/ p \in reported \/ ~order.ready
            \/ order.state \notin StatesThatRequireAction
            \/ \E q \in Pids \ {p} : mollie[q].status = "authorized"
            \/ LeftBehind

(* What the repository says of the plugin and the code does not do; a run  *)
(* refutes it.                                                             *)

(* mollie.handler.ts:50 wants "the actual paid amount from Mollie" booked: *)
(* an order in PaymentSettled has been paid in full.  The same id is       *)
(* looked for only once the order is placed, so a repeated webhook of a    *)
(* partial payment books the same money twice.                             *)
PaidInFull == order.state = "PaymentSettled" => MoneyTaken >= order.total
=============================================================================
