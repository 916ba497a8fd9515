------------------------ MODULE StripePaymentsProofs ------------------------
(***************************************************************************)
(* Theorems about StripePayments, for every set of intents, requests and   *)
(* totals and every currency: the books never run ahead of Stripe, no      *)
(* acknowledged payment disappears, an order that is settled is paid, and  *)
(* the plugin implements PaymentBooks.                                     *)
(***************************************************************************)
EXTENDS StripePayments, VendureOrderProofs, TLAPS

(* An event is evidence: Stripe sends "succeeded" only of what was paid,   *)
(* and a request past the check of the type serves such an event.          *)
EventsAreTrue ==
    /\ \A p \in Pids : <<p, "succeeded">> \in owed => intent[p].status = "succeeded"
    /\ \A w \in Workers :
           /\ worker[w].pc # "idle" /\ worker[w].event[2] = "succeeded" =>
                  intent[worker[w].event[1]].status = "succeeded"
           /\ worker[w].pc \in {"transition", "retry", "add"} =>
                  worker[w].event[2] = "succeeded"

(* The inductive invariant: what a request books, it books on the strength *)
(* of an event it received some steps before.                              *)
BooksInv ==
    /\ TypeOK
    /\ EventsAreTrue
    /\ RecordsAreBacked
    /\ NoSilentLoss

-----------------------------------------------------------------------------
(* Rounding *)

(* Going to Stripe's units and back moves an amount by at most half of one *)
(* of Stripe's units, and not at all where the two units are the same: in  *)
(* a currency with a fraction part what is paid is what was due.           *)
THEOREM RoundTrip ==
    ASSUME NEW total \in Nat
    PROVE  /\ AmountInStripeMinorUnits(total) \in Nat
           /\ 2 * AmountFromStripeMinorUnits(AmountInStripeMinorUnits(total)) \in
                  (2 * total - Units) .. (2 * total + Units)
           /\ Units = 1 => AmountFromStripeMinorUnits(AmountInStripeMinorUnits(total)) = total
<1> DEFINE a == AmountInStripeMinorUnits(total)
           d == 2 * Units
<1>1. Units \in Nat /\ Units >= 1 /\ d \in Nat /\ d >= 1
  BY ConstantsAssumption
<1>2. a = (2 * total + Units) \div d
  BY DEF AmountInStripeMinorUnits
<1>3. /\ a \in Int
      /\ d * a <= 2 * total + Units
      /\ 2 * total + Units < d * a + d
  <2> HIDE DEF d, a
  <2> QED
    BY <1>1, <1>2, SMTT(60)
<1>4. a \in Nat
  <2>1. CASE a < 0
    <3>1. d * a + d <= 0
      <4>1. a + 1 <= 0 /\ d * (a + 1) = d * a + d
        BY <1>1, <1>3, <2>1
      <4> QED
        BY <1>1, <1>3, <4>1, SMTT(60)
    <3> QED
      BY <1>1, <1>3, <3>1
  <2> QED
    BY <1>3, <2>1
<1>5. 2 * AmountFromStripeMinorUnits(a) = d * a
  BY <1>1, <1>4 DEF AmountFromStripeMinorUnits
<1>6. 2 * AmountFromStripeMinorUnits(a) \in (2 * total - Units) .. (2 * total + Units)
  <2> HIDE DEF a
  <2>1. d * a \in Int /\ d = 2 * Units
    BY <1>1, <1>4
  <2> HIDE DEF d
  <2> QED
    BY <1>1, <1>3, <1>5, <2>1
<1>7. Units = 1 => AmountFromStripeMinorUnits(a) = total
  BY <1>2, <1>1 DEF AmountFromStripeMinorUnits
<1> QED
  BY <1>4, <1>6, <1>7

-----------------------------------------------------------------------------
(* The order's payments, one by one. *)
LEMMA OrderTyped ==
    ASSUME TypeOK
    PROVE  /\ order \in OrderRecord(Totals, Pids)
           /\ order.payments \in Seq(PaymentRecord(Pids))
           /\ \A i \in DOMAIN order.payments : order.payments[i] \in PaymentRecord(Pids)
<1>1. order.payments \in Seq(PaymentRecord(Pids))
  BY DEF TypeOK, OrderRecord, PaymentRecord
<1> QED
  BY <1>1 DEF TypeOK

(* Steps that leave the intents, the events and the recorded payments      *)
(* alone keep the invariant; the worker they move has to be fit for it.    *)
LEMMA QuietStep ==
    ASSUME BooksInv, TypeOK', intent' = intent, logged' = logged, owed' = owed,
           order'.payments = order.payments,
           \A w \in Workers :
               \/ worker'[w] = worker[w]
               \/ worker'[w].pc = "idle"
               \/ /\ worker[w].pc # "idle"
                  /\ worker'[w].event = worker[w].event
                  /\ worker[w].event[2] = "succeeded"
    PROVE  BooksInv'
<1>1. EventsAreTrue'
  <2>1. \A p \in Pids : <<p, "succeeded">> \in owed' => intent'[p].status = "succeeded"
    BY DEF BooksInv, EventsAreTrue
  <2>2. ASSUME NEW w \in Workers
        PROVE  /\ worker'[w].pc # "idle" /\ worker'[w].event[2] = "succeeded" =>
                      intent'[worker'[w].event[1]].status = "succeeded"
               /\ worker'[w].pc \in {"transition", "retry", "add"} =>
                      worker'[w].event[2] = "succeeded"
    BY DEF BooksInv, EventsAreTrue
  <2> QED
    BY <2>1, <2>2 DEF EventsAreTrue
<1>2. RecordsAreBacked'
  BY DEF BooksInv, RecordsAreBacked
<1>3. NoSilentLoss'
  BY DEF BooksInv, NoSilentLoss, Recorded, RecordsOf
<1> QED
  BY <1>1, <1>2, <1>3 DEF BooksInv

(* The events a step may acknowledge: at most the one being served. *)
Acknowledges(w) ==
    /\ owed' \subseteq owed
    /\ \A e \in owed : e \in owed' \/ e = worker[w].event
    /\ worker' = [worker EXCEPT ![w] = Idle]

(* A 200 takes at most the event of the request off what Stripe repeats.   *)
LEMMA AnswerAcknowledges ==
    ASSUME NEW w \in Workers, Answers200(w)
    PROVE  Acknowledges(w)
  BY DEF Answers200, Stops, Acknowledges

(* A request that ends keeps the invariant if what it acknowledges is on   *)
(* the order or logged, and what it put on the order was paid.             *)
LEMMA AnsweredStep ==
    ASSUME BooksInv, NEW w \in Workers, Acknowledges(w),
           order' \in OrderRecord(Totals, Pids), intent' = intent,
           refunds' = refunds, eligible' = eligible, disturbances' = disturbances,
           logged \subseteq logged', logged' \subseteq Pids,
           RecordsAreBacked',
           \A p \in Pids : Recorded(p) => RecordsOf(order', p) # {},
           \A p \in Pids : worker[w].event = <<p, "succeeded">> =>
                               RecordsOf(order', p) # {} \/ p \in logged'
    PROVE  BooksInv'
<1>1. worker \in [Workers -> Worker] /\ Idle \in Worker /\ Idle.pc = "idle"
  BY DEF BooksInv, TypeOK, Worker, Idle
<1>2. TypeOK'
  BY <1>1 DEF BooksInv, TypeOK, Acknowledges
<1>3. EventsAreTrue'
  <2>1. \A p \in Pids : <<p, "succeeded">> \in owed' => intent'[p].status = "succeeded"
    BY DEF BooksInv, EventsAreTrue, Acknowledges
  <2>2. ASSUME NEW x \in Workers
        PROVE  worker'[x].pc = "idle" \/ worker'[x] = worker[x]
    BY <1>1 DEF Acknowledges
  <2>3. ASSUME NEW x \in Workers
        PROVE  /\ worker'[x].pc # "idle" /\ worker'[x].event[2] = "succeeded" =>
                      intent'[worker'[x].event[1]].status = "succeeded"
               /\ worker'[x].pc \in {"transition", "retry", "add"} =>
                      worker'[x].event[2] = "succeeded"
    BY <2>2 DEF BooksInv, EventsAreTrue
  <2> QED
    BY <2>1, <2>3 DEF EventsAreTrue
<1>4. NoSilentLoss'
  <2> SUFFICES ASSUME NEW p \in Pids, intent[p].status = "succeeded",
                      <<p, "succeeded">> \notin owed'
               PROVE  RecordsOf(order', p) # {} \/ p \in logged'
    BY DEF NoSilentLoss, Recorded
  <2>1. CASE <<p, "succeeded">> \in owed
    BY <2>1 DEF Acknowledges
  <2>2. CASE <<p, "succeeded">> \notin owed
    BY <2>2 DEF BooksInv, NoSilentLoss
  <2> QED
    BY <2>1, <2>2
<1> QED
  BY <1>2, <1>3, <1>4 DEF BooksInv
-----------------------------------------------------------------------------
(* The steps that only concern the order before a payment is booked. *)
LEMMA ShopStep ==
    ASSUME BooksInv, Shop
    PROVE  BooksInv'
<1>1. order \in OrderRecord(Totals, Pids) /\ TypeOK
  BY OrderTyped DEF BooksInv
<1>2. /\ intent' = intent /\ owed' = owed /\ logged' = logged /\ worker' = worker
      /\ refunds' = refunds /\ Disturb
  BY DEF Shop, EditOrder, MoveOrder, ModifyOrder, ToggleMethod
<1>3. order' \in OrderRecord(Totals, Pids) /\ order'.payments = order.payments
  <2>1. CASE EditOrder
    BY <1>1, <2>1 DEF EditOrder, OrderRecord
  <2>2. CASE MoveOrder
    <3>1. PICK to \in {"ArrangingPayment", "AddingItems", "Cancelled"} :
              order' = Transitioned(order, to)
      BY <2>2 DEF MoveOrder
    <3>2. to \in OrderState
      BY DEF OrderState
    <3> QED
      BY <1>1, <3>1, <3>2, TransitionFacts
  <2>3. CASE ModifyOrder
    <3>1. PICK t \in Totals :
              order' = Transitioned([order EXCEPT !.total = t], "ArrangingAdditionalPayment")
      BY <2>3 DEF ModifyOrder
    <3> DEFINE o == [order EXCEPT !.total = t]
    <3>2. /\ o \in OrderRecord(Totals, Pids)
          /\ o.payments = order.payments
          /\ "ArrangingAdditionalPayment" \in OrderState
      BY <1>1 DEF OrderRecord, OrderState
    <3>3. order' = Transitioned(o, "ArrangingAdditionalPayment")
      BY <3>1
    <3> HIDE DEF o
    <3> QED
      BY <3>2, <3>3, TransitionFacts
  <2>4. CASE ToggleMethod
    BY <1>1, <2>4 DEF ToggleMethod
  <2> QED
    BY <2>1, <2>2, <2>3, <2>4 DEF Shop
<1>4. eligible' \in BOOLEAN
  <2>1. eligible \in BOOLEAN /\ (eligible' = eligible \/ eligible' = ~eligible)
    BY <1>1 DEF TypeOK, Shop, EditOrder, MoveOrder, ModifyOrder, ToggleMethod
  <2> QED
    BY <2>1
<1>5. disturbances' \in 0..MaxDisturbances
  BY <1>1, <1>2, ConstantsAssumption DEF TypeOK, Disturb
<1>6. TypeOK'
  BY <1>1, <1>2, <1>3, <1>4, <1>5 DEF TypeOK
<1> QED
  BY <1>2, <1>3, <1>6, QuietStep

(* What happens at Stripe: an intent is created or paid, a key forgotten,  *)
(* a payment refunded.  No amount of an intent that exists ever changes.   *)
LEMMA StripeStep ==
    ASSUME BooksInv, NEW p \in Pids, Stripe(p) \/ CreateRefund(p)
    PROVE  BooksInv'
<1>1. TypeOK /\ RecordsAreBacked /\ EventsAreTrue /\ NoSilentLoss
  BY DEF BooksInv
<1>2. order' = order /\ logged' = logged /\ worker' = worker /\ eligible' = eligible
  BY DEF Stripe, CreatePaymentIntent, KeyExpires, CustomerPays, AttemptFails, CreateRefund
<1>3. \A i \in DOMAIN order.payments : order.payments[i] \in PaymentRecord(Pids)
  BY <1>1, OrderTyped
<1>4. /\ intent' \in [Pids -> Intent]
      /\ owed' \subseteq Event
      /\ \A q \in Pids : intent[q].status = "succeeded" =>
             intent'[q].status = "succeeded" /\ intent'[q].amount = intent[q].amount
      /\ \A q \in Pids : <<q, "succeeded">> \in owed' =>
             <<q, "succeeded">> \in owed \/ intent'[q].status = "succeeded"
      /\ \A q \in Pids : intent'[q].status = "succeeded" /\ <<q, "succeeded">> \notin owed' =>
             intent[q].status = "succeeded" /\ <<q, "succeeded">> \notin owed
  <2>1. CASE CreatePaymentIntent(p)
    <3>1. order.total \in Nat
      BY <1>1, ConstantsAssumption DEF TypeOK, OrderRecord
    <3>2. AmountInStripeMinorUnits(order.total) \in Nat
      BY <3>1, RoundTrip
    <3> QED
      BY <1>1, <2>1, <3>2 DEF CreatePaymentIntent, TypeOK, Intent
  <2>2. CASE KeyExpires(p)
    BY <1>1, <2>2 DEF KeyExpires, TypeOK, Intent
  <2>3. CASE CustomerPays(p)
    BY <1>1, <2>3 DEF CustomerPays, TypeOK, Intent, Event
  <2>4. CASE AttemptFails(p)
    BY <1>1, <2>4 DEF AttemptFails, TypeOK, Intent, Event
  <2>5. CASE CreateRefund(p)
    BY <1>1, <2>5 DEF CreateRefund, TypeOK
  <2> QED
    BY <2>1, <2>2, <2>3, <2>4, <2>5 DEF Stripe
<1>5. refunds' \in [Pids -> [shop : Nat, stripe : Nat]]
  <2>1. CASE CreateRefund(p)
    <3>1. PICK i \in RecordsOf(order, p) :
              \E amount \in {Units, order.payments[i].amount} :
                  refunds' = [refunds EXCEPT ![p] = [shop   |-> @.shop + amount,
                                                     stripe |-> @.stripe + amount]]
      BY <2>1 DEF CreateRefund
    <3>2. PICK amount \in {Units, order.payments[i].amount} :
              refunds' = [refunds EXCEPT ![p] = [shop   |-> @.shop + amount,
                                                 stripe |-> @.stripe + amount]]
      BY <3>1
    <3>3. amount \in Nat
      BY <1>3, <3>1, <3>2, ConstantsAssumption DEF RecordsOf, PaymentRecord
    <3>4. refunds[p] \in [shop : Nat, stripe : Nat]
      BY <1>1 DEF TypeOK
    <3> QED
      BY <1>1, <3>2, <3>3, <3>4 DEF TypeOK
  <2>2. CASE refunds' = refunds
    BY <1>1, <2>2 DEF TypeOK
  <2> QED
    BY <2>1, <2>2 DEF Stripe, CreatePaymentIntent, KeyExpires, CustomerPays, AttemptFails
<1>6. disturbances' \in 0..MaxDisturbances
  BY <1>1, ConstantsAssumption
  DEF TypeOK, Disturb, Stripe, CreatePaymentIntent, KeyExpires, CustomerPays, AttemptFails,
      CreateRefund
<1>7. TypeOK'
  BY <1>1, <1>2, <1>4, <1>5, <1>6 DEF TypeOK
<1>8. EventsAreTrue'
  <2>1. ASSUME NEW w \in Workers, worker[w].pc # "idle", worker[w].event[2] = "succeeded"
        PROVE  intent'[worker[w].event[1]].status = "succeeded"
    <3>1. worker[w].event \in Event
      BY <1>1, <2>1 DEF TypeOK, Worker, Idle
    <3>2. worker[w].event[1] \in Pids
      BY <3>1 DEF Event
    <3> QED
      BY <1>1, <1>4, <2>1, <3>2 DEF EventsAreTrue
  <2> QED
    BY <1>1, <1>2, <1>4, <2>1 DEF EventsAreTrue
<1>9. RecordsAreBacked'
  <2>1. \A i \in DOMAIN order.payments : order.payments[i].tx \in Pids
    BY <1>3 DEF PaymentRecord
  <2> QED
    BY <1>1, <1>2, <1>4, <2>1 DEF RecordsAreBacked, AmountFromStripeMinorUnits
<1>10. NoSilentLoss'
  BY <1>1, <1>2, <1>4 DEF NoSilentLoss, Recorded
<1> QED
  BY <1>7, <1>8, <1>9, <1>10 DEF BooksInv

(* Booking what a true event reports keeps the books backed, and keeps     *)
(* every payment on the order that was there.                              *)
LEMMA Booking ==
    ASSUME BooksInv, NEW w \in Workers, worker[w].pc \in {"transition", "add"},
           NEW o \in OrderRecord(Totals, Pids), o.payments = order.payments,
           order' = WithPayment(o, CreatedPayment(w)), intent' = intent
    PROVE  /\ worker[w].event[1] \in Pids
           /\ order' \in OrderRecord(Totals, Pids)
           /\ RecordsAreBacked'
           /\ \A p \in Pids : RecordsOf(order', p) # {} <=>
                                  Recorded(p) \/ p = worker[w].event[1]
<1> DEFINE e == worker[w].event
           r == CreatedPayment(w)
<1>1. e \in Event /\ intent[e[1]].status = "succeeded" /\ e[1] \in Pids
  <2>1. worker[w] \in Worker /\ worker[w] # Idle
    BY DEF BooksInv, TypeOK, Idle
  <2>2. e \in Event
    BY <2>1 DEF Worker
  <2> QED
    BY <2>2 DEF BooksInv, EventsAreTrue, Event
<1>2. intent[e[1]].amount \in Nat
  BY <1>1 DEF BooksInv, TypeOK, Intent
<1>3. /\ r \in PaymentRecord(Pids) /\ r.tx = e[1]
      /\ r.amount = AmountFromStripeMinorUnits(intent[e[1]].amount)
  <2>1. AmountFromStripeMinorUnits(intent[e[1]].amount) \in Nat
    BY <1>2, ConstantsAssumption DEF AmountFromStripeMinorUnits
  <2> QED
    BY <1>1, <2>1 DEF CreatedPayment, PaymentRecord, PaymentState
<1> HIDE DEF r
<1>4. order' \in OrderRecord(Totals, Pids) /\ order'.payments = Append(order.payments, r)
  BY <1>3, WithPaymentFacts DEF r
<1>5. order.payments \in Seq(PaymentRecord(Pids))
  BY OrderTyped DEF BooksInv
<1>6. /\ DOMAIN order'.payments = DOMAIN order.payments \cup {Len(order.payments) + 1}
      /\ \A i \in DOMAIN order.payments : order'.payments[i] = order.payments[i]
      /\ order'.payments[Len(order.payments) + 1] = r
  BY <1>4, <1>5
<1>7. RecordsAreBacked'
  BY <1>1, <1>3, <1>6 DEF BooksInv, RecordsAreBacked
<1>8. ASSUME NEW p \in Pids
      PROVE  RecordsOf(order', p) # {} <=> Recorded(p) \/ p = e[1]
  BY <1>3, <1>6 DEF Recorded, RecordsOf
<1> QED
  BY <1>1, <1>4, <1>7, <1>8

(* addPaymentToOrder, however it ends. *)
LEMMA AddStep ==
    ASSUME BooksInv, NEW w \in Workers, worker[w].pc \in {"transition", "add"},
           NEW o \in OrderRecord(Totals, Pids), o.payments = order.payments,
           AddsTo(w, o), UNCHANGED <<intent, refunds, eligible, disturbances>>
    PROVE  BooksInv'
<1>1. worker[w] \in Worker /\ worker[w].event \in Event /\ worker[w].event[1] \in Pids
  BY DEF BooksInv, TypeOK, Worker, Idle, Event
<1>2. logged \subseteq Pids /\ worker \in [Workers -> Worker]
  BY DEF BooksInv, TypeOK
<1>3. CASE order' = WithPayment(o, CreatedPayment(w)) /\ Answers200(w) /\ UNCHANGED logged
  <2>1. /\ order' \in OrderRecord(Totals, Pids)
        /\ RecordsAreBacked'
        /\ \A p \in Pids : RecordsOf(order', p) # {} <=>
                               Recorded(p) \/ p = worker[w].event[1]
    BY <1>3, Booking
  <2>2. Acknowledges(w)
    BY <1>3, AnswerAcknowledges
  <2>3. \A p \in Pids : worker[w].event = <<p, "succeeded">> => RecordsOf(order', p) # {}
    BY <2>1
  <2> QED
    BY <1>2, <1>3, <2>1, <2>2, <2>3, AnsweredStep
<1>4. CASE order' = o /\ GivesUp(w)
  <2>1. Acknowledges(w) /\ logged' = logged \cup {worker[w].event[1]}
    BY <1>4, AnswerAcknowledges DEF GivesUp
  <2>2. RecordsAreBacked'
    BY <1>4 DEF BooksInv, RecordsAreBacked
  <2>3. \A p \in Pids : Recorded(p) => RecordsOf(order', p) # {}
    BY <1>4 DEF Recorded, RecordsOf
  <2> QED
    BY <1>1, <1>2, <1>4, <2>1, <2>2, <2>3, AnsweredStep
<1>5. CASE Stops(w) /\ UNCHANGED <<order, owed, logged>>
  <2>1. Acknowledges(w) /\ order' \in OrderRecord(Totals, Pids)
    BY <1>5, OrderTyped DEF BooksInv, Stops, Acknowledges
  <2>2. TypeOK'
    BY <1>2, <1>5, <2>1 DEF BooksInv, TypeOK, Stops, Worker
  <2>3. \A x \in Workers : worker'[x] = worker[x] \/ worker'[x].pc = "idle"
    BY <1>2, <1>5 DEF Stops, Idle
  <2> QED
    BY <1>5, <2>2, <2>3, QuietStep
<1> QED
  BY <1>3, <1>4, <1>5 DEF AddsTo

(* The steps of the webhook. *)
LEMMA WebhookStep ==
    ASSUME BooksInv, NEW w \in Workers,
           Handle(w) \/ Crash(w) \/ \E e \in owed : ReceiveWebhook(w, e)
    PROVE  BooksInv'
<1>1. TypeOK /\ EventsAreTrue /\ RecordsAreBacked /\ NoSilentLoss
  BY DEF BooksInv
<1>2. worker \in [Workers -> Worker] /\ order \in OrderRecord(Totals, Pids)
  BY <1>1 DEF TypeOK
<1>3. Idle \in Worker /\ Idle.pc = "idle"
  BY DEF Idle, Worker
<1>4. "ArrangingPayment" \in OrderState
  BY DEF OrderState
<1>5. CASE RejectEvent(w) \/ Crash(w)
  <2>1. /\ order' = order /\ intent' = intent /\ owed' = owed /\ logged' = logged
        /\ refunds' = refunds /\ eligible' = eligible
        /\ worker' = [worker EXCEPT ![w] = Idle]
    BY <1>5 DEF RejectEvent, Crash, Stops
  <2>2. disturbances' \in 0..MaxDisturbances
    BY <1>1, <1>5, ConstantsAssumption DEF TypeOK, RejectEvent, Crash, Disturb
  <2>3. TypeOK'
    BY <1>1, <1>3, <2>1, <2>2 DEF TypeOK
  <2>4. \A x \in Workers : worker'[x] = worker[x] \/ worker'[x].pc = "idle"
    BY <1>2, <1>3, <2>1
  <2> QED
    BY <2>1, <2>3, <2>4, QuietStep
<1>6. CASE IgnoreFailure(w)
  <2>1. /\ order' = order /\ intent' = intent /\ logged' = logged /\ refunds' = refunds
        /\ eligible' = eligible /\ disturbances' = disturbances
        /\ Answers200(w) /\ worker[w].event[2] = "failed"
    BY <1>6 DEF IgnoreFailure
  <2>2. Acknowledges(w)
    BY <2>1, AnswerAcknowledges
  <2>3. RecordsAreBacked' /\ \A p \in Pids : Recorded(p) => RecordsOf(order', p) # {}
    BY <1>1, <2>1 DEF RecordsAreBacked, Recorded, RecordsOf
  <2>4. \A p \in Pids : worker[w].event # <<p, "succeeded">>
    BY <2>1
  <2> QED
    BY <1>1, <1>2, <2>1, <2>2, <2>3, <2>4, AnsweredStep DEF TypeOK
<1>7. CASE ReadOrder(w) \/ TransitionFails(w)
  <2>1. /\ order' = order /\ intent' = intent /\ owed' = owed /\ logged' = logged
        /\ refunds' = refunds /\ eligible' = eligible /\ disturbances' = disturbances
        /\ worker[w].pc # "idle"
        /\ \E pc \in {"add", "transition", "retry"} :
               worker' = [worker EXCEPT ![w].pc = pc]
    BY <1>7 DEF ReadOrder, TransitionFails, Goes
  <2>2. worker[w].event[2] = "succeeded"
    BY <1>1, <1>7 DEF ReadOrder, TransitionFails, EventsAreTrue
  <2>3. worker' \in [Workers -> Worker]
    <3>1. worker[w] \in [pc : {"read", "transition", "retry", "add"}, event : Event]
      BY <1>2, <2>1 DEF Worker, Idle
    <3> QED
      BY <1>2, <2>1, <3>1 DEF Worker
  <2>4. TypeOK'
    BY <1>1, <2>1, <2>3 DEF TypeOK
  <2>5. \A x \in Workers : \/ worker'[x] = worker[x]
                           \/ /\ worker[x].pc # "idle"
                              /\ worker'[x].event = worker[x].event
                              /\ worker[x].event[2] = "succeeded"
    BY <1>2, <2>1, <2>2
  <2> QED
    BY <2>1, <2>4, <2>5, QuietStep
<1>8. CASE RetryTransition(w)
  <2>1. /\ order' = Transitioned(order, "ArrangingPayment") /\ intent' = intent
        /\ owed' = owed /\ logged' = logged /\ refunds' = refunds /\ eligible' = eligible
        /\ disturbances' = disturbances /\ worker[w].pc = "retry"
        /\ worker' = [worker EXCEPT ![w].pc = "add"]
    BY <1>8 DEF RetryTransition, Goes
  <2>2. order' \in OrderRecord(Totals, Pids) /\ order'.payments = order.payments
    BY <1>2, <1>4, <2>1, TransitionFacts
  <2>3. worker[w].event[2] = "succeeded"
    BY <1>1, <2>1 DEF EventsAreTrue
  <2>4. worker' \in [Workers -> Worker]
    <3>1. worker[w] \in [pc : {"read", "transition", "retry", "add"}, event : Event]
      BY <1>2, <2>1 DEF Worker, Idle
    <3> QED
      BY <1>2, <2>1, <3>1 DEF Worker
  <2>5. TypeOK'
    BY <1>1, <2>1, <2>2, <2>4 DEF TypeOK
  <2>6. \A x \in Workers : \/ worker'[x] = worker[x]
                           \/ /\ worker[x].pc # "idle"
                              /\ worker'[x].event = worker[x].event
                              /\ worker[x].event[2] = "succeeded"
    BY <1>2, <2>1, <2>3
  <2> QED
    BY <2>1, <2>2, <2>5, <2>6, QuietStep
<1>9. CASE TransitionAndAdd(w)
  <2>1. /\ Transitioned(order, "ArrangingPayment") \in OrderRecord(Totals, Pids)
        /\ Transitioned(order, "ArrangingPayment").payments = order.payments
    BY <1>2, <1>4, TransitionFacts
  <2> QED
    BY <1>9, <2>1, AddStep DEF TransitionAndAdd
<1>10. CASE AddPayment(w)
  BY <1>2, <1>10, AddStep DEF AddPayment
<1>11. CASE RetryFails(w)
  <2>1. /\ order' = order /\ intent' = intent /\ refunds' = refunds /\ eligible' = eligible
        /\ disturbances' = disturbances /\ worker[w].pc = "retry"
        /\ logged' = logged \cup {worker[w].event[1]} /\ Answers200(w)
    BY <1>11 DEF RetryFails, GivesUp
  <2>2. worker[w].event[1] \in Pids
    BY <1>2, <2>1 DEF Worker, Idle, Event
  <2>3. Acknowledges(w)
    BY <2>1, AnswerAcknowledges
  <2>4. RecordsAreBacked' /\ \A p \in Pids : Recorded(p) => RecordsOf(order', p) # {}
    BY <1>1, <2>1 DEF RecordsAreBacked, Recorded, RecordsOf
  <2> QED
    BY <1>1, <1>2, <2>1, <2>2, <2>3, <2>4, AnsweredStep DEF TypeOK
<1>12. ASSUME NEW e \in owed, ReceiveWebhook(w, e)
       PROVE  BooksInv'
  <2>1. /\ order' = order /\ intent' = intent /\ owed' = owed /\ logged' = logged
        /\ refunds' = refunds /\ eligible' = eligible /\ disturbances' = disturbances
        /\ worker' = [worker EXCEPT ![w] = [pc |-> "read", event |-> e]]
    BY <1>12 DEF ReceiveWebhook
  <2>2. e \in Event
    BY <1>1 DEF TypeOK
  <2>3. worker' \in [Workers -> Worker]
    BY <1>2, <2>1, <2>2 DEF Worker
  <2>4. TypeOK'
    BY <1>1, <2>1, <2>3 DEF TypeOK
  <2>5. e[2] = "succeeded" => intent[e[1]].status = "succeeded"
    BY <1>1, <2>2 DEF EventsAreTrue, Event
  <2>6. EventsAreTrue'
    BY <1>1, <1>2, <2>1, <2>5 DEF EventsAreTrue
  <2>7. RecordsAreBacked' /\ NoSilentLoss'
    BY <1>1, <2>1 DEF RecordsAreBacked, NoSilentLoss, Recorded, RecordsOf
  <2> QED
    BY <2>4, <2>6, <2>7 DEF BooksInv
<1> QED
  BY <1>5, <1>6, <1>7, <1>8, <1>9, <1>10, <1>11, <1>12 DEF Handle
-----------------------------------------------------------------------------
(* The inductive invariant holds initially, and every step keeps it.       *)
LEMMA BooksInit == Init => BooksInv
<1> SUFFICES ASSUME Init
             PROVE  BooksInv
  OBVIOUS
<1>1. TypeOK
  <2>1. order \in OrderRecord(Totals, Pids)
    <3>1. order \in [state : OrderState, total : Totals, ready : BOOLEAN,
                     placed : BOOLEAN, payments : {<<>>}]
      BY DEF Init, OrderState
    <3>2. <<>> \in Seq([tx : Pids, amount : Nat, state : PaymentState])
      OBVIOUS
    <3> QED
      BY <3>1, <3>2 DEF OrderRecord
  <2>2. /\ intent \in [Pids -> Intent] /\ refunds \in [Pids -> [shop : Nat, stripe : Nat]]
        /\ worker \in [Workers -> Worker]
    BY DEF Init, Intent, Worker
  <2> QED
    BY <2>1, <2>2, ConstantsAssumption DEF Init, TypeOK
<1>2. EventsAreTrue
  BY DEF Init, EventsAreTrue, Idle
<1>3. RecordsAreBacked /\ NoSilentLoss
  BY DEF Init, RecordsAreBacked, NoSilentLoss
<1> QED
  BY <1>1, <1>2, <1>3 DEF BooksInv

(* One case per group of actions; the work is in the lemmas above.         *)
LEMMA BooksStep == BooksInv /\ [Next]_vars => BooksInv'
<1> SUFFICES ASSUME BooksInv, [Next]_vars
             PROVE  BooksInv'
  OBVIOUS
<1>1. CASE UNCHANGED vars
  BY <1>1
  DEF vars, BooksInv, TypeOK, EventsAreTrue, RecordsAreBacked, NoSilentLoss, Recorded,
      RecordsOf
<1>2. CASE Shop
  BY <1>2, ShopStep
<1>3. ASSUME NEW p \in Pids, Stripe(p) \/ CreateRefund(p)
      PROVE  BooksInv'
  BY <1>3, StripeStep
<1>4. ASSUME NEW w \in Workers,
             Handle(w) \/ Crash(w) \/ \E e \in owed : ReceiveWebhook(w, e)
      PROVE  BooksInv'
  BY <1>4, WebhookStep
<1> QED
  BY <1>1, <1>2, <1>3, <1>4 DEF Next

(* The strengthening the three theorems below are read from: besides the   *)
(* books, an event in flight tells the truth about its intent.             *)
THEOREM BooksInvariant == Spec => []BooksInv
  BY BooksInit, BooksStep, PTL DEF Spec

(* Every variable of StripePayments keeps its type. *)
THEOREM TypeCorrect == Spec => []TypeOK
<1>1. BooksInv => TypeOK
  BY DEF BooksInv
<1> QED
  BY <1>1, BooksInvariant, PTL

(* What the order has recorded was paid at Stripe, in Stripe's amount, for *)
(* any number of intents and concurrent, repeated or interrupted webhooks. *)
THEOREM BooksAreBacked == Spec => []RecordsAreBacked
<1>1. BooksInv => RecordsAreBacked
  BY DEF BooksInv
<1> QED
  BY <1>1, BooksInvariant, PTL

(* A payment whose event was answered with 200 is on the order, or an      *)
(* error was logged for it.                                                *)
THEOREM NothingIsLost == Spec => []NoSilentLoss
<1>1. BooksInv => NoSilentLoss
  BY DEF BooksInv
<1> QED
  BY <1>1, BooksInvariant, PTL

-----------------------------------------------------------------------------
(* Refinement: every step of the plugin is a step of PaymentBooks or       *)
(* leaves the abstract books as they are.                                  *)

(* Nothing is taken and nothing booked at first, in both specifications.   *)
LEMMA RefinesInit == Init => Books!Init
<1> SUFFICES ASSUME Init
             PROVE  Books!Init
  OBVIOUS
<1>1. \A p \in Pids : ChargeOf(p) = "none"
  BY DEF Init, ChargeOf
<1>2. \A p \in Pids : BookedAs(p) = "none"
  BY DEF Init, BookedAs, Recorded, RecordsOf
<1> QED
  BY <1>1, <1>2 DEF Books!Init

(* A step takes money, books what was taken, or leaves both alone.         *)
LEMMA RefinesStep == BooksInv /\ [Next]_vars => [Books!Next]_Books!vars
<1> SUFFICES ASSUME BooksInv, [Next]_vars
             PROVE  [Books!Next]_Books!vars
  OBVIOUS
<1> DEFINE charge == [p \in Pids |-> ChargeOf(p)]
           booked == [p \in Pids |-> BookedAs(p)]
(* What the two mappings depend on. *)
<1>1. (\A p \in Pids : intent'[p].status = intent[p].status) => charge' = charge
  BY DEF ChargeOf
<1>2. order'.payments = order.payments => booked' = booked
  BY DEF BookedAs, Recorded, RecordsOf
<1>3. TypeOK
  BY DEF BooksInv
<1>4. ASSUME charge' = charge, booked' = booked
      PROVE  [Books!Next]_Books!vars
  BY <1>4 DEF Books!vars
<1>5. CASE UNCHANGED vars
  BY <1>1, <1>2, <1>4, <1>5 DEF vars
<1>6. CASE Shop
  <2>1. order'.payments = order.payments /\ intent' = intent
    <3>1. order \in OrderRecord(Totals, Pids)
      BY <1>3, OrderTyped
    <3>2. CASE EditOrder
      BY <3>1, <3>2 DEF EditOrder, OrderRecord
    <3>3. CASE MoveOrder
      BY <3>1, <3>3 DEF MoveOrder, Transitioned, OrderRecord
    <3>4. CASE ModifyOrder
      BY <3>1, <3>4 DEF ModifyOrder, Transitioned, OrderRecord
    <3>5. CASE ToggleMethod
      BY <3>5 DEF ToggleMethod
    <3> QED
      BY <1>6, <3>2, <3>3, <3>4, <3>5 DEF Shop
  <2> QED
    BY <1>1, <1>2, <1>4, <2>1
<1>7. ASSUME NEW p \in Pids, Stripe(p) \/ CreateRefund(p)
      PROVE  [Books!Next]_Books!vars
  <2>1. order' = order
    BY <1>7 DEF Stripe, CreatePaymentIntent, KeyExpires, CustomerPays, AttemptFails,
                CreateRefund
  <2>2. CASE CustomerPays(p)
    <3>0. /\ intent[p].status = "open" /\ intent'[p].status = "succeeded"
          /\ \A q \in Pids \ {p} : intent'[q] = intent[q]
      BY <1>3, <2>2 DEF CustomerPays, TypeOK, Intent
    <3>1. charge[p] = "none" /\ charge' = [charge EXCEPT ![p] = "taken"]
      <4>1. \A q \in Pids : ChargeOf(q)' = IF q = p THEN "taken" ELSE ChargeOf(q)
        BY <3>0 DEF ChargeOf
      <4> QED
        BY <3>0, <4>1 DEF ChargeOf
    <3>2. booked' = booked
      BY <1>2, <2>1
    <3>3. Books!Take(p)
      BY <3>1, <3>2 DEF Books!Take
    <3> QED
      BY <3>3 DEF Books!Next
  <2>3. CASE CreatePaymentIntent(p)
    <3>1. charge' = charge
      BY <1>3, <2>3 DEF CreatePaymentIntent, ChargeOf, TypeOK
    <3> QED
      BY <1>2, <1>4, <2>1, <3>1
  <2>4. CASE KeyExpires(p)
    <3>1. \A q \in Pids : intent'[q].status = intent[q].status
      BY <1>3, <2>4 DEF KeyExpires, TypeOK, Intent
    <3> QED
      BY <1>1, <1>2, <1>4, <2>1, <3>1
  <2>5. CASE AttemptFails(p) \/ CreateRefund(p)
    BY <1>1, <1>2, <1>4, <2>1, <2>5 DEF AttemptFails, CreateRefund
  <2> QED
    BY <1>7, <2>2, <2>3, <2>4, <2>5 DEF Stripe
<1>8. ASSUME NEW w \in Workers, worker[w].pc \in {"transition", "add"},
             NEW o \in OrderRecord(Totals, Pids), o.payments = order.payments,
             AddsTo(w, o), intent' = intent
      PROVE  [Books!Next]_Books!vars
  <2>1. CASE order' = WithPayment(o, CreatedPayment(w))
    <3> DEFINE p == worker[w].event[1]
    <3>1. /\ p \in Pids
          /\ \A q \in Pids : RecordsOf(order', q) # {} <=> Recorded(q) \/ q = p
      BY <1>8, <2>1, Booking
    <3>2. intent[p].status = "succeeded"
      <4>1. worker[w].event[2] = "succeeded" /\ worker[w].pc # "idle"
        BY <1>8 DEF BooksInv, EventsAreTrue
      <4> QED
        BY <4>1 DEF BooksInv, EventsAreTrue
    <3> HIDE DEF p
    <3>3. charge' = charge /\ charge[p] = "taken"
      BY <1>1, <1>8, <3>1, <3>2 DEF ChargeOf
    <3>4. \A q \in Pids : BookedAs(q)' = IF q = p THEN "settled" ELSE BookedAs(q)
      BY <3>1 DEF BookedAs, Recorded
    <3>5. booked' = [booked EXCEPT ![p] = "settled"]
      BY <3>4
    <3>6. CASE booked[p] = "settled"
      <4>1. booked' = booked
        BY <3>5, <3>6
      <4> QED
        BY <1>4, <3>3, <4>1
    <3>7. CASE booked[p] # "settled"
      <4>1. Books!BookSettled(p)
        BY <3>3, <3>5, <3>7 DEF Books!BookSettled
      <4> QED
        BY <3>1, <4>1 DEF Books!Next
    <3> QED
      BY <3>6, <3>7
  <2>2. CASE order' = o \/ UNCHANGED order
    BY <1>1, <1>2, <1>4, <1>8, <2>2
  <2> QED
    BY <1>8, <2>1, <2>2 DEF AddsTo
<1>9. ASSUME NEW w \in Workers,
             Handle(w) \/ Crash(w) \/ \E e \in owed : ReceiveWebhook(w, e)
      PROVE  [Books!Next]_Books!vars
  <2>1. order \in OrderRecord(Totals, Pids) /\ "ArrangingPayment" \in OrderState
    BY <1>3, OrderTyped DEF OrderState
  <2>2. /\ Transitioned(order, "ArrangingPayment") \in OrderRecord(Totals, Pids)
        /\ Transitioned(order, "ArrangingPayment").payments = order.payments
    BY <2>1, TransitionFacts
  <2>3. CASE TransitionAndAdd(w)
    BY <1>8, <2>2, <2>3 DEF TransitionAndAdd
  <2>4. CASE AddPayment(w)
    BY <1>8, <2>1, <2>4 DEF AddPayment
  <2>5. CASE RetryTransition(w)
    BY <1>1, <1>2, <1>4, <2>2, <2>5 DEF RetryTransition
  <2>6. CASE \/ RejectEvent(w) \/ IgnoreFailure(w) \/ ReadOrder(w) \/ TransitionFails(w)
             \/ RetryFails(w) \/ Crash(w) \/ \E e \in owed : ReceiveWebhook(w, e)
    <3>1. order' = order /\ intent' = intent
      BY <2>6
      DEF RejectEvent, IgnoreFailure, ReadOrder, TransitionFails, RetryFails, Crash,
          ReceiveWebhook
    <3> QED
      BY <1>1, <1>2, <1>4, <3>1
  <2> QED
    BY <1>9, <2>3, <2>4, <2>5, <2>6 DEF Handle
<1> QED
  BY <1>5, <1>6, <1>7, <1>9 DEF Next

(* The plugin implements PaymentBooks: at any time it has booked only what *)
(* Stripe took, one payment at a time, and never takes a booking back.     *)
THEOREM Refinement == Spec => KeepsTheBooks
<1>1. Init => Books!Init
  BY RefinesInit
<1>2. BooksInv /\ [Next]_vars => [Books!Next]_Books!vars
  BY RefinesStep
<1> QED
  BY <1>1, <1>2, BooksInvariant, PTL DEF Spec, KeepsTheBooks, Books!Spec

-----------------------------------------------------------------------------
(* SettledOrderIsPaid: an order is settled only while its records cover    *)
(* it, and each of these has the money behind it.                          *)

(* Stripe has created some intents, never infinitely many. *)
Created == {p \in Pids : intent[p].status # "none"}

PaidInv ==
    /\ BooksInv
    /\ CoveredIfSettled(order)
    /\ IsFiniteSet(Created)

(* addPaymentToOrder leaves an order that is settled covered.              *)
LEMMA AddCovers ==
    ASSUME TypeOK, NEW w \in Workers, worker[w].pc \in {"transition", "add"},
           NEW o \in OrderRecord(Totals, Pids), CoveredIfSettled(o),
           CoveredIfSettled(order), AddsTo(w, o)
    PROVE  CoveredIfSettled(order')
<1>1. CASE CanAddPayment(o) /\ order' = WithPayment(o, CreatedPayment(w))
  <2> DEFINE r == CreatedPayment(w)
  <2>1. worker[w].event[1] \in Pids
    BY DEF TypeOK, Worker, Idle, Event
  <2>2. AmountFromStripeMinorUnits(intent[worker[w].event[1]].amount) \in Nat
    <3>1. intent[worker[w].event[1]].amount \in Nat
      BY <2>1 DEF TypeOK, Intent
    <3> QED
      BY <3>1, ConstantsAssumption DEF AmountFromStripeMinorUnits
  <2>3. r \in PaymentRecord(Pids)
    BY <2>1, <2>2 DEF CreatedPayment, PaymentRecord, PaymentState
  <2> HIDE DEF r
  <2> QED
    BY <1>1, <2>3, WithPaymentCovers DEF r
<1>2. CASE order' = o \/ order' = order
  BY <1>2
<1> QED
  BY <1>1, <1>2 DEF AddsTo

(* No step leaves a settled order uncovered: its total grows and payments  *)
(* come only after it left PaymentSettled.                                 *)
LEMMA CoveredStep ==
    ASSUME TypeOK, CoveredIfSettled(order), [Next]_vars
    PROVE  CoveredIfSettled(order')
<1>1. order \in OrderRecord(Totals, Pids) /\ Totals \subseteq Nat
  BY ConstantsAssumption DEF TypeOK
<1>2. CASE order' = order
  BY <1>2
<1>3. CASE EditOrder
  BY <1>1, <1>3 DEF EditOrder, OrderRecord, CoveredIfSettled
<1>4. CASE MoveOrder
  <2>1. PICK to \in OrderState : CanTransition(order, to) /\ order' = Transitioned(order, to)
    BY <1>4 DEF MoveOrder, OrderState
  <2> QED
    BY <1>1, <2>1, TransitionCovers
<1>5. CASE ModifyOrder
  <2>1. order'.state = "ArrangingAdditionalPayment"
    BY <1>1, <1>5 DEF ModifyOrder, Transitioned, OrderRecord
  <2> QED
    BY <2>1 DEF CoveredIfSettled
<1>6. ASSUME CanTransition(order, "ArrangingPayment")
      PROVE  /\ Transitioned(order, "ArrangingPayment") \in OrderRecord(Totals, Pids)
             /\ CoveredIfSettled(Transitioned(order, "ArrangingPayment"))
  BY <1>1, <1>6, TransitionFacts, TransitionCovers DEF OrderState
<1>7. ASSUME NEW w \in Workers, TransitionAndAdd(w) \/ AddPayment(w) \/ RetryTransition(w)
      PROVE  CoveredIfSettled(order')
  BY <1>1, <1>6, <1>7, AddCovers DEF TransitionAndAdd, AddPayment, RetryTransition
<1>8. ASSUME NEW p \in Pids, Stripe(p) \/ CreateRefund(p)
      PROVE  CoveredIfSettled(order')
  BY <1>2, <1>8
  DEF Stripe, CreatePaymentIntent, KeyExpires, CustomerPays, AttemptFails, CreateRefund
<1>9. ASSUME NEW w \in Workers,
             \/ RejectEvent(w) \/ IgnoreFailure(w) \/ ReadOrder(w) \/ TransitionFails(w)
             \/ RetryFails(w) \/ Crash(w) \/ \E e \in owed : ReceiveWebhook(w, e)
      PROVE  CoveredIfSettled(order')
  BY <1>2, <1>9
  DEF RejectEvent, IgnoreFailure, ReadOrder, TransitionFails, RetryFails, Crash,
      ReceiveWebhook
<1>10. CASE ToggleMethod \/ UNCHANGED vars
  BY <1>2, <1>10 DEF ToggleMethod, vars
<1> QED
  BY <1>3, <1>4, <1>5, <1>7, <1>8, <1>9, <1>10 DEF Next, Shop, Handle

(* A step creates at most one intent.                                      *)
LEMMA CreatedStep ==
    ASSUME TypeOK, IsFiniteSet(Created), [Next]_vars
    PROVE  IsFiniteSet(Created')
<1>1. intent \in [Pids -> Intent]
  BY DEF TypeOK
<1>2. ASSUME intent' = intent
      PROVE  IsFiniteSet(Created')
  BY <1>2 DEF Created
<1>3. ASSUME NEW p \in Pids, CreatePaymentIntent(p) \/ KeyExpires(p) \/ CustomerPays(p)
      PROVE  IsFiniteSet(Created')
  <2>1. \A q \in Pids \ {p} : intent'[q] = intent[q]
    BY <1>1, <1>3 DEF CreatePaymentIntent, KeyExpires, CustomerPays
  <2>2. Created' \subseteq Created \cup {p}
    BY <2>1 DEF Created
  <2>3. IsFiniteSet(Created \cup {p})
    BY FS_AddElement
  <2> QED
    BY <2>2, <2>3, FS_Subset
<1>4. CASE Shop \/ UNCHANGED vars
  BY <1>2, <1>4 DEF vars, Shop, EditOrder, MoveOrder, ModifyOrder, ToggleMethod
<1>5. ASSUME NEW p \in Pids, AttemptFails(p) \/ CreateRefund(p)
      PROVE  IsFiniteSet(Created')
  BY <1>2, <1>5 DEF AttemptFails, CreateRefund
<1>6. ASSUME NEW w \in Workers,
             Handle(w) \/ Crash(w) \/ \E e \in owed : ReceiveWebhook(w, e)
      PROVE  IsFiniteSet(Created')
  BY <1>2, <1>6
  DEF Handle, RejectEvent, IgnoreFailure, ReadOrder, TransitionAndAdd, TransitionFails,
      RetryTransition, RetryFails, AddPayment, Crash, ReceiveWebhook
<1> QED
  BY <1>3, <1>4, <1>5, <1>6 DEF Next, Stripe

(* What the customer paid in all is a sum over the intents that succeeded. *)
LEMMA TakenIsSum ==
    ASSUME IsFiniteSet(Created)
    PROVE  LET paid == {p \in Pids : intent[p].status = "succeeded"}
           IN  /\ IsFiniteSet(paid)
               /\ MoneyTaken =
                      SumOf([p \in Pids |-> AmountFromStripeMinorUnits(intent[p].amount)], paid)
<1> DEFINE R == {p \in Pids : intent[p].status = "succeeded"}
           f == [p \in Pids |-> AmountFromStripeMinorUnits(intent[p].amount)]
           iter == CHOOSE h : h = [s \in SUBSET R |->
                       IF s = {} THEN 0
                       ELSE AmountFromStripeMinorUnits(intent[CHOOSE x \in s : TRUE].amount)
                                + h[s \ {CHOOSE x \in s : TRUE}]]
<1>1. MoneyTaken = iter[R]
  BY Zenon DEF MoneyTaken, MapThenSumSet, MapThenFoldSet
<1>2. R \subseteq Created /\ \A x \in R : f[x] = AmountFromStripeMinorUnits(intent[x].amount)
  BY DEF Created
<1>3. IsFiniteSet(R)
  <2> HIDE DEF R
  <2> QED
    BY <1>2, FS_Subset
<1> HIDE DEF R, f
<1>4. \A s \in SUBSET R : s # {} =>
          f[CHOOSE x \in s : TRUE] =
              AmountFromStripeMinorUnits(intent[CHOOSE x \in s : TRUE].amount)
  BY <1>2, ChosenIsIn
<1>5. PICK g : IsSum(g, f, R)
  BY <1>3, SumExists
<1>6. g = [s \in SUBSET R |->
              IF s = {} THEN 0
              ELSE AmountFromStripeMinorUnits(intent[CHOOSE x \in s : TRUE].amount)
                       + g[s \ {CHOOSE x \in s : TRUE}]]
  BY <1>4, <1>5 DEF IsSum
<1>7. iter = [s \in SUBSET R |->
                 IF s = {} THEN 0
                 ELSE AmountFromStripeMinorUnits(intent[CHOOSE x \in s : TRUE].amount)
                          + iter[s \ {CHOOSE x \in s : TRUE}]]
  BY <1>6
<1> HIDE DEF iter
<1>8. IsSum(iter, f, R)
  BY <1>4, <1>7 DEF IsSum
<1>9. iter[R] = SumOf(f, R)
  BY <1>3, <1>8, SumsAreSums
<1> QED
  BY <1>1, <1>3, <1>9 DEF R, f

(* PaidInv is inductive, and is what SettledOrderIsPaid takes.             *)
LEMMA PaidInvariant == Spec => []PaidInv
<1>1. Init => PaidInv
  <2> SUFFICES ASSUME Init
               PROVE  PaidInv
    OBVIOUS
  <2>1. CoveredIfSettled(order)
    BY DEF Init, CoveredIfSettled
  <2>2. Created = {}
    BY DEF Init, Created
  <2> QED
    BY <2>1, <2>2, BooksInit, FS_EmptySet DEF PaidInv
<1>2. PaidInv /\ [Next]_vars => PaidInv'
  <2> SUFFICES ASSUME PaidInv, [Next]_vars
               PROVE  PaidInv'
    OBVIOUS
  <2>1. TypeOK /\ BooksInv /\ BooksInv'
    BY BooksStep DEF PaidInv, BooksInv
  <2>2. CoveredIfSettled(order')
    BY <2>1, CoveredStep DEF PaidInv
  <2>3. IsFiniteSet(Created')
    BY <2>1, CreatedStep DEF PaidInv
  <2>4. CoveredIfSettled(order)'
    BY <2>2, Zenon DEF CoveredIfSettled, CoveredBy, MapThenSumSet, MapThenFoldSet
  <2> QED
    BY <2>1, <2>3, <2>4 DEF PaidInv
<1> QED
  BY <1>1, <1>2, PTL DEF Spec

(* Whatever is recorded twice aside, a settled order is paid in full: what *)
(* Stripe took adds up to no less than the order's total, in whatever      *)
(* currency and however often the total changed under open intents.        *)
THEOREM SettledIsPaid == Spec => []SettledOrderIsPaid
<1>1. PaidInv => SettledOrderIsPaid
  <2> SUFFICES ASSUME PaidInv, order.state = "PaymentSettled", RecordedOnce
               PROVE  MoneyTaken >= order.total
    BY DEF SettledOrderIsPaid
  <2> DEFINE paid == {p \in Pids : intent[p].status = "succeeded"}
             taken == [p \in Pids |-> AmountFromStripeMinorUnits(intent[p].amount)]
  <2>1. /\ TypeOK /\ RecordsAreBacked /\ CoveredIfSettled(order)
        /\ IsFiniteSet(paid) /\ MoneyTaken = SumOf(taken, paid)
    BY TakenIsSum DEF PaidInv, BooksInv
  <2>2. order \in OrderRecord(Totals, Pids) /\ Totals \subseteq Nat
    BY <2>1, ConstantsAssumption DEF TypeOK
  <2>3. \A p \in paid : taken[p] \in Nat
    <3>1. \A p \in Pids : intent[p].amount \in Nat
      BY <2>1 DEF TypeOK, Intent
    <3> QED
      BY <3>1, ConstantsAssumption DEF AmountFromStripeMinorUnits
  <2>4. ASSUME NEW i \in DOMAIN order.payments
        PROVE  /\ order.payments[i].tx \in paid
               /\ order.payments[i].amount = taken[order.payments[i].tx]
    <3>1. order.payments[i].tx \in Pids
      BY <2>1, OrderTyped DEF PaymentRecord
    <3> QED
      BY <2>1, <3>1 DEF RecordsAreBacked
  <2>5. \A i, j \in DOMAIN order.payments :
            order.payments[i].tx = order.payments[j].tx => i = j
    BY DEF RecordedOnce
  <2> HIDE DEF paid, taken
  <2>6. SumOf(taken, paid) >= order.total
    BY <2>1, <2>2, <2>3, <2>4, <2>5, SettledIsTaken
  <2> QED
    BY <2>1, <2>6
<1> QED
  BY <1>1, PaidInvariant, PTL
=============================================================================
