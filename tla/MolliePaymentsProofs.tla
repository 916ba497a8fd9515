------------------------ MODULE MolliePaymentsProofs ------------------------
(***************************************************************************)
(* Theorems about MolliePayments, for every set of payments, workers and   *)
(* totals: the order's books never run ahead of Mollie, no payment is      *)
(* acknowledged without being booked or reported, an order that is settled *)
(* is paid, and the plugin implements PaymentBooks.                        *)
(***************************************************************************)
EXTENDS MolliePayments, VendureOrderProofs, TLAPS

(* What a request holds while it is suspended at an await: the status it   *)
(* fetched may be stale, but only in ways that do no harm.                 *)
HeldStatusIsSafe(w) ==
    /\ worker[w].pc \in {"fetch", "read", "settle", "move"} => worker[w].pid \in Pids
    /\ worker[w].pc \in {"read", "add", "settle"} /\ worker[w].pid \in Pids =>
           /\ worker[w].status = "paid" => mollie[worker[w].pid].status = "paid"
           /\ worker[w].status = "authorized" =>
                  mollie[worker[w].pid].status \in {"authorized", "released", "paid"}
    /\ worker[w].pc = "add" => worker[w].status \in {"authorized", "paid"}
    /\ worker[w].pc = "settle" => worker[w].status = "paid"

CapturedIsPaid == \A p \in Pids : capture[p] = "succeeded" => mollie[p].status = "paid"

(* RecordsAreBacked is not inductive by itself: a request that fetched a   *)
(* payment books it later, and a capture that succeeded is seen later.     *)
BackedInv ==
    /\ TypeOK
    /\ RecordsAreBacked
    /\ \A w \in Workers : HeldStatusIsSafe(w)
    /\ CapturedIsPaid

(* A webhook for a payment that was paid was sent after it was paid, and   *)
(* a request that serves it fetches it as paid.                            *)
PaidNoticeIsTrue ==
    /\ \A p \in Pids : <<p, "paid">> \in hook => mollie[p].status = "paid"
    /\ \A w \in Workers :
           worker[w].kind = "webhook" =>
               /\ worker[w].pid \in Pids
               /\ worker[w].note = "paid" =>
                      /\ mollie[worker[w].pid].status = "paid"
                      /\ worker[w].pc # "fetch" => worker[w].status = "paid"

(* Only an order that was placed is in a paid state. *)
PaidStatesArePlaced == PlacedIfPaid(order)

(* A settlement that still has to move the order has saved the payment. *)
MovingIsRecorded ==
    \A w \in Workers : worker[w].pc = "move" => RecordsOf(order, worker[w].pid) # {}

NoLossInv ==
    /\ BackedInv
    /\ PaidNoticeIsTrue
    /\ MovingIsRecorded
    /\ PaidStatesArePlaced
    /\ NoSilentLoss

-----------------------------------------------------------------------------
(* How a request ends: its worker is free, or takes up the next payment of *)
(* a sync.                                                                 *)
Resting(v) ==
    /\ v \in Worker
    /\ v.kind # "webhook"
    /\ \/ v.pc = "idle"
       \/ v.pc = "fetch" /\ v.pid \in Pids

(* An idle request is at rest.                                             *)
LEMMA IdleRests == Resting(Idle)
  BY DEF Resting, Idle, Worker, Txs, MollieStatus, OrderState

(* Returning or throwing lets the worker rest, sets the order to what the  *)
(* handler left, and acknowledges at most the webhook being served.        *)
LEMMA ReturnsFacts ==
    ASSUME TypeOK, NEW w \in Workers, NEW o, Returns(w, o)
    PROVE  /\ order' = o
           /\ \E v : Resting(v) /\ worker' = [worker EXCEPT ![w] = v]
           /\ hook' \subseteq hook
           /\ \A n \in hook : n \notin hook' =>
                  worker[w].kind = "webhook" /\ n = <<worker[w].pid, worker[w].note>>
<1>1. order' = o
  BY DEF Returns
<1>2. \E v : Resting(v) /\ worker' = [worker EXCEPT ![w] = v]
  <2>1. CASE Stops(w)
    BY <2>1, IdleRests DEF Stops
  <2>2. CASE NextOfSync(w)
    <3>1. PICK q \in worker[w].todo :
              worker' = [worker EXCEPT ![w] =
                            [Idle EXCEPT !.pc = "fetch", !.kind = "sync", !.pid = q,
                                         !.todo = worker[w].todo \ {q}]]
      BY <2>2 DEF NextOfSync
    <3>2. worker[w].todo \subseteq Pids
      BY DEF TypeOK, Worker
    <3>3. Resting([Idle EXCEPT !.pc = "fetch", !.kind = "sync", !.pid = q,
                               !.todo = worker[w].todo \ {q}])
      BY <3>2 DEF Resting, Idle, Worker, Txs, MollieStatus, OrderState
    <3> QED
      BY <3>1, <3>3
  <2> QED
    BY <2>1, <2>2 DEF Returns
<1>3. /\ hook' \subseteq hook
      /\ \A n \in hook : n \notin hook' =>
             worker[w].kind = "webhook" /\ n = <<worker[w].pid, worker[w].note>>
  BY DEF Returns
<1> QED
  BY <1>1, <1>2, <1>3

(* A throw ends the request and leaves the webhook to be repeated.         *)
LEMMA ThrowsFacts ==
    ASSUME NEW w \in Workers, Throws(w)
    PROVE  /\ order' = order
           /\ hook' = hook
           /\ \E v : Resting(v) /\ worker' = [worker EXCEPT ![w] = v]
  BY IdleRests DEF Throws, Stops

-----------------------------------------------------------------------------
(* What Mollie has done it does not undo, and it never changes an amount.  *)
MollieGoesOn ==
    \A p \in Pids :
        mollie[p].status \in {"authorized", "released", "paid"} =>
            /\ mollie'[p].status \in {"authorized", "released", "paid"}
            /\ mollie[p].status = "paid" => mollie'[p].status = "paid"
            /\ mollie'[p].amount = mollie[p].amount

(* The payments of a well-typed order, for the steps that change some.     *)
LEMMA OrderTyped ==
    ASSUME TypeOK
    PROVE  /\ order.payments \in Seq(PaymentRecord(Txs))
           /\ \A i \in DOMAIN order.payments : order.payments[i] \in PaymentRecord(Txs)
<1>1. order.payments \in Seq(PaymentRecord(Txs))
  BY DEF TypeOK, OrderRecord, PaymentRecord
<1> QED
  BY <1>1

(* The recorded payments stay backed while Mollie goes on. *)
LEMMA RecordsKept ==
    ASSUME TypeOK, RecordsAreBacked, order'.payments = order.payments, MollieGoesOn
    PROVE  RecordsAreBacked'
<1> SUFFICES ASSUME NEW i \in DOMAIN order.payments, order.payments[i].tx # FreeTx
             PROVE  /\ order.payments[i].amount = mollie'[order.payments[i].tx].amount
                    /\ mollie'[order.payments[i].tx].status \in
                           IF order.payments[i].state = "Settled" THEN {"paid"}
                           ELSE {"authorized", "released", "paid"}
  BY DEF RecordsAreBacked
<1>1. order.payments[i].tx \in Pids
  BY OrderTyped DEF PaymentRecord, Txs
<1>2. /\ order.payments[i].amount = mollie[order.payments[i].tx].amount
      /\ mollie[order.payments[i].tx].status \in
             IF order.payments[i].state = "Settled" THEN {"paid"}
             ELSE {"authorized", "released", "paid"}
  BY DEF RecordsAreBacked
<1> QED
  BY <1>1, <1>2 DEF MollieGoesOn

(* Appending a backed payment keeps the books backed. *)
LEMMA RecordAppended ==
    ASSUME TypeOK, RecordsAreBacked, mollie' = mollie,
           NEW r \in PaymentRecord(Txs), order'.payments = Append(order.payments, r),
           r.tx = FreeTx => r.amount = 0,
           r.tx # FreeTx => /\ r.amount = mollie[r.tx].amount
                            /\ mollie[r.tx].status \in
                                   IF r.state = "Settled" THEN {"paid"}
                                   ELSE {"authorized", "released", "paid"}
    PROVE  RecordsAreBacked'
<1>1. order.payments \in Seq(PaymentRecord(Txs))
  BY OrderTyped
<1>2. \A i \in DOMAIN order'.payments :
          \/ i \in DOMAIN order.payments /\ order'.payments[i] = order.payments[i]
          \/ order'.payments[i] = r
  BY <1>1
<1> QED
  BY <1>2 DEF RecordsAreBacked

(* Settling the record of a payment Mollie took keeps the books backed. *)
LEMMA RecordSettled ==
    ASSUME TypeOK, RecordsAreBacked, mollie' = mollie,
           NEW i \in DOMAIN order.payments,
           order'.payments = [order.payments EXCEPT ![i].state = "Settled"],
           order.payments[i].tx \in Pids => mollie[order.payments[i].tx].status = "paid"
    PROVE  RecordsAreBacked'
<1>1. order.payments \in Seq(PaymentRecord(Txs))
  BY OrderTyped
<1>2. \A j \in DOMAIN order.payments : order.payments[j] \in PaymentRecord(Txs)
  BY OrderTyped
<1>3. DOMAIN order'.payments = DOMAIN order.payments
  BY <1>1
<1>4. \A j \in DOMAIN order.payments : j # i => order'.payments[j] = order.payments[j]
  BY <1>1
<1>5. /\ order'.payments[i].tx = order.payments[i].tx
      /\ order'.payments[i].amount = order.payments[i].amount
      /\ order'.payments[i].state = "Settled"
  BY <1>1, <1>2 DEF PaymentRecord
<1>6. order.payments[i].tx \in Pids \cup {FreeTx}
  BY <1>2 DEF PaymentRecord, Txs
<1>7. ASSUME NEW j \in DOMAIN order.payments, j # i
      PROVE  IF order'.payments[j].tx = FreeTx THEN order'.payments[j].amount = 0
             ELSE /\ order'.payments[j].amount = mollie'[order'.payments[j].tx].amount
                  /\ mollie'[order'.payments[j].tx].status \in
                         IF order'.payments[j].state = "Settled" THEN {"paid"}
                         ELSE {"authorized", "released", "paid"}
  BY <1>4, <1>7 DEF RecordsAreBacked
<1>8. IF order'.payments[i].tx = FreeTx THEN order'.payments[i].amount = 0
      ELSE /\ order'.payments[i].amount = mollie'[order'.payments[i].tx].amount
           /\ mollie'[order'.payments[i].tx].status \in
                  IF order'.payments[i].state = "Settled" THEN {"paid"}
                  ELSE {"authorized", "released", "paid"}
  BY <1>5, <1>6 DEF RecordsAreBacked
<1> QED
  BY <1>3, <1>7, <1>8 DEF RecordsAreBacked

(* Requests that are not touched hold what they held. *)
LEMMA HeldKept ==
    ASSUME TypeOK, \A w \in Workers : HeldStatusIsSafe(w), MollieGoesOn, worker' = worker
    PROVE  \A w \in Workers : HeldStatusIsSafe(w)'
<1> SUFFICES ASSUME NEW w \in Workers
             PROVE  HeldStatusIsSafe(w)'
  OBVIOUS
<1>1. HeldStatusIsSafe(w)
  OBVIOUS
<1> QED
  BY <1>1 DEF HeldStatusIsSafe, MollieGoesOn

(* A request at rest holds nothing. *)
LEMMA HeldAtRest ==
    ASSUME TypeOK, \A w \in Workers : HeldStatusIsSafe(w), mollie' = mollie,
           NEW w \in Workers, NEW v, Resting(v), worker' = [worker EXCEPT ![w] = v]
    PROVE  /\ worker' \in [Workers -> Worker]
           /\ \A x \in Workers : HeldStatusIsSafe(x)'
<1>1. worker \in [Workers -> Worker]
  BY DEF TypeOK
<1>2. worker' \in [Workers -> Worker] /\ worker'[w] = v
  BY <1>1 DEF Resting
<1>3. ASSUME NEW x \in Workers
      PROVE  HeldStatusIsSafe(x)'
  <2>1. CASE x = w
    BY <1>2, <2>1 DEF HeldStatusIsSafe, Resting
  <2>2. CASE x # w
    <3>1. worker'[x] = worker[x]
      BY <1>1, <2>2
    <3>2. HeldStatusIsSafe(x)
      OBVIOUS
    <3> QED
      BY <3>1, <3>2 DEF HeldStatusIsSafe
  <2> QED
    BY <2>1, <2>2
<1> QED
  BY <1>2, <1>3

-----------------------------------------------------------------------------
(* BackedInv, one lemma per group of actions.                              *)

(* What customer and administrator do to an order adds no payment to it.   *)
LEMMA ShopKeepsBacked ==
    ASSUME BackedInv, Shop
    PROVE  BackedInv'
<1>1. /\ TypeOK /\ RecordsAreBacked /\ CapturedIsPaid
      /\ \A w \in Workers : HeldStatusIsSafe(w)
  BY DEF BackedInv
<1>2. /\ mollie' = mollie /\ intents' = intents /\ capture' = capture /\ hook' = hook
      /\ reported' = reported /\ worker' = worker /\ polling' = polling
  BY DEF Shop, EditOrder, MoveOrder, CancelOrder, ModifyOrder
<1>3. disturbances' \in 0..MaxDisturbances
  <2>1. Disturb \/ disturbances' = disturbances
    BY DEF Shop, EditOrder, MoveOrder, CancelOrder, ModifyOrder
  <2>2. disturbances \in 0..MaxDisturbances
    BY <1>1 DEF TypeOK
  <2> QED
    BY <2>1, <2>2, ConstantsAssumption DEF Disturb
<1>4. order' \in OrderRecord(Totals, Txs) /\ order'.payments = order.payments
  <2>1. order \in OrderRecord(Totals, Txs)
    BY <1>1 DEF TypeOK
  <2>2. CASE EditOrder
    BY <2>1, <2>2 DEF EditOrder, OrderRecord
  <2>3. CASE MoveOrder
    BY <2>1, <2>3, TransitionFacts DEF MoveOrder, OrderState
  <2>4. CASE CancelOrder
    BY <2>1, <2>4, TransitionFacts DEF CancelOrder, OrderState
  <2>5. CASE ModifyOrder
    <3>1. PICK t \in Totals : order' = Transitioned([order EXCEPT !.total = t],
                                                   "ArrangingAdditionalPayment")
      BY <2>5 DEF ModifyOrder
    <3> DEFINE raised == [order EXCEPT !.total = t]
    <3>2. /\ raised \in OrderRecord(Totals, Txs)
          /\ raised.payments = order.payments
      BY <2>1 DEF OrderRecord
    <3>3. "ArrangingAdditionalPayment" \in OrderState
      BY DEF OrderState
    <3>4. order' = Transitioned(raised, "ArrangingAdditionalPayment")
      BY <3>1
    <3> HIDE DEF raised
    <3> QED
      BY <3>2, <3>3, <3>4, TransitionFacts
  <2> QED
    BY <2>2, <2>3, <2>4, <2>5 DEF Shop
<1>5. MollieGoesOn
  BY <1>2 DEF MollieGoesOn
<1>6. TypeOK'
  BY <1>1, <1>2, <1>3, <1>4 DEF TypeOK
<1>7. RecordsAreBacked'
  BY <1>1, <1>4, <1>5, RecordsKept
<1>8. \A w \in Workers : HeldStatusIsSafe(w)'
  BY <1>1, <1>2, <1>5, HeldKept
<1>9. CapturedIsPaid'
  BY <1>1, <1>2 DEF CapturedIsPaid
<1> QED
  BY <1>6, <1>7, <1>8, <1>9 DEF BackedInv

(* Steps at Mollie, and the request of a new payment. *)
LEMMA MollieKeepsBacked ==
    ASSUME BackedInv, NEW p \in Pids, Mollie(p) \/ CreatePaymentIntent(p)
    PROVE  BackedInv' /\ MollieGoesOn
<1>1. /\ TypeOK /\ RecordsAreBacked /\ CapturedIsPaid
      /\ \A w \in Workers : HeldStatusIsSafe(w)
  BY DEF BackedInv
<1>2. /\ order' = order /\ reported' = reported /\ worker' = worker
      /\ polling' = polling /\ disturbances' = disturbances
  BY DEF Mollie, CreatePaymentIntent, CustomerPays, PaymentFails, AuthorizationLapses,
         CaptureSucceeds, CaptureFails, MollieSets
<1>3. /\ mollie' \in [Pids -> [status : MollieStatus, amount : Nat, manual : BOOLEAN]]
      /\ MollieGoesOn
      /\ hook' \subseteq Pids \X MollieStatus
      /\ intents' \in Seq(Pids)
  <2>0. /\ mollie \in [Pids -> [status : MollieStatus, amount : Nat, manual : BOOLEAN]]
        /\ hook \subseteq Pids \X MollieStatus
        /\ intents \in Seq(Pids)
    BY <1>1 DEF TypeOK
  <2>1. ASSUME NEW st \in MollieStatus, MollieSets(p, st),
               mollie[p].status \in {"authorized", "released", "paid"} =>
                   st \in {"released", "paid"},
               mollie[p].status # "paid"
        PROVE  /\ mollie' \in [Pids -> [status : MollieStatus, amount : Nat, manual : BOOLEAN]]
               /\ MollieGoesOn
               /\ hook' \subseteq Pids \X MollieStatus
               /\ intents' \in Seq(Pids)
    BY <2>0, <2>1 DEF MollieSets, MollieGoesOn
  <2>2. CASE CustomerPays(p)
    BY <2>1, <2>2 DEF CustomerPays, MollieStatus
  <2>3. CASE PaymentFails(p)
    BY <2>1, <2>3 DEF PaymentFails, MollieStatus
  <2>4. CASE AuthorizationLapses(p)
    BY <2>1, <2>4 DEF AuthorizationLapses, MollieStatus
  <2>5. CASE CaptureSucceeds(p)
    BY <2>1, <2>5 DEF CaptureSucceeds, MollieStatus
  <2>6. CASE CaptureFails(p)
    BY <2>0, <2>6 DEF CaptureFails, MollieGoesOn
  <2>7. CASE CreatePaymentIntent(p)
    BY <2>0, <2>7 DEF CreatePaymentIntent, MollieGoesOn, MollieStatus
  <2> QED
    BY <2>2, <2>3, <2>4, <2>5, <2>6, <2>7 DEF Mollie
<1>4. /\ capture' \in [Pids -> {"none", "pending", "succeeded", "failed"}]
      /\ CapturedIsPaid'
  <2>0. /\ mollie \in [Pids -> [status : MollieStatus, amount : Nat, manual : BOOLEAN]]
        /\ capture \in [Pids -> {"none", "pending", "succeeded", "failed"}]
        /\ \A q \in Pids : capture[q] = "succeeded" => mollie[q].status = "paid"
    BY <1>1 DEF TypeOK, CapturedIsPaid
  <2>1. CASE capture' = capture
    BY <1>3, <2>0, <2>1 DEF CapturedIsPaid, MollieGoesOn
  <2>2. CASE CaptureSucceeds(p)
    BY <2>0, <2>2 DEF CaptureSucceeds, MollieSets, CapturedIsPaid
  <2>3. CASE CaptureFails(p)
    BY <2>0, <2>3 DEF CaptureFails, CapturedIsPaid
  <2> QED
    BY <2>1, <2>2, <2>3
    DEF Mollie, CreatePaymentIntent, CustomerPays, PaymentFails, AuthorizationLapses
<1>6. TypeOK'
  BY <1>1, <1>2, <1>3, <1>4 DEF TypeOK
<1>7. RecordsAreBacked'
  BY <1>1, <1>2, <1>3, RecordsKept
<1>8. \A w \in Workers : HeldStatusIsSafe(w)'
  BY <1>1, <1>2, <1>3, HeldKept
<1> QED
  BY <1>3, <1>4, <1>6, <1>7, <1>8 DEF BackedInv

(* The administrator's settlement: a record is settled only when Mollie    *)
(* has the money.                                                          *)
LEMMA AdminKeepsBacked ==
    ASSUME BackedInv, NEW p \in Pids, Admin(p)
    PROVE  BackedInv'
<1>1. /\ TypeOK /\ RecordsAreBacked /\ CapturedIsPaid
      /\ \A w \in Workers : HeldStatusIsSafe(w)
  BY DEF BackedInv
<1>2. /\ mollie' = mollie /\ intents' = intents /\ hook' = hook /\ reported' = reported
      /\ worker' = worker /\ disturbances' = disturbances
  BY DEF Admin, SettlePaid, RequestCapture, CaptureConfirmed, CaptureGivenUp
<1>3. MollieGoesOn
  BY <1>2 DEF MollieGoesOn
<1>4. /\ capture' \in [Pids -> {"none", "pending", "succeeded", "failed"}]
      /\ CapturedIsPaid'
      /\ polling' \subseteq Pids
  BY <1>1, <1>2
  DEF Admin, SettlePaid, RequestCapture, CaptureConfirmed, CaptureGivenUp, CapturedIsPaid,
      TypeOK
<1>5. order' \in OrderRecord(Totals, Txs) /\ RecordsAreBacked'
  <2>0. order \in OrderRecord(Totals, Txs)
    BY <1>1 DEF TypeOK
  <2>1. CASE order' = order
    BY <1>1, <1>3, <2>0, <2>1, RecordsKept
  <2>3. CASE order' = Progressed(order)
    <3>1. order' \in OrderRecord(Totals, Txs) /\ order'.payments = order.payments
      BY <2>0, <2>3, ProgressFacts
    <3> QED
      BY <1>1, <1>3, <3>1, RecordsKept
  <2>2. CASE order' # order /\ order' # Progressed(order)
    <3>1. PICK i \in DOMAIN order.payments :
              AuthorizedRecord(i, p) /\ order' = WithSettled(order, i)
      BY <2>2 DEF Admin, SettlePaid, RequestCapture, CaptureConfirmed, CaptureGivenUp
    <3>2. mollie[p].status = "paid"
      BY <1>1, <2>2
      DEF Admin, SettlePaid, RequestCapture, CaptureConfirmed, CaptureGivenUp, CapturedIsPaid
    <3>3. order.payments[i].tx = p
      BY <3>1 DEF AuthorizedRecord, RecordsOf
    <3>4. /\ order' \in OrderRecord(Totals, Txs)
          /\ order'.payments = [order.payments EXCEPT ![i].state = "Settled"]
      BY <2>0, <3>1, WithSettledFacts
    <3> QED
      BY <1>1, <1>2, <3>2, <3>3, <3>4, RecordSettled
  <2> QED
    BY <2>1, <2>2, <2>3
<1>6. TypeOK'
  BY <1>1, <1>2, <1>4, <1>5 DEF TypeOK
<1>7. \A w \in Workers : HeldStatusIsSafe(w)'
  BY <1>1, <1>2, <1>3, HeldKept
<1> QED
  BY <1>4, <1>5, <1>6, <1>7 DEF BackedInv

(* The steps of the requests.  A free order's intent books no money; a     *)
(* fetch learns Mollie's status; the decision keeps it; the booking uses   *)
(* it; any end lets go of it.                                              *)
LEMMA RequestsKeepBacked ==
    ASSUME BackedInv, NEW w \in Workers,
           \/ CreateFreeIntent(w) \/ StartSync(w) \/ Handle(w) \/ Crash(w)
           \/ \E n \in hook : ReceiveWebhook(w, n)
    PROVE  BackedInv'
<1>1. /\ TypeOK /\ RecordsAreBacked /\ CapturedIsPaid
      /\ \A x \in Workers : HeldStatusIsSafe(x)
  BY DEF BackedInv
<1>2. /\ order \in OrderRecord(Totals, Txs)
      /\ mollie \in [Pids -> [status : MollieStatus, amount : Nat, manual : BOOLEAN]]
      /\ worker \in [Workers -> Worker]
      /\ worker[w] \in Worker
      /\ hook \subseteq Pids \X MollieStatus
      /\ reported \subseteq Pids
      /\ disturbances \in 0..MaxDisturbances
  BY <1>1 DEF TypeOK
<1>3. HeldStatusIsSafe(w)
  BY <1>1
<1>4. /\ mollie' = mollie /\ intents' = intents /\ capture' = capture /\ polling' = polling
  BY DEF CreateFreeIntent, StartSync, Handle, Crash, ReceiveWebhook, FetchPayment,
         ReadOrderAndFinish, ReadOrder, AddPayment, SettleExistingPayment,
         MoveSettledOrder
<1>5. MollieGoesOn /\ CapturedIsPaid'
  BY <1>1, <1>4 DEF MollieGoesOn, CapturedIsPaid
<1>6. ASSUME order' \in OrderRecord(Totals, Txs), RecordsAreBacked',
             worker' \in [Workers -> Worker], \A x \in Workers : HeldStatusIsSafe(x)',
             hook' \subseteq hook, reported' \subseteq Pids,
             disturbances' \in 0..MaxDisturbances
      PROVE  BackedInv'
  BY <1>1, <1>4, <1>5, <1>6 DEF BackedInv, TypeOK
<1>7. ASSUME NEW v \in Worker, worker' = [worker EXCEPT ![w] = v],
             v.pc \in {"fetch", "read", "settle", "move"} => v.pid \in Pids,
             v.pc \in {"read", "add", "settle"} /\ v.pid \in Pids =>
                 /\ v.status = "paid" => mollie[v.pid].status = "paid"
                 /\ v.status = "authorized" =>
                        mollie[v.pid].status \in {"authorized", "released", "paid"},
             v.pc = "add" => v.status \in {"authorized", "paid"},
             v.pc = "settle" => v.status = "paid"
      PROVE  /\ worker' \in [Workers -> Worker]
             /\ \A x \in Workers : HeldStatusIsSafe(x)'
  <2>1. worker' \in [Workers -> Worker] /\ worker'[w] = v
    BY <1>2, <1>7
  <2>2. ASSUME NEW x \in Workers
        PROVE  HeldStatusIsSafe(x)'
    <3>1. CASE x = w
      BY <1>4, <1>7, <2>1, <3>1 DEF HeldStatusIsSafe
    <3>2. CASE x # w
      <4>1. worker'[x] = worker[x] /\ HeldStatusIsSafe(x)
        BY <1>1, <1>2, <1>7, <3>2
      <4> QED
        BY <1>4, <4>1 DEF HeldStatusIsSafe
    <3> QED
      BY <3>1, <3>2
  <2> QED
    BY <2>1, <2>2
(* Nothing but the worker changes, and it ends at a later await. *)
<1>8. ASSUME order' = order, hook' = hook, reported' = reported,
             disturbances' = disturbances,
             worker' \in [Workers -> Worker], \A x \in Workers : HeldStatusIsSafe(x)'
      PROVE  BackedInv'
  <2>1. RecordsAreBacked'
    BY <1>1, <1>5, <1>8, RecordsKept
  <2> QED
    BY <1>2, <1>6, <1>8, <2>1
<1>10. CASE CreateFreeIntent(w)
  <2> DEFINE v == [Idle EXCEPT !.pc = "add", !.kind = "intent", !.seen = order.state,
                               !.status = "paid"]
  <2>1. worker' = [worker EXCEPT ![w] = v]
    BY <1>10 DEF CreateFreeIntent
  <2>2. /\ v \in Worker
        /\ v.pc = "add" /\ v.status = "paid" /\ v.pid = FreeTx
    BY <1>2 DEF Idle, Worker, Txs, MollieStatus, OrderRecord
  <2> HIDE DEF v
  <2>3. /\ worker' \in [Workers -> Worker] /\ \A x \in Workers : HeldStatusIsSafe(x)'
    BY <1>7, <2>1, <2>2, ConstantsAssumption
  <2> QED
    BY <1>8, <1>10, <2>3 DEF CreateFreeIntent
<1>11. CASE StartSync(w)
  <2>1. PICK q \in Pids, todo \in SUBSET Pids :
            worker' = [worker EXCEPT ![w] =
                          [Idle EXCEPT !.pc = "fetch", !.kind = "sync", !.pid = q,
                                       !.todo = todo]]
    BY <1>11 DEF StartSync
  <2> DEFINE v == [Idle EXCEPT !.pc = "fetch", !.kind = "sync", !.pid = q, !.todo = todo]
  <2>2. v \in Worker /\ v.pc = "fetch" /\ v.pid \in Pids
    BY DEF Idle, Worker, Txs, MollieStatus, OrderState
  <2>3. worker' = [worker EXCEPT ![w] = v]
    BY <2>1
  <2> HIDE DEF v
  <2>4. /\ worker' \in [Workers -> Worker] /\ \A x \in Workers : HeldStatusIsSafe(x)'
    BY <1>7, <2>2, <2>3
  <2> QED
    BY <1>8, <1>11, <2>4 DEF StartSync
<1>12. CASE \E n \in hook : ReceiveWebhook(w, n)
  <2>1. PICK n \in hook : ReceiveWebhook(w, n)
    BY <1>12
  <2> DEFINE v == [Idle EXCEPT !.pc = "fetch", !.kind = "webhook",
                               !.pid = n[1], !.note = n[2]]
  <2>2. n[1] \in Pids /\ n[2] \in MollieStatus
    BY <1>2
  <2>3. v \in Worker /\ v.pc = "fetch" /\ v.pid \in Pids
    BY <2>2 DEF Idle, Worker, Txs, MollieStatus, OrderState
  <2>4. worker' = [worker EXCEPT ![w] = v]
    BY <2>1 DEF ReceiveWebhook
  <2> HIDE DEF v
  <2>5. /\ worker' \in [Workers -> Worker] /\ \A x \in Workers : HeldStatusIsSafe(x)'
    BY <1>7, <2>3, <2>4
  <2> QED
    BY <1>8, <2>1, <2>5 DEF ReceiveWebhook
<1>13. CASE FetchPayment(w)
  <2>1. worker[w].pc = "fetch" /\ worker[w].pid \in Pids
    BY <1>3, <1>13 DEF FetchPayment, HeldStatusIsSafe
  <2> DEFINE v == [worker[w] EXCEPT !.pc = "read", !.status = mollie[worker[w].pid].status]
  <2>2. worker' = [worker EXCEPT ![w] = v]
    BY <1>2, <1>13 DEF FetchPayment
  <2>3. /\ v \in Worker
        /\ v.pc = "read" /\ v.pid = worker[w].pid
        /\ v.status = mollie[worker[w].pid].status
    BY <1>2, <2>1 DEF Worker
  <2> HIDE DEF v
  <2>4. /\ worker' \in [Workers -> Worker] /\ \A x \in Workers : HeldStatusIsSafe(x)'
    BY <1>7, <2>1, <2>2, <2>3
  <2> QED
    BY <1>8, <1>13, <2>4 DEF FetchPayment
<1>14. CASE ReadOrder(w)
  <2> DEFINE d == Decision(order, worker[w].pid, worker[w].status)
             v == [worker[w] EXCEPT !.pc = d, !.seen = order.state]
  <2>1. worker[w].pc = "read" /\ d \in {"add", "settle"}
    BY <1>14 DEF ReadOrder
  <2>2. worker' = [worker EXCEPT ![w] = v]
    BY <1>2, <1>14 DEF ReadOrder
  <2>3. /\ d = "settle" => worker[w].status = "paid"
        /\ d = "add" => worker[w].status \in {"authorized", "paid"}
    BY DEF Decision
  <2> HIDE DEF d
  <2>4. /\ v \in Worker
        /\ v.pc = d /\ v.pid = worker[w].pid /\ v.status = worker[w].status
    BY <1>2, <2>1 DEF Worker, OrderRecord
  <2> HIDE DEF v
  <2>5. /\ worker' \in [Workers -> Worker] /\ \A x \in Workers : HeldStatusIsSafe(x)'
    BY <1>3, <1>7, <2>1, <2>2, <2>3, <2>4 DEF HeldStatusIsSafe
  <2> QED
    BY <1>8, <1>14, <2>5 DEF ReadOrder
(* Every end of the handler frees the worker. *)
<1>20. ASSUME \E v : Resting(v) /\ worker' = [worker EXCEPT ![w] = v]
       PROVE  /\ worker' \in [Workers -> Worker]
              /\ \A x \in Workers : HeldStatusIsSafe(x)'
  BY <1>1, <1>4, <1>20, HeldAtRest
<1>21. CASE ReadOrderAndFinish(w)
  <2>1. Returns(w, order) \/ Throws(w)
    BY <1>21 DEF ReadOrderAndFinish
  <2>2. /\ order' = order /\ hook' \subseteq hook
        /\ \E v : Resting(v) /\ worker' = [worker EXCEPT ![w] = v]
    BY <1>1, <2>1, ReturnsFacts, ThrowsFacts
  <2>3. reported' \subseteq Pids /\ disturbances' = disturbances
    BY <1>2, <1>3, <1>21 DEF ReadOrderAndFinish, HeldStatusIsSafe
  <2>4. RecordsAreBacked'
    BY <1>1, <1>5, <2>2, RecordsKept
  <2> QED
    BY <1>2, <1>6, <1>20, <2>2, <2>3, <2>4
<1>22. CASE AddPayment(w)
  <2>0. reported' = reported /\ disturbances' = disturbances
    BY <1>22 DEF AddPayment
  <2>1. CASE Throws(w)
    <3>1. /\ order' = order /\ hook' = hook
          /\ \E v : Resting(v) /\ worker' = [worker EXCEPT ![w] = v]
      BY <2>1, ThrowsFacts
    <3> QED
      BY <1>8, <1>20, <2>0, <3>1
  <2>2. CASE CanRecord(w) /\ Returns(w, WithPayment(ArrangedOrder(w), CreatedPayment(w)))
    <3> DEFINE r == CreatedPayment(w)
               o == ArrangedOrder(w)
    <3>1. worker[w].pc = "add" /\ worker[w].status \in {"authorized", "paid"}
      BY <1>3, <1>22 DEF AddPayment, HeldStatusIsSafe
    <3>2. /\ r \in PaymentRecord(Txs)
          /\ r.tx = worker[w].pid
          /\ r.amount = IF worker[w].pid = FreeTx THEN 0 ELSE mollie[worker[w].pid].amount
          /\ r.state = IF worker[w].status = "paid" THEN "Settled" ELSE "Authorized"
      BY <1>2 DEF CreatedPayment, PaymentRecord, PaymentState, Worker, Txs
    <3>3. /\ r.tx = FreeTx => r.amount = 0
          /\ r.tx # FreeTx => /\ r.amount = mollie[r.tx].amount
                              /\ mollie[r.tx].status \in
                                     IF r.state = "Settled" THEN {"paid"}
                                     ELSE {"authorized", "released", "paid"}
      <4>1. worker[w].pid # FreeTx => worker[w].pid \in Pids
        BY <1>2 DEF Worker, Txs
      <4> HIDE DEF r
      <4> QED
        BY <1>3, <3>1, <3>2, <4>1 DEF HeldStatusIsSafe
    <3>4. o \in OrderRecord(Totals, Txs) /\ o.payments = order.payments
      BY <1>2, TransitionFacts DEF ArrangedOrder, OrderState
    <3> HIDE DEF r, o
    <3>5. /\ WithPayment(o, r) \in OrderRecord(Totals, Txs)
          /\ WithPayment(o, r).payments = Append(order.payments, r)
      BY <3>2, <3>4, WithPaymentFacts
    <3>6. /\ order' = WithPayment(o, r) /\ hook' \subseteq hook
          /\ \E v : Resting(v) /\ worker' = [worker EXCEPT ![w] = v]
      BY <1>1, <2>2, ReturnsFacts DEF r, o
    <3>7. RecordsAreBacked'
      BY <1>1, <1>4, <3>2, <3>3, <3>5, <3>6, RecordAppended
    <3> QED
      BY <1>2, <1>6, <1>20, <2>0, <3>5, <3>6, <3>7
  <2> QED
    BY <1>22, <2>1, <2>2 DEF AddPayment
<1>23. CASE SettleExistingPayment(w)
  <2>0. reported' = reported /\ disturbances' = disturbances
    BY <1>23 DEF SettleExistingPayment
  <2>1. CASE Throws(w)
    <3>1. /\ order' = order /\ hook' = hook
          /\ \E v : Resting(v) /\ worker' = [worker EXCEPT ![w] = v]
      BY <2>1, ThrowsFacts
    <3> QED
      BY <1>8, <1>20, <2>0, <3>1
  <2>2. ASSUME NEW i \in DOMAIN order.payments,
               Settleable(i, worker[w].pid), order' = Settling(order, i),
               worker' = [worker EXCEPT ![w].pc = "move"], hook' = hook
        PROVE  BackedInv'
    <3>1. /\ worker[w].pid \in Pids
          /\ mollie[worker[w].pid].status = "paid"
      BY <1>3, <1>23 DEF SettleExistingPayment, HeldStatusIsSafe
    <3>2. order.payments[i].tx = worker[w].pid
      BY <2>2 DEF Settleable, FirstRecord, RecordsOf
    <3>3. /\ order' \in OrderRecord(Totals, Txs)
          /\ order'.payments = [order.payments EXCEPT ![i].state = "Settled"]
      BY <1>2, <2>2, SettlingFacts
    <3>4. PICK v : v = [worker[w] EXCEPT !.pc = "move"]
      OBVIOUS
    <3>5. v \in Worker /\ v.pc = "move" /\ v.pid = worker[w].pid
      BY <1>2, <3>4 DEF Worker
    <3>6. worker' = [worker EXCEPT ![w] = v]
      BY <1>2, <2>2, <3>4
    <3>7. worker' \in [Workers -> Worker] /\ \A x \in Workers : HeldStatusIsSafe(x)'
      BY <1>7, <3>1, <3>5, <3>6
    <3>8. RecordsAreBacked'
      BY <1>1, <1>4, <3>1, <3>2, <3>3, RecordSettled
    <3> QED
      BY <1>2, <1>6, <2>0, <2>2, <3>3, <3>7, <3>8
  <2> QED
    BY <1>23, <2>1, <2>2 DEF SettleExistingPayment
<1>25. CASE MoveSettledOrder(w)
  <2>0. reported' = reported /\ disturbances' = disturbances
    BY <1>25 DEF MoveSettledOrder
  <2>1. Progressed(order) \in OrderRecord(Totals, Txs) /\ Progressed(order).payments = order.payments
    BY <1>2, ProgressFacts
  <2>2. /\ order' = Progressed(order) /\ hook' \subseteq hook
        /\ \E v : Resting(v) /\ worker' = [worker EXCEPT ![w] = v]
    BY <1>1, <1>25, ReturnsFacts DEF MoveSettledOrder
  <2>3. RecordsAreBacked'
    BY <1>1, <1>5, <2>1, <2>2, RecordsKept
  <2> QED
    BY <1>2, <1>6, <1>20, <2>0, <2>1, <2>2, <2>3
<1>24. CASE Crash(w)
  <2>1. /\ order' = order /\ hook' = hook /\ reported' = reported
        /\ disturbances' \in 0..MaxDisturbances
    BY <1>2, <1>24, ConstantsAssumption DEF Crash, Disturb
  <2>2. \E v : Resting(v) /\ worker' = [worker EXCEPT ![w] = v]
    BY <1>24, IdleRests DEF Crash, Stops
  <2>3. RecordsAreBacked'
    BY <1>1, <1>5, <2>1, RecordsKept
  <2> QED
    BY <1>2, <1>6, <1>20, <2>1, <2>2, <2>3
<1> QED
  BY <1>10, <1>11, <1>12, <1>13, <1>14, <1>21, <1>22, <1>23, <1>24, <1>25 DEF Handle

(* The inductive invariant of the books holds of the initial states.       *)
LEMMA BackedInit == Init => BackedInv
<1> SUFFICES ASSUME Init
             PROVE  BackedInv
  OBVIOUS
<1>1. TypeOK
  <2>1. order \in OrderRecord(Totals, Txs)
    <3>1. order \in [state : OrderState, total : Totals, ready : BOOLEAN,
                     placed : BOOLEAN, payments : {<<>>}]
      BY DEF Init, OrderState
    <3>2. <<>> \in Seq([tx : Txs, amount : Nat, state : PaymentState])
      OBVIOUS
    <3> QED
      BY <3>1, <3>2 DEF OrderRecord
  <2>2. worker \in [Workers -> Worker]
    BY IdleRests DEF Init, Resting
  <2>3. disturbances \in 0..MaxDisturbances
    BY ConstantsAssumption DEF Init
  <2> QED
    BY <2>1, <2>2, <2>3 DEF Init, TypeOK, MollieStatus
<1>2. RecordsAreBacked
  BY DEF Init, RecordsAreBacked
<1>3. \A w \in Workers : HeldStatusIsSafe(w)
  BY DEF Init, HeldStatusIsSafe, Idle
<1>4. CapturedIsPaid
  BY DEF Init, CapturedIsPaid
<1> QED
  BY <1>1, <1>2, <1>3, <1>4 DEF BackedInv

(* Every action keeps it: one lemma above per group of actions.            *)
LEMMA BackedStep == BackedInv /\ [Next]_vars => BackedInv'
<1> SUFFICES ASSUME BackedInv, [Next]_vars
             PROVE  BackedInv'
  OBVIOUS
<1>1. CASE Shop
  BY <1>1, ShopKeepsBacked
<1>2. ASSUME NEW p \in Pids, CreatePaymentIntent(p) \/ Mollie(p)
      PROVE  BackedInv'
  BY <1>2, MollieKeepsBacked
<1>3. ASSUME NEW p \in Pids, Admin(p)
      PROVE  BackedInv'
  BY <1>3, AdminKeepsBacked
<1>4. ASSUME NEW w \in Workers,
             \/ CreateFreeIntent(w) \/ StartSync(w) \/ Handle(w) \/ Crash(w)
             \/ \E n \in hook : ReceiveWebhook(w, n)
      PROVE  BackedInv'
  BY <1>4, RequestsKeepBacked
<1>5. ASSUME NEW n \in hook, IgnoreWebhook(n)
      PROVE  BackedInv'
  BY <1>5
  DEF IgnoreWebhook, BackedInv, TypeOK, RecordsAreBacked, HeldStatusIsSafe, CapturedIsPaid
<1>6. CASE UNCHANGED vars
  BY <1>6
  DEF vars, BackedInv, TypeOK, RecordsAreBacked, HeldStatusIsSafe, CapturedIsPaid
<1> QED
  BY <1>1, <1>2, <1>3, <1>4, <1>5, <1>6 DEF Next

(* The records are backed and what the requests remember of Mollie is      *)
(* still true: the strengthening TypeCorrect and BooksAreBacked rest on.   *)
THEOREM BackedInvariant == Spec => []BackedInv
  BY BackedInit, BackedStep, PTL DEF Spec

(* Every reachable state is well formed: in particular no request ever     *)
(* handles, and no record names, a payment Mollie did not create.          *)
THEOREM TypeCorrect == Spec => []TypeOK
<1>1. BackedInv => TypeOK
  BY DEF BackedInv
<1> QED
  BY <1>1, BackedInvariant, PTL

(* Whatever is on an order's books is backed by Mollie with the same       *)
(* amount, for any number of payments, concurrent requests and crashes.    *)
THEOREM BooksAreBacked == Spec => []RecordsAreBacked
<1>1. BackedInv => RecordsAreBacked
  BY DEF BackedInv
<1> QED
  BY <1>1, BackedInvariant, PTL

-----------------------------------------------------------------------------
(* What steps do to the books.                                             *)

(* What a step does to Mollie's payments and to the recorded ones: Mollie  *)
(* acts and nothing is recorded, one payment is appended, one record is    *)
(* settled, or neither changes.                                            *)
BooksKept == order'.payments = order.payments /\ mollie' = mollie

PaymentAppended(r) ==
    /\ mollie' = mollie
    /\ r \in PaymentRecord(Txs)
    /\ order'.payments = Append(order.payments, r)

PaymentSettled(i) ==
    /\ mollie' = mollie
    /\ i \in DOMAIN order.payments
    /\ order'.payments = [order.payments EXCEPT ![i].state = "Settled"]

(* Customer and administrator change no payment of an order.               *)
LEMMA ShopBooks ==
    ASSUME TypeOK, Shop
    PROVE  BooksKept
<1>1. mollie' = mollie
  BY DEF Shop, EditOrder, MoveOrder, CancelOrder, ModifyOrder
<1>2. order \in OrderRecord(Totals, Txs)
  BY DEF TypeOK
<1>3. CASE EditOrder
  BY <1>1, <1>2, <1>3 DEF EditOrder, OrderRecord, BooksKept
<1>4. CASE MoveOrder
  BY <1>1, <1>2, <1>4 DEF MoveOrder, Transitioned, OrderRecord, BooksKept
<1>5. CASE CancelOrder
  BY <1>1, <1>2, <1>5 DEF CancelOrder, Transitioned, OrderRecord, BooksKept
<1>6. CASE ModifyOrder
  BY <1>1, <1>2, <1>6 DEF ModifyOrder, Transitioned, OrderRecord, BooksKept
<1> QED
  BY <1>3, <1>4, <1>5, <1>6 DEF Shop

(* A request appends a payment, settles a record or leaves both alone.     *)
LEMMA RequestBooks ==
    ASSUME TypeOK, NEW w \in Workers,
           \/ CreateFreeIntent(w) \/ StartSync(w) \/ Handle(w) \/ Crash(w)
           \/ \E n \in hook : ReceiveWebhook(w, n)
    PROVE  \/ BooksKept
           \/ \E r : PaymentAppended(r)
           \/ \E i : PaymentSettled(i)
<1>1. mollie' = mollie
  BY DEF CreateFreeIntent, StartSync, Handle, Crash, ReceiveWebhook, FetchPayment,
         ReadOrderAndFinish, ReadOrder, AddPayment, SettleExistingPayment,
         MoveSettledOrder
<1>2. /\ order \in OrderRecord(Totals, Txs)
      /\ mollie \in [Pids -> [status : MollieStatus, amount : Nat, manual : BOOLEAN]]
      /\ worker[w] \in Worker
  BY DEF TypeOK
<1>3. CASE \/ CreateFreeIntent(w) \/ StartSync(w) \/ Crash(w) \/ FetchPayment(w)
           \/ ReadOrder(w) \/ \E n \in hook : ReceiveWebhook(w, n)
  BY <1>1, <1>3
  DEF CreateFreeIntent, StartSync, Crash, FetchPayment, ReadOrder, ReceiveWebhook, BooksKept
<1>4. CASE ReadOrderAndFinish(w)
  BY <1>1, <1>4 DEF ReadOrderAndFinish, Returns, Throws, BooksKept
<1>5. CASE AddPayment(w)
  <2>1. CASE Throws(w)
    BY <1>1, <2>1 DEF Throws, BooksKept
  <2>2. CASE Returns(w, WithPayment(ArrangedOrder(w), CreatedPayment(w)))
    <3> DEFINE r == CreatedPayment(w)
               o == ArrangedOrder(w)
    <3>1. r \in PaymentRecord(Txs)
      BY <1>2 DEF CreatedPayment, PaymentRecord, PaymentState, Worker, Txs
    <3>2. o \in OrderRecord(Totals, Txs) /\ o.payments = order.payments
      BY <1>2, TransitionFacts DEF ArrangedOrder, OrderState
    <3>3. order' = WithPayment(o, r)
      BY <2>2 DEF Returns
    <3> HIDE DEF r, o
    <3>4. order'.payments = Append(order.payments, r)
      BY <3>1, <3>2, <3>3, WithPaymentFacts
    <3> QED
      BY <1>1, <3>1, <3>4 DEF PaymentAppended
  <2> QED
    BY <1>5, <2>1, <2>2 DEF AddPayment
<1>6. CASE SettleExistingPayment(w)
  <2>1. CASE Throws(w)
    BY <1>1, <2>1 DEF Throws, BooksKept
  <2>2. ASSUME NEW i \in DOMAIN order.payments, order' = Settling(order, i)
        PROVE  PaymentSettled(i)
    BY <1>1, <1>2, <2>2, SettlingFacts DEF PaymentSettled
  <2> QED
    BY <1>6, <2>1, <2>2 DEF SettleExistingPayment
<1>7. CASE MoveSettledOrder(w)
  <2>1. order' = Progressed(order)
    BY <1>7 DEF MoveSettledOrder, Returns
  <2> QED
    BY <1>1, <1>2, <2>1, ProgressFacts DEF BooksKept
<1> QED
  BY <1>3, <1>4, <1>5, <1>6, <1>7 DEF Handle

(* Settling by the administrator settles a record or changes nothing.      *)
LEMMA AdminBooks ==
    ASSUME TypeOK, NEW p \in Pids, Admin(p)
    PROVE  BooksKept \/ \E i : PaymentSettled(i)
<1>1. mollie' = mollie
  BY DEF Admin, SettlePaid, RequestCapture, CaptureConfirmed, CaptureGivenUp
<1>2. order \in OrderRecord(Totals, Txs)
  BY DEF TypeOK
<1>3. CASE order' = order
  BY <1>1, <1>3 DEF BooksKept
<1>5. CASE order' = Progressed(order)
  BY <1>1, <1>2, <1>5, ProgressFacts DEF BooksKept
<1>4. CASE order' # order /\ order' # Progressed(order)
  <2>1. PICK i \in DOMAIN order.payments : order' = WithSettled(order, i)
    BY <1>4 DEF Admin, SettlePaid, RequestCapture, CaptureConfirmed, CaptureGivenUp
  <2> QED
    BY <1>1, <1>2, <2>1, WithSettledFacts DEF PaymentSettled
<1> QED
  BY <1>3, <1>4, <1>5

(* Every step of the specification is one of these.                        *)
LEMMA StepsOfTheBooks ==
    ASSUME TypeOK, [Next]_vars
    PROVE  \/ BooksKept
           \/ \E r : PaymentAppended(r)
           \/ \E i : PaymentSettled(i)
           \/ \E p \in Pids : Mollie(p) \/ CreatePaymentIntent(p)
<1>1. CASE UNCHANGED vars
  BY <1>1 DEF vars, BooksKept
<1>2. CASE Shop
  BY <1>2, ShopBooks
<1>3. ASSUME NEW p \in Pids, CreatePaymentIntent(p) \/ Mollie(p) \/ Admin(p)
      PROVE  BooksKept \/ (\E i : PaymentSettled(i)) \/ Mollie(p) \/ CreatePaymentIntent(p)
  BY <1>3, AdminBooks
<1>4. ASSUME NEW w \in Workers,
             \/ CreateFreeIntent(w) \/ StartSync(w) \/ Handle(w) \/ Crash(w)
             \/ \E n \in hook : ReceiveWebhook(w, n)
      PROVE  BooksKept \/ (\E r : PaymentAppended(r)) \/ \E i : PaymentSettled(i)
  BY <1>4, RequestBooks
<1>5. ASSUME NEW n \in hook, IgnoreWebhook(n)
      PROVE  BooksKept
  BY <1>5 DEF IgnoreWebhook, BooksKept
<1> QED
  BY <1>1, <1>2, <1>3, <1>4, <1>5 DEF Next

-----------------------------------------------------------------------------
(* NoSilentLoss: what was recorded stays recorded, a notice of a paid      *)
(* payment is true, and the handler answers 200 to it only after it booked *)
(* or reported the payment.                                                *)

RecordsGrow ==
    \A p \in Pids : RecordsOf(order, p) # {} => RecordsOf(order', p) # {}

(* Three ways a record cannot get lost: nothing happens to the payments,   *)
LEMMA GrowsIfKept ==
    ASSUME order'.payments = order.payments
    PROVE  RecordsGrow
  BY DEF RecordsGrow, RecordsOf

(* one is added to them,                                                   *)
LEMMA GrowsIfAppended ==
    ASSUME TypeOK, NEW r \in PaymentRecord(Txs), order'.payments = Append(order.payments, r)
    PROVE  /\ RecordsGrow
           /\ RecordsOf(order', r.tx) # {}
<1>1. order.payments \in Seq(PaymentRecord(Txs))
  BY OrderTyped
<1>2. /\ \A i \in DOMAIN order.payments :
             i \in DOMAIN order'.payments /\ order'.payments[i] = order.payments[i]
      /\ Len(order'.payments) \in DOMAIN order'.payments
      /\ order'.payments[Len(order'.payments)] = r
  BY <1>1
<1> QED
  BY <1>2 DEF RecordsGrow, RecordsOf

(* or the state of one changes.                                            *)
LEMMA GrowsIfSettled ==
    ASSUME TypeOK, NEW i \in DOMAIN order.payments,
           order'.payments = [order.payments EXCEPT ![i].state = "Settled"]
    PROVE  /\ RecordsGrow
           /\ RecordsOf(order', order.payments[i].tx) # {}
<1>1. /\ order.payments \in Seq(PaymentRecord(Txs))
      /\ order.payments[i] \in PaymentRecord(Txs)
  BY OrderTyped
<1>2. \A j \in DOMAIN order.payments :
          j \in DOMAIN order'.payments /\ order'.payments[j].tx = order.payments[j].tx
  BY <1>1 DEF PaymentRecord
<1> QED
  BY <1>2 DEF RecordsGrow, RecordsOf

(* The shop never takes a record or a report back.                         *)
LEMMA ShopKeepsNoLoss ==
    ASSUME NoLossInv, Shop
    PROVE  PaidNoticeIsTrue' /\ PaidStatesArePlaced' /\ NoSilentLoss'
<1>1. /\ TypeOK /\ PaidNoticeIsTrue /\ PaidStatesArePlaced /\ NoSilentLoss
  BY DEF NoLossInv, BackedInv
<1>2. /\ mollie' = mollie /\ hook' = hook /\ reported' = reported /\ worker' = worker
  BY DEF Shop, EditOrder, MoveOrder, CancelOrder, ModifyOrder
<1>3. order'.payments = order.payments /\ PlacedIfPaid(order')
  <2>1. order \in OrderRecord(Totals, Txs) /\ PlacedIfPaid(order)
    BY <1>1 DEF TypeOK, PaidStatesArePlaced
  <2>2. CASE EditOrder
    BY <2>1, <2>2 DEF EditOrder, OrderRecord, PlacedIfPaid
  <2>3. CASE MoveOrder
    BY <2>1, <2>3, TransitionFacts DEF MoveOrder, OrderState
  <2>4. CASE CancelOrder
    BY <2>1, <2>4, TransitionFacts DEF CancelOrder, OrderState
  <2>5. CASE ModifyOrder
    <3>1. PICK t \in Totals : order' = Transitioned([order EXCEPT !.total = t],
                                                   "ArrangingAdditionalPayment")
      BY <2>5 DEF ModifyOrder
    <3> DEFINE raised == [order EXCEPT !.total = t]
    <3>2. /\ raised \in OrderRecord(Totals, Txs)
          /\ raised.payments = order.payments
          /\ raised.state = order.state /\ raised.placed = order.placed
      BY <2>1 DEF OrderRecord
    <3>3. "ArrangingAdditionalPayment" \in OrderState
      BY DEF OrderState
    <3>4. order' = Transitioned(raised, "ArrangingAdditionalPayment")
      BY <3>1
    <3> HIDE DEF raised
    <3>5. CanTransition(raised, "ArrangingAdditionalPayment")
      BY <2>5, <3>2 DEF ModifyOrder, CanTransition
    <3>6. PlacedIfPaid(raised)
      BY <2>1, <3>2 DEF PlacedIfPaid
    <3> QED
      BY <3>2, <3>3, <3>4, <3>5, <3>6, TransitionFacts
  <2> QED
    BY <2>2, <2>3, <2>4, <2>5 DEF Shop
<1>4. RecordsGrow
  BY <1>3, GrowsIfKept
<1> QED
  BY <1>1, <1>2, <1>3, <1>4
  DEF PaidNoticeIsTrue, PaidStatesArePlaced, NoSilentLoss, RecordsGrow, Recorded

(* When money arrives, Mollie owes the shop a webhook.                     *)
LEMMA MollieKeepsNoLoss ==
    ASSUME NoLossInv, NEW p \in Pids, Mollie(p) \/ CreatePaymentIntent(p)
    PROVE  PaidNoticeIsTrue' /\ PaidStatesArePlaced' /\ NoSilentLoss'
<1>1. /\ BackedInv /\ TypeOK /\ PaidNoticeIsTrue /\ PaidStatesArePlaced /\ NoSilentLoss
  BY DEF NoLossInv, BackedInv
<1>2. order' = order /\ reported' = reported /\ worker' = worker
  BY DEF Mollie, CreatePaymentIntent, CustomerPays, PaymentFails, AuthorizationLapses,
         CaptureSucceeds, CaptureFails, MollieSets
<1>3. MollieGoesOn
  BY <1>1, MollieKeepsBacked
<1>4. /\ \A q \in Pids : mollie'[q].status = "paid" =>
             mollie[q].status = "paid" \/ <<q, "paid">> \in hook'
      /\ hook \subseteq hook'
      /\ \A q \in Pids : <<q, "paid">> \in hook' =>
             <<q, "paid">> \in hook \/ mollie'[q].status = "paid"
  <2>0. mollie \in [Pids -> [status : MollieStatus, amount : Nat, manual : BOOLEAN]]
    BY <1>1 DEF TypeOK
  <2>1. ASSUME NEW st, MollieSets(p, st)
        PROVE  <1>4!1 /\ <1>4!2 /\ <1>4!3
    BY <2>0, <2>1 DEF MollieSets
  <2>2. CASE CustomerPays(p)
    BY <2>1, <2>2 DEF CustomerPays
  <2>3. CASE PaymentFails(p)
    BY <2>1, <2>3 DEF PaymentFails
  <2>4. CASE AuthorizationLapses(p)
    BY <2>1, <2>4 DEF AuthorizationLapses
  <2>5. CASE CaptureSucceeds(p)
    BY <2>1, <2>5 DEF CaptureSucceeds
  <2>6. CASE CaptureFails(p)
    BY <2>6 DEF CaptureFails
  <2>7. CASE CreatePaymentIntent(p)
    BY <2>0, <2>7 DEF CreatePaymentIntent
  <2> QED
    BY <2>2, <2>3, <2>4, <2>5, <2>6, <2>7 DEF Mollie
<1>5. PaidNoticeIsTrue'
  BY <1>1, <1>2, <1>3, <1>4 DEF PaidNoticeIsTrue, MollieGoesOn
<1>6. NoSilentLoss'
  BY <1>1, <1>2, <1>4 DEF NoSilentLoss, Recorded, RecordsOf
<1> QED
  BY <1>1, <1>2, <1>5, <1>6 DEF PaidStatesArePlaced, PlacedIfPaid

(* Settling by the administrator records no less than before.              *)
LEMMA AdminKeepsNoLoss ==
    ASSUME NoLossInv, NEW p \in Pids, Admin(p)
    PROVE  PaidNoticeIsTrue' /\ PaidStatesArePlaced' /\ NoSilentLoss'
<1>1. /\ TypeOK /\ PaidNoticeIsTrue /\ PaidStatesArePlaced /\ NoSilentLoss
  BY DEF NoLossInv, BackedInv
<1>2. mollie' = mollie /\ hook' = hook /\ reported' = reported /\ worker' = worker
  BY DEF Admin, SettlePaid, RequestCapture, CaptureConfirmed, CaptureGivenUp
<1>3. PlacedIfPaid(order') /\ RecordsGrow
  <2>0. order \in OrderRecord(Totals, Txs) /\ PlacedIfPaid(order)
    BY <1>1 DEF TypeOK, PaidStatesArePlaced
  <2>1. CASE order' = order
    BY <2>0, <2>1, GrowsIfKept
  <2>3. CASE order' = Progressed(order)
    <3>1. order'.payments = order.payments /\ PlacedIfPaid(order')
      BY <2>0, <2>3, ProgressFacts
    <3> QED
      BY <3>1, GrowsIfKept
  <2>2. CASE order' # order /\ order' # Progressed(order)
    <3>1. PICK i \in DOMAIN order.payments : order' = WithSettled(order, i)
      BY <2>2 DEF Admin, SettlePaid, RequestCapture, CaptureConfirmed, CaptureGivenUp
    <3>2. /\ order'.payments = [order.payments EXCEPT ![i].state = "Settled"]
          /\ PlacedIfPaid(order')
      BY <2>0, <3>1, WithSettledFacts
    <3>3. RecordsGrow
      BY <1>1, <3>2, GrowsIfSettled
    <3> QED
      BY <3>2, <3>3
  <2> QED
    BY <2>1, <2>2, <2>3
<1> QED
  BY <1>1, <1>2, <1>3
  DEF PaidNoticeIsTrue, PaidStatesArePlaced, NoSilentLoss, RecordsGrow, Recorded

(* An acknowledged webhook of a paid payment found it paid, and the        *)
(* handler returned without booking or reporting it only if it was booked. *)
LEMMA RequestsKeepNoLoss ==
    ASSUME NoLossInv, NEW w \in Workers,
           \/ CreateFreeIntent(w) \/ StartSync(w) \/ Handle(w) \/ Crash(w)
           \/ \E n \in hook : ReceiveWebhook(w, n)
    PROVE  PaidNoticeIsTrue' /\ PaidStatesArePlaced' /\ NoSilentLoss'
<1>1. /\ TypeOK /\ PaidNoticeIsTrue /\ PaidStatesArePlaced /\ NoSilentLoss
      /\ HeldStatusIsSafe(w)
  BY DEF NoLossInv, BackedInv
<1>2. /\ order \in OrderRecord(Totals, Txs) /\ PlacedIfPaid(order)
      /\ worker \in [Workers -> Worker] /\ worker[w] \in Worker
      /\ hook \subseteq Pids \X MollieStatus
  BY <1>1 DEF TypeOK, PaidStatesArePlaced
<1>3. mollie' = mollie
  BY DEF CreateFreeIntent, StartSync, Handle, Crash, ReceiveWebhook, FetchPayment,
         ReadOrderAndFinish, ReadOrder, AddPayment, SettleExistingPayment,
         MoveSettledOrder
(* The worker's part of PaidNoticeIsTrue. *)
<1>4. ASSUME hook' \subseteq hook, NEW v, worker' = [worker EXCEPT ![w] = v],
             v.kind = "webhook" =>
                 /\ v.pid \in Pids
                 /\ v.note = "paid" => /\ mollie[v.pid].status = "paid"
                                       /\ v.pc # "fetch" => v.status = "paid"
      PROVE  PaidNoticeIsTrue'
  <2>1. \A x \in Workers : worker'[x] = IF x = w THEN v ELSE worker[x]
    BY <1>2, <1>4
  <2> QED
    BY <1>1, <1>3, <1>4, <2>1 DEF PaidNoticeIsTrue
<1>5. ASSUME hook' \subseteq hook, \E v : Resting(v) /\ worker' = [worker EXCEPT ![w] = v]
      PROVE  PaidNoticeIsTrue'
  BY <1>4, <1>5 DEF Resting
(* Nothing is acknowledged that was not booked or reported. *)
<1>6. ASSUME RecordsGrow, reported \subseteq reported',
             \A p \in Pids : <<p, "paid">> \in hook /\ <<p, "paid">> \notin hook' =>
                 RecordsOf(order', p) # {} \/ p \in reported'
      PROVE  NoSilentLoss'
  BY <1>1, <1>3, <1>6 DEF NoSilentLoss, RecordsGrow, Recorded
<1>7. ASSUME order' = order, hook' = hook, reported' = reported, PaidNoticeIsTrue'
      PROVE  PaidNoticeIsTrue' /\ PaidStatesArePlaced' /\ NoSilentLoss'
  <2>1. RecordsGrow
    BY <1>7, GrowsIfKept
  <2> QED
    BY <1>2, <1>6, <1>7, <2>1 DEF PaidStatesArePlaced
<1>10. CASE CreateFreeIntent(w)
  <2>1. PaidNoticeIsTrue'
    <3> DEFINE v == [Idle EXCEPT !.pc = "add", !.kind = "intent", !.seen = order.state,
                                 !.status = "paid"]
    <3>1. worker' = [worker EXCEPT ![w] = v] /\ hook' = hook
      BY <1>10 DEF CreateFreeIntent
    <3>2. v.kind = "intent"
      BY DEF Idle
    <3> QED
      BY <1>4, <3>1, <3>2
  <2> QED
    BY <1>7, <1>10, <2>1 DEF CreateFreeIntent
<1>11. CASE StartSync(w)
  <2>1. PaidNoticeIsTrue'
    <3>1. PICK q, todo :
              worker' = [worker EXCEPT ![w] =
                            [Idle EXCEPT !.pc = "fetch", !.kind = "sync", !.pid = q,
                                         !.todo = todo]]
      BY <1>11 DEF StartSync
    <3> DEFINE v == [Idle EXCEPT !.pc = "fetch", !.kind = "sync", !.pid = q, !.todo = todo]
    <3>2. worker' = [worker EXCEPT ![w] = v] /\ hook' = hook
      BY <1>11, <3>1 DEF StartSync
    <3>3. v.kind = "sync"
      BY DEF Idle
    <3> QED
      BY <1>4, <3>2, <3>3
  <2> QED
    BY <1>7, <1>11, <2>1 DEF StartSync
<1>12. CASE \E n \in hook : ReceiveWebhook(w, n)
  <2>1. PICK n \in hook : ReceiveWebhook(w, n)
    BY <1>12
  <2>2. PaidNoticeIsTrue'
    <3> DEFINE v == [Idle EXCEPT !.pc = "fetch", !.kind = "webhook",
                                 !.pid = n[1], !.note = n[2]]
    <3>1. worker' = [worker EXCEPT ![w] = v] /\ hook' = hook
      BY <2>1 DEF ReceiveWebhook
    <3>2. v.pid = n[1] /\ v.note = n[2] /\ v.pc = "fetch"
      BY DEF Idle
    <3>3. n[1] \in Pids /\ n = <<n[1], n[2]>>
      BY <1>2
    <3>4. n[2] = "paid" => mollie[n[1]].status = "paid"
      BY <1>1, <3>3 DEF PaidNoticeIsTrue
    <3> HIDE DEF v
    <3> QED
      BY <1>4, <3>1, <3>2, <3>3, <3>4
  <2> QED
    BY <1>7, <2>1, <2>2 DEF ReceiveWebhook
<1>13. CASE FetchPayment(w)
  <2>1. PaidNoticeIsTrue'
    <3> DEFINE v == [worker[w] EXCEPT !.pc = "read", !.status = mollie[worker[w].pid].status]
    <3>1. worker' = [worker EXCEPT ![w] = v] /\ hook' = hook
      BY <1>2, <1>13 DEF FetchPayment
    <3>2. /\ v.kind = worker[w].kind /\ v.pid = worker[w].pid /\ v.note = worker[w].note
          /\ v.status = mollie[worker[w].pid].status
      BY <1>2 DEF Worker
    <3> HIDE DEF v
    <3> QED
      BY <1>1, <1>4, <3>1, <3>2 DEF PaidNoticeIsTrue
  <2> QED
    BY <1>7, <1>13, <2>1 DEF FetchPayment
<1>14. CASE ReadOrder(w)
  <2>1. PaidNoticeIsTrue'
    <3> DEFINE v == [worker[w] EXCEPT
                        !.pc = Decision(order, worker[w].pid, worker[w].status),
                        !.seen = order.state]
    <3>1. worker' = [worker EXCEPT ![w] = v] /\ hook' = hook
      BY <1>2, <1>14 DEF ReadOrder
    <3>2. /\ v.kind = worker[w].kind /\ v.pid = worker[w].pid /\ v.note = worker[w].note
          /\ v.status = worker[w].status
      BY <1>2 DEF Worker
    <3>3. worker[w].pc = "read"
      BY <1>14 DEF ReadOrder
    <3> HIDE DEF v
    <3> QED
      BY <1>1, <1>4, <3>1, <3>2, <3>3 DEF PaidNoticeIsTrue
  <2> QED
    BY <1>7, <1>14, <2>1 DEF ReadOrder
(* What an acknowledgement of a paid payment means for this request. *)
<1>15. ASSUME NEW o, Returns(w, o), worker[w].pc # "fetch",
              NEW p \in Pids, <<p, "paid">> \in hook, <<p, "paid">> \notin hook'
       PROVE  worker[w].pid = p /\ worker[w].status = "paid"
  <2>1. worker[w].kind = "webhook" /\ worker[w].pid = p /\ worker[w].note = "paid"
    BY <1>1, <1>15, ReturnsFacts
  <2> QED
    BY <1>1, <1>15, <2>1 DEF PaidNoticeIsTrue
<1>21. CASE ReadOrderAndFinish(w)
  <2> DEFINE d == Decision(order, worker[w].pid, worker[w].status)
  <2>1. worker[w].pc = "read"
    BY <1>21 DEF ReadOrderAndFinish
  <2>2. \/ Returns(w, order) /\ d \in {"ignore", "report"}
        \/ Throws(w)
    BY <1>21 DEF ReadOrderAndFinish
  <2>3. /\ order' = order /\ hook' \subseteq hook
        /\ \E v : Resting(v) /\ worker' = [worker EXCEPT ![w] = v]
    BY <1>1, <2>2, ReturnsFacts, ThrowsFacts
  <2>4. /\ reported \subseteq reported'
        /\ Returns(w, order) /\ d = "report" => worker[w].pid \in reported'
        /\ Throws(w) => hook' = hook
    BY <1>21 DEF ReadOrderAndFinish, Throws
  <2>5. ASSUME NEW p \in Pids, <<p, "paid">> \in hook, <<p, "paid">> \notin hook'
        PROVE  RecordsOf(order', p) # {} \/ p \in reported'
    <3>1. Returns(w, order) /\ d \in {"ignore", "report"}
      BY <2>2, <2>4, <2>5
    <3>2. worker[w].pid = p /\ worker[w].status = "paid"
      BY <1>15, <2>1, <2>5, <3>1
    <3>3. CASE d = "ignore"
      <4>1. order.state \notin StatesThatRequireAction /\ order.state # "Cancelled"
            /\ ~(order.placed /\ RecordsOf(order, p) = {})
        BY <3>2, <3>3 DEF Decision
      <4>2. order.state \in OrderState
        BY <1>2 DEF OrderRecord
      <4>3. order.state = "PaymentSettled"
        BY <4>1, <4>2 DEF StatesThatRequireAction, OrderState
      <4>4. RecordsOf(order, p) # {}
        BY <1>2, <4>1, <4>3 DEF PlacedIfPaid
      <4> QED
        BY <2>3, <4>4 DEF RecordsOf
    <3>4. CASE d = "report"
      BY <2>4, <3>1, <3>2, <3>4
    <3> QED
      BY <3>1, <3>3, <3>4
  <2>6. RecordsGrow
    BY <2>3, GrowsIfKept
  <2>7. NoSilentLoss'
    BY <1>6, <2>4, <2>5, <2>6
  <2>8. PaidNoticeIsTrue'
    BY <1>5, <2>3
  <2> QED
    BY <1>2, <2>3, <2>7, <2>8 DEF PaidStatesArePlaced
<1>22. CASE AddPayment(w)
  <2>0. reported' = reported /\ worker[w].pc = "add"
    BY <1>22 DEF AddPayment
  <2>1. CASE Throws(w)
    <3>1. /\ order' = order /\ hook' = hook
          /\ \E v : Resting(v) /\ worker' = [worker EXCEPT ![w] = v]
      BY <2>1, ThrowsFacts
    <3> QED
      BY <1>5, <1>7, <2>0, <3>1
  <2>2. CASE CanRecord(w) /\ Returns(w, WithPayment(ArrangedOrder(w), CreatedPayment(w)))
    <3> DEFINE r == CreatedPayment(w)
               o == ArrangedOrder(w)
    <3>1. r \in PaymentRecord(Txs) /\ r.tx = worker[w].pid
      <4>1. worker[w].pid # FreeTx => worker[w].pid \in Pids
        BY <1>2 DEF Worker, Txs
      <4> QED
        BY <1>1, <1>2, <4>1 DEF CreatedPayment, PaymentRecord, PaymentState, Worker, TypeOK
    <3>2. /\ o \in OrderRecord(Totals, Txs) /\ o.payments = order.payments
          /\ PlacedIfPaid(o)
      <4>1. "ArrangingPayment" \in OrderState
        BY DEF OrderState
      <4>2. NeedsTransition(w) => CanTransition(order, "ArrangingPayment")
        BY <2>2 DEF CanRecord
      <4> QED
        BY <1>2, <4>1, <4>2, TransitionFacts DEF ArrangedOrder
    <3> HIDE DEF r, o
    <3>3. /\ WithPayment(o, r).payments = Append(order.payments, r)
          /\ PlacedIfPaid(WithPayment(o, r))
      BY <3>1, <3>2, WithPaymentFacts
    <3>4. /\ order' = WithPayment(o, r) /\ hook' \subseteq hook
          /\ \E v : Resting(v) /\ worker' = [worker EXCEPT ![w] = v]
      BY <1>1, <2>2, ReturnsFacts DEF r, o
    <3>5. RecordsGrow /\ RecordsOf(order', r.tx) # {}
      BY <1>1, <3>1, <3>3, <3>4, GrowsIfAppended
    <3>6. ASSUME NEW p \in Pids, <<p, "paid">> \in hook, <<p, "paid">> \notin hook'
          PROVE  RecordsOf(order', p) # {}
      <4>1. worker[w].pid = p
        BY <1>15, <2>0, <2>2, <3>6
      <4> QED
        BY <3>1, <3>5, <4>1
    <3>7. NoSilentLoss'
      BY <1>6, <2>0, <3>5, <3>6
    <3>8. PaidNoticeIsTrue'
      BY <1>5, <3>4
    <3> QED
      BY <3>3, <3>4, <3>7, <3>8 DEF PaidStatesArePlaced
  <2> QED
    BY <1>22, <2>1, <2>2 DEF AddPayment
<1>23. CASE SettleExistingPayment(w)
  <2>0. reported' = reported /\ worker[w].pc = "settle"
    BY <1>23 DEF SettleExistingPayment
  <2>1. CASE Throws(w)
    <3>1. /\ order' = order /\ hook' = hook
          /\ \E v : Resting(v) /\ worker' = [worker EXCEPT ![w] = v]
      BY <2>1, ThrowsFacts
    <3> QED
      BY <1>5, <1>7, <2>0, <3>1
  <2>2. ASSUME NEW i \in DOMAIN order.payments,
               order' = Settling(order, i),
               worker' = [worker EXCEPT ![w].pc = "move"], hook' = hook
        PROVE  PaidNoticeIsTrue' /\ PaidStatesArePlaced' /\ NoSilentLoss'
    <3>1. /\ order'.payments = [order.payments EXCEPT ![i].state = "Settled"]
          /\ PlacedIfPaid(order')
      BY <1>2, <2>2, SettlingFacts
    <3>2. RecordsGrow
      BY <1>1, <3>1, GrowsIfSettled
    <3>3. NoSilentLoss'
      BY <1>6, <2>0, <2>2, <3>2
    <3>4. PICK v : v = [worker[w] EXCEPT !.pc = "move"]
      OBVIOUS
    <3>5. /\ v.kind = worker[w].kind /\ v.pid = worker[w].pid /\ v.note = worker[w].note
          /\ v.status = worker[w].status /\ v.pc = "move"
      BY <1>2, <3>4 DEF Worker
    <3>6. worker' = [worker EXCEPT ![w] = v]
      BY <1>2, <2>2, <3>4
    <3>7. PaidNoticeIsTrue'
      BY <1>1, <1>4, <2>0, <2>2, <3>5, <3>6 DEF PaidNoticeIsTrue
    <3> QED
      BY <3>1, <3>3, <3>7 DEF PaidStatesArePlaced
  <2> QED
    BY <1>23, <2>1, <2>2 DEF SettleExistingPayment
<1>25. CASE MoveSettledOrder(w)
  <2>0. /\ reported' = reported /\ worker[w].pc = "move" /\ Returns(w, Progressed(order))
        /\ RecordsOf(order, worker[w].pid) # {}
    BY <1>25 DEF MoveSettledOrder, NoLossInv, MovingIsRecorded
  <2>1. Progressed(order).payments = order.payments /\ PlacedIfPaid(Progressed(order))
    BY <1>2, ProgressFacts
  <2>2. /\ order' = Progressed(order) /\ hook' \subseteq hook
        /\ \E v : Resting(v) /\ worker' = [worker EXCEPT ![w] = v]
    BY <1>1, <2>0, ReturnsFacts
  <2>3. RecordsGrow /\ RecordsOf(order', worker[w].pid) # {}
    BY <2>0, <2>1, <2>2, GrowsIfKept DEF RecordsOf
  <2>4. ASSUME NEW p \in Pids, <<p, "paid">> \in hook, <<p, "paid">> \notin hook'
        PROVE  RecordsOf(order', p) # {}
    <3>1. worker[w].pid = p
      BY <1>15, <2>0, <2>4
    <3> QED
      BY <2>3, <3>1
  <2>5. NoSilentLoss'
    BY <1>6, <2>0, <2>2, <2>3, <2>4
  <2>6. PaidNoticeIsTrue'
    BY <1>5, <2>2
  <2> QED
    BY <2>1, <2>2, <2>5, <2>6 DEF PaidStatesArePlaced
<1>24. CASE Crash(w)
  <2>1. /\ order' = order /\ hook' = hook /\ reported' = reported
        /\ \E v : Resting(v) /\ worker' = [worker EXCEPT ![w] = v]
    BY <1>24, IdleRests DEF Crash, Stops
  <2> QED
    BY <1>5, <1>7, <2>1
<1> QED
  BY <1>10, <1>11, <1>12, <1>13, <1>14, <1>21, <1>22, <1>23, <1>24, <1>25 DEF Handle

(* Nothing is paid yet, so nothing can be lost.                            *)
LEMMA NoLossInit == Init => NoLossInv
<1> SUFFICES ASSUME Init
             PROVE  NoLossInv
  OBVIOUS
<1>1. BackedInv
  BY BackedInit
<1>2. PaidNoticeIsTrue
  BY DEF Init, PaidNoticeIsTrue, Idle
<1>3. PaidStatesArePlaced
  BY DEF Init, PaidStatesArePlaced, PlacedIfPaid
<1>4. NoSilentLoss
  BY DEF Init, NoSilentLoss
<1>5. MovingIsRecorded
  BY DEF Init, MovingIsRecorded, Idle
<1> QED
  BY <1>1, <1>2, <1>3, <1>4, <1>5 DEF NoLossInv

(* No step takes a record away.                                            *)
LEMMA GrowsAlways ==
    ASSUME TypeOK, [Next]_vars
    PROVE  RecordsGrow
<1>1. CASE BooksKept
  BY <1>1, GrowsIfKept DEF BooksKept
<1>2. ASSUME NEW r, PaymentAppended(r) PROVE RecordsGrow
  BY <1>2, GrowsIfAppended DEF PaymentAppended
<1>3. ASSUME NEW i, PaymentSettled(i) PROVE RecordsGrow
  BY <1>3, GrowsIfSettled DEF PaymentSettled
<1>4. ASSUME NEW p \in Pids, Mollie(p) \/ CreatePaymentIntent(p) PROVE RecordsGrow
  <2>1. order' = order
    BY <1>4 DEF Mollie, CreatePaymentIntent, CustomerPays, PaymentFails, AuthorizationLapses,
                CaptureSucceeds, CaptureFails, MollieSets
  <2> QED
    BY <2>1, GrowsIfKept
<1> QED
  BY <1>1, <1>2, <1>3, <1>4, StepsOfTheBooks

(* A settlement has saved the payment before it moves the order.           *)
LEMMA MovingStep ==
    ASSUME NoLossInv, [Next]_vars
    PROVE  MovingIsRecorded'
<1>1. TypeOK /\ MovingIsRecorded /\ RecordsGrow
  BY GrowsAlways DEF NoLossInv, BackedInv
<1>2. worker \in [Workers -> Worker]
  BY <1>1 DEF TypeOK
<1>3. \A x \in Workers : worker[x].pc = "move" => worker[x].pid \in Pids
  BY DEF NoLossInv, BackedInv, HeldStatusIsSafe
<1>4. ASSUME NEW w \in Workers, NEW v, worker' = [worker EXCEPT ![w] = v],
             v.pc = "move" => RecordsOf(order', v.pid) # {}
      PROVE  MovingIsRecorded'
  <2>1. \A x \in Workers : worker'[x] = IF x = w THEN v ELSE worker[x]
    BY <1>2, <1>4
  <2> QED
    BY <1>1, <1>3, <1>4, <2>1 DEF MovingIsRecorded, RecordsGrow
<1>5. CASE worker' = worker
  BY <1>1, <1>3, <1>5 DEF MovingIsRecorded, RecordsGrow
<1>6. ASSUME NEW w \in Workers, \E v : Resting(v) /\ worker' = [worker EXCEPT ![w] = v]
      PROVE  MovingIsRecorded'
  BY <1>4, <1>6 DEF Resting
<1>7. ASSUME NEW w \in Workers,
             \/ CreateFreeIntent(w) \/ StartSync(w) \/ FetchPayment(w) \/ ReadOrder(w)
             \/ \E n \in hook : ReceiveWebhook(w, n)
      PROVE  MovingIsRecorded'
  <2>1. \A x \in Workers \ {w} : worker'[x] = worker[x]
    BY <1>2, <1>7 DEF CreateFreeIntent, StartSync, FetchPayment, ReadOrder, ReceiveWebhook
  <2>2. worker'[w].pc # "move"
    <3>1. worker[w] \in Worker
      BY <1>2
    <3>2. CASE CreateFreeIntent(w)
      BY <1>2, <3>2 DEF CreateFreeIntent, Idle
    <3>3. CASE StartSync(w)
      BY <1>2, <3>3 DEF StartSync, Idle
    <3>4. CASE FetchPayment(w)
      BY <1>2, <3>1, <3>4 DEF FetchPayment, Worker
    <3>5. CASE ReadOrder(w)
      <4>1. PICK d \in {"add", "settle"} :
                worker' = [worker EXCEPT ![w].pc = d, ![w].seen = order.state]
        BY <3>5 DEF ReadOrder
      <4> QED
        BY <1>2, <3>1, <4>1 DEF Worker
    <3>6. ASSUME NEW n \in hook, ReceiveWebhook(w, n) PROVE worker'[w].pc # "move"
      BY <1>2, <3>6 DEF ReceiveWebhook, Idle
    <3> QED
      BY <1>7, <3>2, <3>3, <3>4, <3>5, <3>6
  <2> QED
    BY <1>1, <1>3, <2>1, <2>2 DEF MovingIsRecorded, RecordsGrow
<1>8. ASSUME NEW w \in Workers, NEW o, Returns(w, o) \/ Throws(w)
      PROVE  MovingIsRecorded'
  BY <1>1, <1>6, <1>8, ReturnsFacts, ThrowsFacts
<1>9. ASSUME NEW w \in Workers, SettleExistingPayment(w)
      PROVE  MovingIsRecorded'
  <2>1. CASE Throws(w)
    BY <1>8, <2>1
  <2>2. ASSUME NEW i \in DOMAIN order.payments, Settleable(i, worker[w].pid),
               order' = Settling(order, i), worker' = [worker EXCEPT ![w].pc = "move"]
        PROVE  MovingIsRecorded'
    <3>1. order.payments[i].tx = worker[w].pid
      BY <2>2 DEF Settleable, FirstRecord, RecordsOf
    <3>2. order'.payments = [order.payments EXCEPT ![i].state = "Settled"]
      BY <1>1, <2>2, SettlingFacts DEF TypeOK
    <3>3. RecordsOf(order', worker[w].pid) # {}
      BY <1>1, <3>1, <3>2, GrowsIfSettled
    <3>4. PICK v : v = [worker[w] EXCEPT !.pc = "move"]
      OBVIOUS
    <3>5. v.pid = worker[w].pid
      BY <1>2, <3>4 DEF Worker
    <3>6. worker' = [worker EXCEPT ![w] = v]
      BY <1>2, <2>2, <3>4
    <3> QED
      BY <1>4, <3>3, <3>5, <3>6
  <2> QED
    BY <1>9, <2>1, <2>2 DEF SettleExistingPayment
<1>10. ASSUME NEW w \in Workers, Handle(w) \/ Crash(w)
       PROVE  MovingIsRecorded'
  <2>1. CASE Crash(w)
    BY <1>6, <2>1, IdleRests DEF Crash, Stops
  <2>2. CASE ReadOrderAndFinish(w) \/ AddPayment(w) \/ MoveSettledOrder(w)
    BY <1>8, <2>2 DEF ReadOrderAndFinish, AddPayment, MoveSettledOrder
  <2> QED
    BY <1>7, <1>9, <1>10, <2>1, <2>2 DEF Handle
<1>11. CASE Shop \/ (\E p \in Pids : CreatePaymentIntent(p) \/ Mollie(p) \/ Admin(p))
  <2>1. worker' = worker
    BY <1>11 DEF Shop, EditOrder, MoveOrder, CancelOrder, ModifyOrder, Mollie,
                 CreatePaymentIntent, CustomerPays, PaymentFails, AuthorizationLapses,
                 CaptureSucceeds, CaptureFails, MollieSets,
                 Admin, SettlePaid, RequestCapture, CaptureConfirmed, CaptureGivenUp
  <2> QED
    BY <1>5, <2>1
<1>12. CASE UNCHANGED vars \/ \E n \in hook : IgnoreWebhook(n)
  BY <1>5, <1>12 DEF vars, IgnoreWebhook
<1> QED
  BY <1>7, <1>10, <1>11, <1>12 DEF Next

(* Every action keeps the invariant behind NoSilentLoss.                   *)
LEMMA NoLossStep == NoLossInv /\ [Next]_vars => NoLossInv'
<1> SUFFICES ASSUME NoLossInv, [Next]_vars
             PROVE  PaidNoticeIsTrue' /\ PaidStatesArePlaced' /\ NoSilentLoss'
  BY BackedStep, MovingStep DEF NoLossInv
<1>1. CASE Shop
  BY <1>1, ShopKeepsNoLoss
<1>2. ASSUME NEW p \in Pids, CreatePaymentIntent(p) \/ Mollie(p)
      PROVE  PaidNoticeIsTrue' /\ PaidStatesArePlaced' /\ NoSilentLoss'
  BY <1>2, MollieKeepsNoLoss
<1>3. ASSUME NEW p \in Pids, Admin(p)
      PROVE  PaidNoticeIsTrue' /\ PaidStatesArePlaced' /\ NoSilentLoss'
  BY <1>3, AdminKeepsNoLoss
<1>4. ASSUME NEW w \in Workers,
             \/ CreateFreeIntent(w) \/ StartSync(w) \/ Handle(w) \/ Crash(w)
             \/ \E n \in hook : ReceiveWebhook(w, n)
      PROVE  PaidNoticeIsTrue' /\ PaidStatesArePlaced' /\ NoSilentLoss'
  BY <1>4, RequestsKeepNoLoss
<1>5. ASSUME NEW n \in hook, IgnoreWebhook(n)
      PROVE  PaidNoticeIsTrue' /\ PaidStatesArePlaced' /\ NoSilentLoss'
  BY <1>5
  DEF IgnoreWebhook, NoLossInv, PaidNoticeIsTrue, PaidStatesArePlaced, PlacedIfPaid,
      NoSilentLoss
<1>6. CASE UNCHANGED vars
  BY <1>6
  DEF vars, NoLossInv, PaidNoticeIsTrue, PaidStatesArePlaced, PlacedIfPaid, NoSilentLoss,
      Recorded, RecordsOf
<1> QED
  BY <1>1, <1>2, <1>3, <1>4, <1>5, <1>6 DEF Next

(* Once Mollie has its 200 for a paid payment, the payment is on the order *)
(* or was reported: for any number of payments and requests, through       *)
(* crashes, repeated webhooks, stale readings and every move of the order. *)
THEOREM NothingIsLost == Spec => []NoSilentLoss
<1>1. Spec => []NoLossInv
  BY NoLossInit, NoLossStep, PTL DEF Spec
<1>2. NoLossInv => NoSilentLoss
  BY DEF NoLossInv
<1> QED
  BY <1>1, <1>2, PTL
-----------------------------------------------------------------------------
(* Refinement: every step of the plugin is a step of PaymentBooks or       *)
(* leaves the abstract books as they are.                                  *)

(* How one payment's booking can change while Mollie stands still.         *)
BookingOf(p) ==
    \/ BookedAs(p)' = BookedAs(p)
    \/ BookedAs(p) = "none" /\ BookedAs(p)' = "authorized"
    \/ BookedAs(p)' = "settled"

(* A booking has the money behind it, seen from the mapping.               *)
BookingsAreCharged ==
    \A p \in Pids :
        /\ BookedAs(p) = "settled" => ChargeOf(p) = "taken"
        /\ BookedAs(p) = "authorized" => ChargeOf(p) # "none"

(* It is RecordsAreBacked, in the terms of PaymentBooks.                   *)
LEMMA BookedIsCharged == RecordsAreBacked => BookingsAreCharged
<1> SUFFICES ASSUME RecordsAreBacked, NEW p \in Pids
             PROVE  /\ BookedAs(p) = "settled" => ChargeOf(p) = "taken"
                    /\ BookedAs(p) = "authorized" => ChargeOf(p) # "none"
  BY DEF BookingsAreCharged
<1>0. p # FreeTx
  BY ConstantsAssumption
<1>1. \A i \in RecordsOf(order, p) :
          mollie[p].status \in IF order.payments[i].state = "Settled" THEN {"paid"}
                               ELSE {"authorized", "released", "paid"}
  BY <1>0 DEF RecordsAreBacked, RecordsOf
<1>2. BookedAs(p) = "settled" =>
          \E i \in RecordsOf(order, p) : order.payments[i].state = "Settled"
  BY DEF BookedAs
<1>3. BookedAs(p) = "authorized" => \E i \in RecordsOf(order, p) : TRUE
  BY DEF BookedAs, Recorded
<1>4. mollie[p].status = "paid" => ChargeOf(p) = "taken"
  BY DEF ChargeOf
<1>5. mollie[p].status \in {"authorized", "released", "paid"} => ChargeOf(p) # "none"
  BY DEF ChargeOf
<1> QED
  BY <1>1, <1>2, <1>3, <1>4, <1>5

(* An appended payment books itself, and no other payment.                 *)
LEMMA AppendBooks ==
    ASSUME TypeOK, NEW r, PaymentAppended(r), NEW p \in Pids
    PROVE  /\ BookingOf(p)
           /\ p # r.tx => BookedAs(p)' = BookedAs(p)
<1>1. order.payments \in Seq(PaymentRecord(Txs)) /\ r \in PaymentRecord(Txs)
  BY OrderTyped DEF PaymentAppended
<1> DEFINE n == Len(order.payments) + 1
<1>2. /\ DOMAIN order'.payments = DOMAIN order.payments \cup {n}
      /\ n \notin DOMAIN order.payments
      /\ \A i \in DOMAIN order.payments : order'.payments[i] = order.payments[i]
      /\ order'.payments[n] = r
  BY <1>1 DEF PaymentAppended
<1> HIDE DEF n
<1>3. RecordsOf(order', p) = RecordsOf(order, p) \cup IF r.tx = p THEN {n} ELSE {}
  BY <1>2 DEF RecordsOf
<1>4. \A i \in RecordsOf(order, p) : order'.payments[i] = order.payments[i]
  BY <1>2 DEF RecordsOf
<1>5. r.state \in {"Authorized", "Settled"}
  BY <1>1 DEF PaymentRecord, PaymentState
<1>6. p # r.tx => BookedAs(p)' = BookedAs(p)
  BY <1>3, <1>4 DEF BookedAs, Recorded
<1>7. CASE p = r.tx /\ r.state = "Settled"
  BY <1>2, <1>3, <1>7 DEF BookingOf, BookedAs
<1>8. CASE p = r.tx /\ r.state = "Authorized"
  <2>1. (\E i \in RecordsOf(order', p) : order'.payments[i].state = "Settled") <=>
            \E i \in RecordsOf(order, p) : order.payments[i].state = "Settled"
    BY <1>2, <1>3, <1>4, <1>8
  <2>2. RecordsOf(order', p) # {}
    BY <1>3, <1>8
  <2> QED
    BY <2>1, <2>2, <1>8 DEF BookingOf, BookedAs, Recorded
<1> QED
  BY <1>5, <1>6, <1>7, <1>8 DEF BookingOf

(* Settling a record settles its payment, and no other.                    *)
LEMMA SettleBooks ==
    ASSUME TypeOK, NEW i, PaymentSettled(i), NEW p \in Pids
    PROVE  /\ BookingOf(p)
           /\ p # order.payments[i].tx => BookedAs(p)' = BookedAs(p)
<1>1. /\ order.payments \in Seq(PaymentRecord(Txs)) /\ i \in DOMAIN order.payments
      /\ \A j \in DOMAIN order.payments : order.payments[j] \in PaymentRecord(Txs)
  BY OrderTyped DEF PaymentSettled
<1>2. /\ DOMAIN order'.payments = DOMAIN order.payments
      /\ \A j \in DOMAIN order.payments : j # i => order'.payments[j] = order.payments[j]
      /\ order'.payments[i].tx = order.payments[i].tx
      /\ order'.payments[i].state = "Settled"
  BY <1>1 DEF PaymentSettled, PaymentRecord
<1>3. RecordsOf(order', p) = RecordsOf(order, p)
  BY <1>2 DEF RecordsOf
<1>4. CASE p # order.payments[i].tx
  <2>1. \A j \in RecordsOf(order, p) : order'.payments[j] = order.payments[j]
    BY <1>2, <1>4 DEF RecordsOf
  <2>2. BookedAs(p)' = BookedAs(p)
    BY <1>3, <2>1 DEF BookedAs, Recorded
  <2> QED
    BY <1>4, <2>2 DEF BookingOf
<1>5. CASE p = order.payments[i].tx
  <2>1. i \in RecordsOf(order', p)
    BY <1>1, <1>2, <1>5 DEF RecordsOf
  <2>2. BookedAs(p)' = "settled"
    BY <1>2, <2>1 DEF BookedAs
  <2> QED
    BY <1>5, <2>2 DEF BookingOf
<1> QED
  BY <1>4, <1>5

(* Nothing is taken and nothing booked at first, in both specifications.   *)
LEMMA RefinesInit == Init => Books!Init
<1> SUFFICES ASSUME Init
             PROVE  Books!Init
  OBVIOUS
<1>1. \A p \in Pids : ChargeOf(p) = "none"
  BY DEF Init, ChargeOf
<1>2. \A p \in Pids : BookedAs(p) = "none"
  BY DEF Init, BookedAs, Recorded, RecordsOf
<1> QED
  BY <1>1, <1>2 DEF Books!Init

(* Mollie's steps hold, take or release the money of one payment.          *)
LEMMA MollieRefines ==
    ASSUME TypeOK, NEW p \in Pids, Mollie(p) \/ CreatePaymentIntent(p)
    PROVE  [Books!Next]_Books!vars
<1> DEFINE charge == [q \in Pids |-> ChargeOf(q)]
           booked == [q \in Pids |-> BookedAs(q)]
<1>1. order' = order
  BY DEF Mollie, CreatePaymentIntent, CustomerPays, PaymentFails, AuthorizationLapses,
         CaptureSucceeds, CaptureFails, MollieSets
<1>2. booked' = booked
  BY <1>1 DEF BookedAs, Recorded, RecordsOf
<1>3. mollie \in [Pids -> [status : MollieStatus, amount : Nat, manual : BOOLEAN]]
  BY DEF TypeOK
<1>4. ASSUME \A q \in Pids : ChargeOf(q)' = ChargeOf(q)
      PROVE  [Books!Next]_Books!vars
  BY <1>2, <1>4 DEF Books!vars
<1>5. ASSUME NEW st, MollieSets(p, st)
      PROVE  /\ mollie'[p].status = st
             /\ \A q \in Pids \ {p} : ChargeOf(q)' = ChargeOf(q)
  BY <1>3, <1>5 DEF MollieSets, ChargeOf
<1>6. ASSUME NEW c, ChargeOf(p)' = c, \A q \in Pids \ {p} : ChargeOf(q)' = ChargeOf(q)
      PROVE  charge' = [charge EXCEPT ![p] = c]
  BY <1>6
<1>7. CASE CustomerPays(p)
  <2>1. charge[p] = "none"
    BY <1>7 DEF CustomerPays, ChargeOf
  <2>2. CASE mollie[p].manual
    <3>1. MollieSets(p, "authorized")
      BY <1>7, <2>2 DEF CustomerPays
    <3>2. ChargeOf(p)' = "held"
      BY <1>5, <3>1 DEF ChargeOf
    <3>3. Books!Hold(p)
      BY <1>2, <1>5, <1>6, <2>1, <3>1, <3>2 DEF Books!Hold
    <3> QED
      BY <3>3 DEF Books!Next
  <2>3. CASE ~mollie[p].manual
    <3>1. MollieSets(p, "paid")
      BY <1>7, <2>3 DEF CustomerPays
    <3>2. ChargeOf(p)' = "taken"
      BY <1>5, <3>1 DEF ChargeOf
    <3>3. Books!Take(p)
      BY <1>2, <1>5, <1>6, <2>1, <3>1, <3>2 DEF Books!Take
    <3> QED
      BY <3>3 DEF Books!Next
  <2> QED
    BY <2>2, <2>3
<1>8. CASE PaymentFails(p)
  <2>1. ChargeOf(p) = "none" /\ ChargeOf(p)' = "none"
    BY <1>5, <1>8 DEF PaymentFails, ChargeOf
  <2> QED
    BY <1>4, <1>5, <1>8, <2>1 DEF PaymentFails
<1>9. CASE AuthorizationLapses(p)
  <2>1. charge[p] = "held" /\ ChargeOf(p)' = "released"
    BY <1>5, <1>9 DEF AuthorizationLapses, ChargeOf
  <2>2. Books!Release(p)
    BY <1>2, <1>5, <1>6, <1>9, <2>1 DEF AuthorizationLapses, Books!Release
  <2> QED
    BY <2>2 DEF Books!Next
<1>10. CASE CaptureSucceeds(p)
  <2>1. charge[p] = "held" /\ ChargeOf(p)' = "taken"
    BY <1>5, <1>10 DEF CaptureSucceeds, ChargeOf
  <2>2. Books!Take(p)
    BY <1>2, <1>5, <1>6, <1>10, <2>1 DEF CaptureSucceeds, Books!Take
  <2> QED
    BY <2>2 DEF Books!Next
<1>11. CASE CaptureFails(p)
  BY <1>4, <1>11 DEF CaptureFails, ChargeOf
<1>12. CASE CreatePaymentIntent(p)
  <2>1. mollie[p].status = "none" /\ mollie'[p].status = "open"
        /\ \A q \in Pids \ {p} : mollie'[q] = mollie[q]
    BY <1>3, <1>12 DEF CreatePaymentIntent
  <2>2. \A q \in Pids : ChargeOf(q)' = ChargeOf(q)
    BY <2>1 DEF ChargeOf
  <2> QED
    BY <1>4, <2>2
<1> QED
  BY <1>7, <1>8, <1>9, <1>10, <1>11, <1>12 DEF Mollie

(* A booking of one payment while Mollie stands still is a booking of the  *)
(* abstract books, because what it leaves is backed.                       *)
LEMMA BookingRefines ==
    ASSUME RecordsAreBacked', mollie' = mollie, NEW tx,
           \A p \in Pids : BookingOf(p) /\ (p # tx => BookedAs(p)' = BookedAs(p))
    PROVE  [Books!Next]_Books!vars
<1> DEFINE charge == [q \in Pids |-> ChargeOf(q)]
           booked == [q \in Pids |-> BookedAs(q)]
<1>1. charge' = charge
  BY DEF ChargeOf
<1>2. CASE \A p \in Pids : BookedAs(p)' = BookedAs(p)
  BY <1>1, <1>2 DEF Books!vars
<1>3. ASSUME NEW p \in Pids, BookedAs(p)' # BookedAs(p)
      PROVE  Books!Next
  <2>1. p = tx /\ BookingOf(p)
    BY <1>3
  <2>2. booked' = [booked EXCEPT ![p] = BookedAs(p)']
    BY <2>1
  <2>3. /\ BookedAs(p)' = "settled" => ChargeOf(p) = "taken"
        /\ BookedAs(p)' = "authorized" => ChargeOf(p) # "none"
    <3>1. BookingsAreCharged'
      BY BookedIsCharged, PTL
    <3>2. ChargeOf(p)' = ChargeOf(p)
      BY DEF ChargeOf
    <3> QED
      BY <3>1, <3>2 DEF BookingsAreCharged
  <2>4. CASE BookedAs(p)' = "settled"
    <3>1. Books!BookSettled(p)
      BY <1>1, <1>3, <2>2, <2>3, <2>4 DEF Books!BookSettled
    <3> QED
      BY <3>1 DEF Books!Next
  <2>5. CASE BookedAs(p) = "none" /\ BookedAs(p)' = "authorized"
    <3>1. Books!BookAuthorized(p)
      BY <1>1, <1>3, <2>2, <2>3, <2>5 DEF Books!BookAuthorized
    <3> QED
      BY <3>1 DEF Books!Next
  <2> QED
    BY <1>3, <2>1, <2>4, <2>5 DEF BookingOf
<1> QED
  BY <1>2, <1>3

(* Every step maps to a step of the books or to a stutter.                 *)
LEMMA RefinesStep == BackedInv /\ [Next]_vars => [Books!Next]_Books!vars
<1> SUFFICES ASSUME BackedInv, [Next]_vars
             PROVE  [Books!Next]_Books!vars
  OBVIOUS
<1>1. TypeOK
  BY DEF BackedInv
<1>2. RecordsAreBacked'
  BY BackedStep DEF BackedInv
<1>3. CASE BooksKept
  BY <1>3 DEF BooksKept, Books!vars, ChargeOf, BookedAs, Recorded, RecordsOf
<1>4. ASSUME NEW r, PaymentAppended(r)
      PROVE  [Books!Next]_Books!vars
  <2>1. \A p \in Pids : BookingOf(p) /\ (p # r.tx => BookedAs(p)' = BookedAs(p))
    BY <1>1, <1>4, AppendBooks
  <2>2. mollie' = mollie
    BY <1>4 DEF PaymentAppended
  <2> DEFINE tx == r.tx
  <2> HIDE DEF tx
  <2>3. \A p \in Pids : BookingOf(p) /\ (p # tx => BookedAs(p)' = BookedAs(p))
    BY <2>1 DEF tx
  <2> QED
    BY <1>2, <2>2, <2>3, BookingRefines
<1>5. ASSUME NEW i, PaymentSettled(i)
      PROVE  [Books!Next]_Books!vars
  <2> DEFINE tx == order.payments[i].tx
  <2>1. \A p \in Pids : BookingOf(p) /\ (p # tx => BookedAs(p)' = BookedAs(p))
    BY <1>1, <1>5, SettleBooks
  <2>2. mollie' = mollie
    BY <1>5 DEF PaymentSettled
  <2> HIDE DEF tx
  <2> QED
    BY <1>2, <2>1, <2>2, BookingRefines
<1>6. ASSUME NEW p \in Pids, Mollie(p) \/ CreatePaymentIntent(p)
      PROVE  [Books!Next]_Books!vars
  BY <1>1, <1>6, MollieRefines
<1> QED
  BY <1>1, <1>3, <1>4, <1>5, <1>6, StepsOfTheBooks

(* The plugin implements PaymentBooks: it books one payment at a time,     *)
(* only what Mollie reserved or took, and no late webhook, repeated sync,  *)
(* failed capture or crash takes a booking back.                           *)
THEOREM Refinement == Spec => KeepsTheBooks
<1>1. Init => Books!Init
  BY RefinesInit
<1>2. BackedInv /\ [Next]_vars => [Books!Next]_Books!vars
  BY RefinesStep
<1> QED
  BY <1>1, <1>2, BackedInvariant, PTL DEF Spec, KeepsTheBooks, Books!Spec

-----------------------------------------------------------------------------
(* SettledOrderIsPaid: an order is settled only while its settled records  *)
(* cover it, and each of these has the money behind it.                    *)

(* Mollie has created some payments, never infinitely many. *)
Created == {p \in Pids : mollie[p].status # "none"}

PaidInv ==
    /\ BackedInv
    /\ CoveredIfSettled(order)
    /\ IsFiniteSet(Created)

(* No step leaves a settled order uncovered: its total grows and payments  *)
(* come only after it left PaymentSettled, and settling a record again     *)
(* takes nothing away.                                                     *)
LEMMA CoveredStep ==
    ASSUME TypeOK, CoveredIfSettled(order), [Next]_vars
    PROVE  CoveredIfSettled(order')
<1>1. order \in OrderRecord(Totals, Txs) /\ Totals \subseteq Nat
  BY ConstantsAssumption DEF TypeOK
<1>2. CASE order' = order
  BY <1>2
<1>3. CASE EditOrder
  BY <1>1, <1>3 DEF EditOrder, OrderRecord, CoveredIfSettled
<1>4. CASE MoveOrder \/ CancelOrder
  <2>1. PICK to \in OrderState : CanTransition(order, to) /\ order' = Transitioned(order, to)
    BY <1>4 DEF MoveOrder, CancelOrder, OrderState
  <2> QED
    BY <1>1, <2>1, TransitionCovers
<1>5. CASE ModifyOrder
  <2>1. order'.state = "ArrangingAdditionalPayment"
    BY <1>1, <1>5 DEF ModifyOrder, Transitioned, OrderRecord
  <2> QED
    BY <2>1 DEF CoveredIfSettled
<1>6. ASSUME NEW i \in DOMAIN order.payments, order' = WithSettled(order, i)
      PROVE  CoveredIfSettled(order')
  BY <1>1, <1>6, WithSettledCovers
<1>14. CASE order' = Progressed(order)
  BY <1>1, <1>14, ProgressCovers
<1>7. ASSUME NEW p \in Pids, CreatePaymentIntent(p) \/ Mollie(p)
      PROVE  CoveredIfSettled(order')
  BY <1>2, <1>7
  DEF Mollie, CreatePaymentIntent, CustomerPays, PaymentFails, AuthorizationLapses,
      CaptureSucceeds, CaptureFails, MollieSets
<1>8. ASSUME NEW p \in Pids, Admin(p)
      PROVE  CoveredIfSettled(order')
  BY <1>2, <1>6, <1>8, <1>14
  DEF Admin, SettlePaid, RequestCapture, CaptureConfirmed, CaptureGivenUp
<1>9. ASSUME NEW w \in Workers, AddPayment(w)
      PROVE  CoveredIfSettled(order')
  <2>1. CASE Throws(w)
    BY <1>2, <2>1 DEF Throws
  <2>2. CASE CanRecord(w) /\ Returns(w, WithPayment(ArrangedOrder(w), CreatedPayment(w)))
    <3> DEFINE r == CreatedPayment(w)
               o == ArrangedOrder(w)
    <3>1. r \in PaymentRecord(Txs)
      BY DEF TypeOK, CreatedPayment, PaymentRecord, PaymentState, Worker, Txs
    <3>2. o \in OrderRecord(Totals, Txs) /\ CanAddPayment(o)
      BY <1>1, <2>2, TransitionFacts DEF CanRecord, ArrangedOrder, OrderState
    <3>3. order' = WithPayment(o, r)
      BY <2>2 DEF Returns
    <3> HIDE DEF r, o
    <3> QED
      BY <3>1, <3>2, <3>3, WithPaymentCovers
  <2> QED
    BY <1>9, <2>1, <2>2 DEF AddPayment
<1>10. ASSUME NEW w \in Workers, SettleExistingPayment(w)
       PROVE  CoveredIfSettled(order')
  BY <1>1, <1>2, <1>10, SettlingCovers DEF SettleExistingPayment, Throws
<1>15. ASSUME NEW w \in Workers, MoveSettledOrder(w)
       PROVE  CoveredIfSettled(order')
  BY <1>14, <1>15 DEF MoveSettledOrder, Returns
<1>11. ASSUME NEW w \in Workers,
              \/ CreateFreeIntent(w) \/ StartSync(w) \/ Crash(w) \/ FetchPayment(w)
              \/ ReadOrder(w) \/ ReadOrderAndFinish(w)
              \/ \E n \in hook : ReceiveWebhook(w, n)
       PROVE  CoveredIfSettled(order')
  <2>1. order' = order
    BY <1>11
    DEF CreateFreeIntent, StartSync, Crash, FetchPayment, ReadOrder, ReadOrderAndFinish,
        Returns, Throws, ReceiveWebhook
  <2> QED
    BY <1>2, <2>1
<1>12. ASSUME NEW n \in hook, IgnoreWebhook(n)
       PROVE  CoveredIfSettled(order')
  BY <1>2, <1>12 DEF IgnoreWebhook
<1>13. CASE UNCHANGED vars
  BY <1>2, <1>13 DEF vars
<1> QED
  BY <1>3, <1>4, <1>5, <1>7, <1>8, <1>9, <1>10, <1>11, <1>12, <1>13, <1>15
  DEF Next, Shop, Handle

(* A step creates at most one payment.                                     *)
LEMMA CreatedStep ==
    ASSUME TypeOK, IsFiniteSet(Created), [Next]_vars
    PROVE  IsFiniteSet(Created')
<1>1. mollie \in [Pids -> [status : MollieStatus, amount : Nat, manual : BOOLEAN]]
  BY DEF TypeOK
<1>2. CASE mollie' = mollie
  BY <1>2 DEF Created
<1>3. ASSUME NEW p \in Pids, Mollie(p) \/ CreatePaymentIntent(p)
      PROVE  IsFiniteSet(Created')
  <2>1. \A q \in Pids \ {p} : mollie'[q] = mollie[q]
    BY <1>1, <1>3
    DEF Mollie, CreatePaymentIntent, CustomerPays, PaymentFails, AuthorizationLapses,
        CaptureSucceeds, CaptureFails, MollieSets
  <2>2. Created' \subseteq Created \cup {p}
    BY <2>1 DEF Created
  <2>3. IsFiniteSet(Created \cup {p})
    BY FS_AddElement
  <2> QED
    BY <2>2, <2>3, FS_Subset
<1> QED
  BY <1>2, <1>3, StepsOfTheBooks DEF BooksKept, PaymentAppended, PaymentSettled

(* What the customer paid in all is a sum over the paid payments.          *)
LEMMA TakenIsSum ==
    ASSUME IsFiniteSet(Created)
    PROVE  LET paid == {p \in Pids : mollie[p].status = "paid"}
           IN  /\ IsFiniteSet(paid)
               /\ MoneyTaken = SumOf([p \in Pids |-> mollie[p].amount], paid)
<1> DEFINE R == {p \in Pids : mollie[p].status = "paid"}
           f == [p \in Pids |-> mollie[p].amount]
           iter == CHOOSE h : h = [s \in SUBSET R |->
                       IF s = {} THEN 0
                       ELSE mollie[CHOOSE x \in s : TRUE].amount
                                + h[s \ {CHOOSE x \in s : TRUE}]]
<1>1. MoneyTaken = iter[R]
  BY Zenon DEF MoneyTaken, MapThenSumSet, MapThenFoldSet
<1>2. R \subseteq Created /\ \A x \in R : f[x] = mollie[x].amount
  BY DEF Created
<1>3. IsFiniteSet(R)
  <2> HIDE DEF R
  <2> QED
    BY <1>2, FS_Subset
<1> HIDE DEF R, f
<1>4. \A s \in SUBSET R : s # {} =>
          f[CHOOSE x \in s : TRUE] = mollie[CHOOSE x \in s : TRUE].amount
  BY <1>2, ChosenIsIn
<1>5. PICK g : IsSum(g, f, R)
  BY <1>3, SumExists
<1>6. g = [s \in SUBSET R |->
              IF s = {} THEN 0
              ELSE mollie[CHOOSE x \in s : TRUE].amount + g[s \ {CHOOSE x \in s : TRUE}]]
  BY <1>4, <1>5 DEF IsSum
<1>7. iter = [s \in SUBSET R |->
                 IF s = {} THEN 0
                 ELSE mollie[CHOOSE x \in s : TRUE].amount
                          + iter[s \ {CHOOSE x \in s : TRUE}]]
  BY <1>6
<1> HIDE DEF iter
<1>8. IsSum(iter, f, R)
  BY <1>4, <1>7 DEF IsSum
<1>9. iter[R] = SumOf(f, R)
  BY <1>3, <1>8, SumsAreSums
<1> QED
  BY <1>1, <1>3, <1>9 DEF R, f

(* PaidInv is inductive, and is what SettledOrderIsPaid takes.             *)
LEMMA PaidInvariant == Spec => []PaidInv
<1>1. Init => PaidInv
  <2> SUFFICES ASSUME Init
               PROVE  PaidInv
    OBVIOUS
  <2>1. CoveredIfSettled(order)
    BY DEF Init, CoveredIfSettled
  <2>2. Created = {}
    BY DEF Init, Created
  <2> QED
    BY <2>1, <2>2, BackedInit, FS_EmptySet DEF PaidInv
<1>2. PaidInv /\ [Next]_vars => PaidInv'
  <2> SUFFICES ASSUME PaidInv, [Next]_vars
               PROVE  PaidInv'
    OBVIOUS
  <2>1. TypeOK /\ BackedInv /\ BackedInv'
    BY BackedStep DEF PaidInv, BackedInv
  <2>2. CoveredIfSettled(order')
    BY <2>1, CoveredStep DEF PaidInv
  <2>3. IsFiniteSet(Created')
    BY <2>1, CreatedStep DEF PaidInv
  <2>4. CoveredIfSettled(order)'
    BY <2>2, Zenon DEF CoveredIfSettled, CoveredBy, MapThenSumSet, MapThenFoldSet
  <2> QED
    BY <2>1, <2>3, <2>4 DEF PaidInv
<1> QED
  BY <1>1, <1>2, PTL DEF Spec

(* Whatever is settled twice aside, a settled order is paid in full at     *)
(* Mollie: the sum of what Mollie took is no less than the order's total,  *)
(* for any number of payments of any amounts.                              *)
THEOREM SettledIsPaid == Spec => []SettledOrderIsPaid
<1>1. PaidInv => SettledOrderIsPaid
  <2> SUFFICES ASSUME PaidInv, order.state = "PaymentSettled", RecordedOnce
               PROVE  MoneyTaken >= order.total
    BY DEF SettledOrderIsPaid
  <2> DEFINE paid == {p \in Pids : mollie[p].status = "paid"}
             taken == [p \in Pids |-> mollie[p].amount]
  <2>1. /\ TypeOK /\ RecordsAreBacked /\ CoveredIfSettled(order)
        /\ IsFiniteSet(paid) /\ MoneyTaken = SumOf(taken, paid)
    BY TakenIsSum DEF PaidInv, BackedInv
  <2>2. order \in OrderRecord(Totals, Txs) /\ Totals \subseteq Nat
    BY <2>1, ConstantsAssumption DEF TypeOK
  <2>3. \A p \in paid : taken[p] \in Nat
    BY <2>1 DEF TypeOK
  <2>4. ASSUME NEW i \in DOMAIN order.payments,
               order.payments[i].state = "Settled", order.payments[i].amount # 0
        PROVE  /\ order.payments[i].tx \in paid
               /\ order.payments[i].amount = taken[order.payments[i].tx]
    <3>1. order.payments[i].tx # FreeTx
      BY <2>1, <2>4 DEF RecordsAreBacked
    <3>2. order.payments[i].tx \in Pids
      BY <2>1, <3>1, OrderTyped DEF PaymentRecord, Txs
    <3>3. /\ order.payments[i].amount = mollie[order.payments[i].tx].amount
          /\ mollie[order.payments[i].tx].status = "paid"
      BY <2>1, <2>4, <3>1 DEF RecordsAreBacked
    <3> QED
      BY <3>2, <3>3
  <2>5. \A i, j \in DOMAIN order.payments :
            order.payments[i].tx = order.payments[j].tx => i = j
    BY DEF RecordedOnce
  <2> HIDE DEF paid, taken
  <2>6. SumOf(taken, paid) >= order.total
    BY <2>1, <2>2, <2>3, <2>4, <2>5, SettledIsTaken
  <2> QED
    BY <2>1, <2>6
<1> QED
  BY <1>1, PaidInvariant, PTL
=============================================================================
