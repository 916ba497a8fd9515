----------------------- MODULE BraintreePaymentsProofs ----------------------
(***************************************************************************)
(* Theorems about BraintreePayments, for every set of payments, records,   *)
(* clients and refunds: what a customer paid with is offered again, the    *)
(* plugin implements PaymentBooks, and the refunds the shop booked are     *)
(* those Braintree made, but for what was lost or is on the way.           *)
(***************************************************************************)
EXTENDS BraintreePayments, VendureOrderProofs, TLAPS

(* How far an attempt has come says whether it charged and booked. *)
StagesAreTrue ==
    \A p \in Payments :
        /\ attempt[p].pc # "done" => booked[p] = "none"
        /\ attempt[p].pc \in {"idle", "create", "save", "sale"} => p \notin charged
        /\ attempt[p].pc = "book" /\ attempt[p].outcome = "Settled" => p \in charged
        /\ attempt[p].pc # "book" => attempt[p].outcome = "none"
        /\ attempt[p].pc = "create" => attempt[p].vault = NoRecord
        /\ attempt[p].pc = "save" => attempt[p].vault \in made
        /\ attempt[p].wrote => attempt[p].pc \in {"sale", "book"}

(* Two attempts at work know it. *)
OverlapIsNoticed == \A p, q \in AtWork : p # q => p \in overlapped

(* An attempt on the way to a new record of the customer. *)
Creating(p) == attempt[p].pc \in {"create", "save"} \/ attempt[p].wrote

(* What is stored under an id the shop may yet lose. *)
Adrift(m) == m[1] \in overlapped \/ m[1] \in lost \/ m[2] \notin known

(* An attempt makes a new record only when no other is worth keeping; the  *)
(* id it uses otherwise is the shop's, unless another one came between.    *)
VaultIsTrue ==
    /\ \A p \in AtWork : Creating(p) => \A m \in methods : m[1] = p \/ Adrift(m)
    /\ \A p \in AtWork :
           ~Creating(p) /\ attempt[p].vault # NoRecord =>
               attempt[p].vault = reference \/ p \in overlapped
    /\ \A m \in methods : attempt[m[1]].pc = "book" => m[2] = attempt[m[1]].vault

(* A charge of a transaction that goes on is booked, or about to be.       *)
ChargeIsRecorded ==
    \A p \in charged \ lost :
        \/ booked[p] = "Settled"
        \/ attempt[p].pc = "book" /\ attempt[p].outcome = "Settled"

(* The inductive invariant. *)
PaymentInv ==
    /\ TypeOK
    /\ StagesAreTrue
    /\ OverlapIsNoticed
    /\ VaultIsTrue
    /\ ChargeIsRecorded
    /\ StoredMethodsAreOffered

-----------------------------------------------------------------------------
(* A step that leaves attempts, charges and the vault as they are keeps    *)
(* the invariant if it keeps the types of the rest.                        *)
LEMMA ElsewhereStep ==
    ASSUME PaymentInv,
           UNCHANGED <<shop, attempt, braintree, lost, overlapped>>,
           token' \in [Clients -> {"idle", "dropping"}],
           refunding' \in [Admins -> Refund],
           refunds' \in [Payments -> [shop : Nat, braintree : 0..Amount, lost : Nat]],
           switched' \in BOOLEAN, faults' \in 0..MaxFaults
    PROVE  PaymentInv'
<1>1. TypeOK'
  BY DEF PaymentInv, TypeOK, shop, braintree, AtWork
<1>2. StagesAreTrue' /\ OverlapIsNoticed' /\ VaultIsTrue'
  BY DEF PaymentInv, StagesAreTrue, OverlapIsNoticed, VaultIsTrue, Creating, Adrift, AtWork,
     shop, braintree
<1>3. ChargeIsRecorded' /\ StoredMethodsAreOffered'
  BY DEF PaymentInv, ChargeIsRecorded, StoredMethodsAreOffered, shop, braintree
<1> QED
  BY <1>1, <1>2, <1>3 DEF PaymentInv

(* A fault keeps the bound on faults. *)
LEMMA FaultTyped ==
    ASSUME faults \in 0..MaxFaults, Fault
    PROVE  faults' \in 0..MaxFaults
BY ConstantsAssumption DEF Fault

(* A refund adds to the sums of its payment. *)
LEMMA RefundTyped ==
    ASSUME TypeOK, NEW a \in Admins, refunding[a].pc \in {"ask", "book"}
    PROVE  /\ refunding[a].payment \in Payments /\ refunding[a].amount \in 1..Amount
           /\ RefundedSoFar(a) \in [shop : Nat, braintree : 0..Amount, lost : Nat]
BY DEF TypeOK, Refund, NoRefund, RefundedSoFar

(* What Braintree has given back stays within what it took (CanRefund). *)
LEMMA MakeRefundStep ==
    ASSUME PaymentInv, NEW a \in Admins, MakeRefund(a)
    PROVE  PaymentInv'
<1> DEFINE sums == [RefundedSoFar(a) EXCEPT !.braintree = @ + refunding[a].amount]
<1>1. /\ refunding[a].pc = "ask" /\ CanRefund(a)
      /\ refunds' = [refunds EXCEPT ![refunding[a].payment] = sums]
      /\ refunding' = [refunding EXCEPT ![a].pc = "book"]
      /\ UNCHANGED <<shop, attempt, token, braintree, history>>
  BY DEF MakeRefund, RefundedIs
<1>2. /\ refunding[a].payment \in Payments /\ refunding[a].amount \in 1..Amount
      /\ RefundedSoFar(a) \in [shop : Nat, braintree : 0..Amount, lost : Nat]
  BY <1>1, RefundTyped DEF PaymentInv
<1>3. sums \in [shop : Nat, braintree : 0..Amount, lost : Nat]
  <2>1. RefundedSoFar(a).braintree + refunding[a].amount \in 0..Amount
    BY <1>1, <1>2, ConstantsAssumption DEF CanRefund
  <2> QED
    BY <1>2, <2>1
<1> HIDE DEF sums
<1>4. refunds' \in [Payments -> [shop : Nat, braintree : 0..Amount, lost : Nat]]
  BY <1>1, <1>2, <1>3 DEF PaymentInv, TypeOK
<1>5. refunding' \in [Admins -> Refund]
  BY <1>1 DEF PaymentInv, TypeOK, Refund, NoRefund
<1> QED
  BY <1>1, <1>4, <1>5, ElsewhereStep DEF history, PaymentInv, TypeOK

(* The shop adds the refund to its own sum only. *)
LEMMA BookRefundStep ==
    ASSUME PaymentInv, NEW a \in Admins, BookRefund(a)
    PROVE  PaymentInv'
<1> DEFINE sums == [RefundedSoFar(a) EXCEPT !.shop = @ + refunding[a].amount]
<1>1. /\ refunding[a].pc = "book"
      /\ refunds' = [refunds EXCEPT ![refunding[a].payment] = sums]
      /\ refunding' = [refunding EXCEPT ![a] = NoRefund]
      /\ UNCHANGED <<shop, attempt, token, braintree, history>>
  BY DEF BookRefund, RefundedIs
<1>2. sums \in [shop : Nat, braintree : 0..Amount, lost : Nat]
  BY <1>1, RefundTyped, ConstantsAssumption DEF PaymentInv
<1> HIDE DEF sums
<1>3. refunds' \in [Payments -> [shop : Nat, braintree : 0..Amount, lost : Nat]]
  BY <1>1, <1>2, RefundTyped DEF PaymentInv, TypeOK
<1>4. refunding' \in [Admins -> Refund]
  BY <1>1 DEF PaymentInv, TypeOK, Refund, NoRefund
<1> QED
  BY <1>1, <1>3, <1>4, ElsewhereStep DEF history, PaymentInv, TypeOK

(* What is lost is added to the sums, too. *)
LEMMA RefundBreaksStep ==
    ASSUME PaymentInv, NEW a \in Admins, RefundBreaks(a)
    PROVE  PaymentInv'
<1>1. /\ refunding[a].pc \in {"ask", "book"}
      /\ refunding' = [refunding EXCEPT ![a] = NoRefund]
      /\ UNCHANGED <<shop, attempt, token, braintree, lost, overlapped, switched>>
      /\ faults' \in 0..MaxFaults
  BY FaultTyped DEF RefundBreaks, PaymentInv, TypeOK
<1>2. /\ refunding[a].payment \in Payments /\ refunding[a].amount \in 1..Amount
      /\ RefundedSoFar(a) \in [shop : Nat, braintree : 0..Amount, lost : Nat]
  BY <1>1, RefundTyped DEF PaymentInv
<1>3. \E sums \in [shop : Nat, braintree : 0..Amount, lost : Nat] :
          refunds' = [refunds EXCEPT ![refunding[a].payment] = sums]
  <2>1. CASE CanRefund(a)
             /\ RefundedIs(a, [RefundedSoFar(a) EXCEPT !.braintree = @ + refunding[a].amount,
                                                       !.lost = @ + refunding[a].amount])
    <3>1. RefundedSoFar(a).braintree + refunding[a].amount \in 0..Amount
      BY <1>2, <2>1, ConstantsAssumption DEF CanRefund
    <3>2. RefundedSoFar(a).lost + refunding[a].amount \in Nat
      BY <1>2, ConstantsAssumption
    <3>3. [RefundedSoFar(a) EXCEPT !.braintree = @ + refunding[a].amount,
                                   !.lost = @ + refunding[a].amount]
              \in [shop : Nat, braintree : 0..Amount, lost : Nat]
      BY <1>2, <3>1, <3>2
    <3> QED
      BY <2>1, <3>3 DEF RefundedIs
  <2>2. CASE RefundedIs(a, [RefundedSoFar(a) EXCEPT !.lost = @ + refunding[a].amount])
    <3>1. [RefundedSoFar(a) EXCEPT !.lost = @ + refunding[a].amount]
              \in [shop : Nat, braintree : 0..Amount, lost : Nat]
      BY <1>2, ConstantsAssumption
    <3> QED
      BY <2>2, <3>1 DEF RefundedIs
  <2> QED
    BY <2>1, <2>2 DEF RefundBreaks
<1>4. refunds' \in [Payments -> [shop : Nat, braintree : 0..Amount, lost : Nat]]
  BY <1>2, <1>3 DEF PaymentInv, TypeOK
<1>5. refunding' \in [Admins -> Refund]
  BY <1>1 DEF PaymentInv, TypeOK, Refund, NoRefund
<1> QED
  BY <1>1, <1>4, <1>5, ElsewhereStep DEF PaymentInv, TypeOK

(* A refund that is asked for or refused, and the requests for a token.    *)
LEMMA QuietStep ==
    ASSUME PaymentInv,
           \/ \E p \in Payments, a \in Admins : AskRefund(a, p)
           \/ \E a \in Admins : RefundRefused(a)
           \/ \E c \in Clients : AskToken(c) \/ DropReference(c)
    PROVE  PaymentInv'
<1>1. CASE \E p \in Payments, a \in Admins : AskRefund(a, p)
  <2>1. PICK p \in Payments, a \in Admins :
            /\ \E n \in 1..Amount - refunds[p].shop :
                   refunding' = [refunding EXCEPT ![a] =
                                     [pc |-> "ask", payment |-> p, amount |-> n]]
            /\ UNCHANGED <<shop, attempt, token, braintree, refunds, history>>
    BY <1>1 DEF AskRefund
  <2>2. 1..Amount - refunds[p].shop \subseteq 1..Amount
    BY ConstantsAssumption DEF PaymentInv, TypeOK
  <2>3. refunding' \in [Admins -> Refund]
    BY <2>1, <2>2 DEF PaymentInv, TypeOK, Refund
  <2> QED
    BY <2>1, <2>3, ElsewhereStep DEF history, PaymentInv, TypeOK
<1>2. CASE \E a \in Admins : RefundRefused(a)
  <2>1. PICK a \in Admins :
            /\ refunding' = [refunding EXCEPT ![a] = NoRefund]
            /\ UNCHANGED <<shop, attempt, token, braintree, refunds, history>>
    BY <1>2 DEF RefundRefused
  <2>2. refunding' \in [Admins -> Refund]
    BY <2>1 DEF PaymentInv, TypeOK, Refund
  <2> QED
    BY <2>1, <2>2, ElsewhereStep DEF history, PaymentInv, TypeOK
<1>3. CASE \E c \in Clients : AskToken(c) \/ DropReference(c)
  <2>1. PICK c \in Clients :
            /\ \E t \in {"idle", "dropping"} : token' = [token EXCEPT ![c] = t]
            /\ UNCHANGED <<shop, attempt, refunding, braintree, refunds, history>>
    BY <1>3 DEF AskToken, DropReference
  <2>2. token' \in [Clients -> {"idle", "dropping"}]
    BY <2>1 DEF PaymentInv, TypeOK
  <2> QED
    BY <2>1, <2>2, ElsewhereStep DEF history, PaymentInv, TypeOK
<1> QED
  BY <1>1, <1>2, <1>3

(* No id of the old environment is known in the new one. *)
LEMMA SwitchStep ==
    ASSUME PaymentInv, SwitchEnvironment
    PROVE  PaymentInv'
<1>1. /\ AtWork = {} /\ known' = {} /\ switched' = TRUE /\ faults' \in 0..MaxFaults
      /\ UNCHANGED <<reference, booked, attempt, token, refunding, made, charged, methods,
                     refunds, lost, overlapped>>
  BY FaultTyped DEF SwitchEnvironment, PaymentInv, TypeOK, shop
<1>2. AtWork' = {}
  BY <1>1 DEF AtWork
<1>3. TypeOK'
  BY <1>1, <1>2 DEF PaymentInv, TypeOK
<1>4. StagesAreTrue' /\ OverlapIsNoticed' /\ VaultIsTrue'
  BY <1>1, <1>2 DEF PaymentInv, StagesAreTrue, OverlapIsNoticed, VaultIsTrue
<1>5. ChargeIsRecorded' /\ StoredMethodsAreOffered'
  <2>1. \A m \in methods : m[2] \notin known'
    BY <1>1
  <2> QED
    BY <1>1, <2>1 DEF PaymentInv, ChargeIsRecorded, StoredMethodsAreOffered
<1> QED
  BY <1>3, <1>4, <1>5 DEF PaymentInv

-----------------------------------------------------------------------------
(* The steps of an attempt *)

(* An attempt, and what the attempt of p becomes, field by field. *)
At(pc, vault, wrote, outcome) ==
    [pc |-> pc, vault |-> vault, wrote |-> wrote, outcome |-> outcome]

Becomes(p, pc, vault, wrote, outcome) ==
    attempt' = [attempt EXCEPT ![p] = At(pc, vault, wrote, outcome)]

(* An attempt is the record of its four fields. *)
LEMMA Fields ==
    ASSUME TypeOK, NEW p \in Payments
    PROVE  attempt[p] =
               At(attempt[p].pc, attempt[p].vault, attempt[p].wrote, attempt[p].outcome)
BY DEF TypeOK, Attempt, At

(* What the record updates of the actions make of an attempt. *)
LEMMA Changed ==
    ASSUME TypeOK, NEW p \in Payments, NEW pc, NEW x
    PROVE  /\ [attempt[p] EXCEPT !.pc = pc] =
                  At(pc, attempt[p].vault, attempt[p].wrote, attempt[p].outcome)
           /\ [attempt[p] EXCEPT !.pc = pc, !.vault = x] =
                  At(pc, x, attempt[p].wrote, attempt[p].outcome)
           /\ [attempt[p] EXCEPT !.pc = pc, !.wrote = x] =
                  At(pc, attempt[p].vault, x, attempt[p].outcome)
<1> DEFINE b == attempt[p].pc  v == attempt[p].vault
           w == attempt[p].wrote  o == attempt[p].outcome
<1>1. attempt[p] = At(b, v, w, o)
  BY Fields
<1> HIDE DEF b, v, w, o
<1>2. [At(b, v, w, o) EXCEPT !.pc = pc] = At(pc, v, w, o)
  BY DEF At
<1>3. [At(b, v, w, o) EXCEPT !.pc = pc, !.vault = x] = At(pc, x, w, o)
  <2>1. [At(b, v, w, o) EXCEPT !.pc = pc, !.vault = x]
            = [[At(b, v, w, o) EXCEPT !.pc = pc] EXCEPT !.vault = x]
    OBVIOUS
  <2>2. [At(pc, v, w, o) EXCEPT !.vault = x] = At(pc, x, w, o)
    BY DEF At
  <2> QED
    BY <1>2, <2>1, <2>2, Zenon
<1>4. [At(b, v, w, o) EXCEPT !.pc = pc, !.wrote = x] = At(pc, v, x, o)
  <2>1. [At(b, v, w, o) EXCEPT !.pc = pc, !.wrote = x]
            = [[At(b, v, w, o) EXCEPT !.pc = pc] EXCEPT !.wrote = x]
    OBVIOUS
  <2>2. [At(pc, v, w, o) EXCEPT !.wrote = x] = At(pc, v, x, o)
    BY DEF At
  <2> QED
    BY <1>2, <2>1, <2>2, Zenon
<1> QED
  BY <1>1, <1>2, <1>3, <1>4, Zenon DEF b, v, w, o

(* The same for the outcome of a sale. *)
LEMMA ChangedOutcome ==
    ASSUME TypeOK, NEW p \in Payments, NEW pc, NEW x
    PROVE  [attempt[p] EXCEPT !.pc = pc, !.outcome = x] =
               At(pc, attempt[p].vault, attempt[p].wrote, x)
<1> DEFINE b == attempt[p].pc  v == attempt[p].vault
           w == attempt[p].wrote  o == attempt[p].outcome
<1>1. attempt[p] = At(b, v, w, o)
  BY Fields
<1> HIDE DEF b, v, w, o
<1>2. [At(b, v, w, o) EXCEPT !.pc = pc] = At(pc, v, w, o)
  BY DEF At
<1>3. [At(b, v, w, o) EXCEPT !.pc = pc, !.outcome = x] = At(pc, v, w, x)
  <2>1. [At(b, v, w, o) EXCEPT !.pc = pc, !.outcome = x]
            = [[At(b, v, w, o) EXCEPT !.pc = pc] EXCEPT !.outcome = x]
    OBVIOUS
  <2>2. [At(pc, v, w, o) EXCEPT !.outcome = x] = At(pc, v, w, x)
    BY DEF At
  <2> QED
    BY <1>2, <2>1, <2>2, Zenon
<1> QED
  BY <1>1, <1>3, Zenon DEF b, v, w, o

(* The attempts as they are after p became something else. *)
LEMMA AttemptsAfter ==
    ASSUME TypeOK, NEW p \in Payments,
           NEW pc \in {"idle", "create", "save", "sale", "book", "done"},
           NEW vault \in Records \cup {NoRecord}, NEW wrote \in BOOLEAN,
           NEW outcome \in {"none", "Settled", "Declined"},
           Becomes(p, pc, vault, wrote, outcome)
    PROVE  /\ attempt' \in [Payments -> Attempt]
           /\ attempt'[p].pc = pc /\ attempt'[p].vault = vault
           /\ attempt'[p].wrote = wrote /\ attempt'[p].outcome = outcome
           /\ \A q \in Payments \ {p} : attempt'[q] = attempt[q]
BY DEF TypeOK, Attempt, Becomes, At

(* A stored method is a charged payment with the record it is under. *)
LEMMA MethodsTyped ==
    ASSUME TypeOK, NEW m \in methods
    PROVE  /\ m[1] \in charged /\ m[2] \in made /\ m = <<m[1], m[2]>>
           /\ m[1] \in Payments /\ m[2] \in Records
<1>1. m \in charged \X made /\ charged \subseteq Payments /\ made \subseteq Records
  BY DEF TypeOK
<1> QED
  BY <1>1

(* A step with which an attempt that was at work does something that       *)
(* touches neither charges nor books nor the shop's id.                    *)
LEMMA MoveStep ==
    ASSUME PaymentInv, NEW p \in Payments,
           NEW pc \in {"save", "sale", "book"}, NEW vault \in Records \cup {NoRecord},
           NEW wrote \in BOOLEAN, NEW outcome \in {"none", "Settled", "Declined"},
           Becomes(p, pc, vault, wrote, outcome),
           UNCHANGED <<shop, token, refunding, charged, methods, refunds, lost,
                       overlapped, switched>>,
           known \subseteq known', made \subseteq made', known' \subseteq made',
           made' \subseteq Records, known' \cap made \subseteq known,
           faults' \in 0..MaxFaults,
           p \in AtWork, attempt[p].pc # "book",
           pc = "save" => vault \in made',
           wrote => pc \in {"sale", "book"} /\ vault \in made'
                    /\ (\A q \in AtWork \ {p} : ~attempt[q].wrote),
           outcome # "Settled", pc # "book" => outcome = "none",
           pc = "save" \/ wrote => Creating(p),
           pc # "save" /\ ~wrote /\ vault # NoRecord =>
               ~Creating(p) /\ vault = attempt[p].vault
    PROVE  PaymentInv'
<1>1. /\ attempt' \in [Payments -> Attempt]
      /\ attempt'[p].pc = pc /\ attempt'[p].vault = vault
      /\ attempt'[p].wrote = wrote /\ attempt'[p].outcome = outcome
      /\ \A q \in Payments \ {p} : attempt'[q] = attempt[q]
  BY AttemptsAfter DEF PaymentInv
<1>2. UNCHANGED <<reference, booked>>
  BY DEF shop
<1>3. AtWork' = AtWork
  BY <1>1 DEF AtWork
<1>4. p \notin charged /\ booked[p] = "none"
      /\ \A m \in methods : m[1] \in charged /\ m[2] \in made /\ m[1] # p
  <2>1. attempt[p].pc \in {"create", "save", "sale"}
    BY DEF PaymentInv, TypeOK, Attempt, AtWork
  <2>2. p \notin charged /\ booked[p] = "none"
    BY <2>1 DEF PaymentInv, StagesAreTrue
  <2>3. \A m \in methods : m[1] \in charged /\ m[2] \in made
    BY MethodsTyped DEF PaymentInv
  <2> QED
    BY <2>2, <2>3
<1>5. TypeOK'
  <2>1. \A q \in AtWork : attempt'[q].wrote => attempt'[q].vault \in made'
    BY <1>1 DEF PaymentInv, TypeOK, AtWork
  <2>2. \A q, r \in AtWork : attempt'[q].wrote /\ attempt'[r].wrote => q = r
    BY <1>1 DEF PaymentInv, TypeOK, AtWork
  <2>3. methods' \subseteq charged' \X made'
    BY MethodsTyped DEF PaymentInv, TypeOK
  <2> QED
    BY <1>1, <1>2, <1>3, <2>1, <2>2, <2>3 DEF PaymentInv, TypeOK
<1>6. StagesAreTrue'
  <2> SUFFICES ASSUME NEW q \in Payments
               PROVE  /\ attempt'[q].pc # "done" => booked[q] = "none"
                      /\ attempt'[q].pc \in {"idle", "create", "save", "sale"} => q \notin charged
                      /\ attempt'[q].pc = "book" /\ attempt'[q].outcome = "Settled" => q \in charged
                      /\ attempt'[q].pc # "book" => attempt'[q].outcome = "none"
                      /\ attempt'[q].pc = "create" => attempt'[q].vault = NoRecord
                      /\ attempt'[q].pc = "save" => attempt'[q].vault \in made'
                      /\ attempt'[q].wrote => attempt'[q].pc \in {"sale", "book"}
    BY <1>2 DEF StagesAreTrue
  <2>1. CASE q = p
    BY <1>1, <1>4, <2>1
  <2>2. CASE q # p
    BY <1>1, <2>2 DEF PaymentInv, StagesAreTrue
  <2> QED
    BY <2>1, <2>2
<1>7. OverlapIsNoticed'
  BY <1>3 DEF PaymentInv, OverlapIsNoticed
<1>8. VaultIsTrue'
  <2>1. \A m \in methods : Adrift(m) => Adrift(m)'
    BY <1>4 DEF Adrift
  <2>2. ASSUME NEW q \in AtWork, Creating(q)', NEW m \in methods
        PROVE  m[1] = q \/ Adrift(m)'
    <3>1. Creating(q)
      BY <1>1, <2>2 DEF Creating, AtWork
    <3> QED
      BY <2>1, <3>1 DEF PaymentInv, VaultIsTrue
  <2>3. ASSUME NEW q \in AtWork, ~Creating(q)', attempt'[q].vault # NoRecord
        PROVE  attempt'[q].vault = reference \/ q \in overlapped
    <3>1. ~Creating(q) /\ attempt'[q].vault = attempt[q].vault
      BY <1>1, <2>3 DEF Creating, AtWork
    <3> QED
      BY <2>3, <3>1 DEF PaymentInv, VaultIsTrue
  <2>4. \A m \in methods : attempt'[m[1]].pc = "book" => m[2] = attempt'[m[1]].vault
    BY <1>1, <1>4 DEF PaymentInv, VaultIsTrue, TypeOK
  <2> QED
    BY <1>2, <1>3, <2>2, <2>3, <2>4 DEF VaultIsTrue
<1>9. ChargeIsRecorded'
  BY <1>1, <1>2 DEF PaymentInv, ChargeIsRecorded, StagesAreTrue, TypeOK, AtWork
<1>10. StoredMethodsAreOffered'
  BY <1>1, <1>2, <1>4 DEF PaymentInv, StoredMethodsAreOffered, TypeOK
<1> QED
  BY <1>5, <1>6, <1>7, <1>8, <1>9, <1>10 DEF PaymentInv

(* A new record is nobody's yet, and its attempt found no id. *)
LEMMA CreateRecordStep ==
    ASSUME PaymentInv, NEW p \in Payments, CreateRecord(p)
    PROVE  PaymentInv'
<1>1. PICK r \in Records \ made :
          /\ made' = made \cup {r} /\ known' = known \cup {r}
          /\ attempt' = [attempt EXCEPT ![p] = [attempt[p] EXCEPT !.pc = "save", !.vault = r]]
  BY DEF CreateRecord, Become
<1>2. /\ attempt[p].pc = "create"
      /\ UNCHANGED <<shop, token, refunding, charged, methods, refunds, history>>
  BY DEF CreateRecord
<1>3. attempt[p].wrote = FALSE /\ attempt[p].outcome = "none" /\ p \in AtWork
  BY <1>2 DEF PaymentInv, TypeOK, Attempt, StagesAreTrue, AtWork
<1>4. Becomes(p, "save", r, FALSE, "none")
  <2>1. [attempt[p] EXCEPT !.pc = "save", !.vault = r] =
            At("save", r, attempt[p].wrote, attempt[p].outcome)
    BY Changed, Zenon DEF PaymentInv
  <2>2. attempt' = [attempt EXCEPT ![p] =
            At("save", r, attempt[p].wrote, attempt[p].outcome)]
    BY <1>1, <2>1, Zenon
  <2> QED
    BY <1>1, <1>3, <2>2 DEF Becomes
<1>5. /\ made' \subseteq Records /\ known' \subseteq made' /\ known' \cap made \subseteq known
      /\ faults' \in 0..MaxFaults
  BY <1>1, <1>2 DEF PaymentInv, TypeOK, history
<1>6. Creating(p)
  BY <1>2 DEF Creating
<1> QED
  BY <1>1, <1>2, <1>3, <1>4, <1>5, <1>6, MoveStep DEF history

(* A record whose answer is lost is made, but no attempt has it. *)
LEMMA CreateRecordFailsStep ==
    ASSUME PaymentInv, NEW p \in Payments, CreateRecordFails(p)
    PROVE  PaymentInv'
<1>1. /\ attempt' = [attempt EXCEPT ![p] = [attempt[p] EXCEPT !.pc = "sale"]]
      /\ attempt[p].pc = "create"
      /\ UNCHANGED <<shop, token, refunding, charged, methods, refunds, history>>
  BY DEF CreateRecordFails, Become
<1>2. /\ attempt[p].wrote = FALSE /\ attempt[p].outcome = "none" /\ p \in AtWork
      /\ attempt[p].vault = NoRecord
  BY <1>1 DEF PaymentInv, TypeOK, Attempt, StagesAreTrue, AtWork
<1>3. Becomes(p, "sale", NoRecord, FALSE, "none")
  BY <1>1, <1>2, Changed DEF PaymentInv, Becomes
<1>4. /\ made \subseteq made' /\ known \subseteq known'
      /\ made' \subseteq Records /\ known' \subseteq made' /\ known' \cap made \subseteq known
  BY DEF CreateRecordFails, PaymentInv, TypeOK
<1>5. faults' \in 0..MaxFaults
  BY <1>1 DEF PaymentInv, TypeOK, history
<1> QED
  BY <1>1, <1>2, <1>3, <1>4, <1>5, MoveStep DEF history

(* The lock of the customer's row: no other transaction has saved it.      *)
LEMMA SaveCustomerStep ==
    ASSUME PaymentInv, NEW p \in Payments, SaveCustomer(p)
    PROVE  PaymentInv'
<1>1. /\ attempt' = [attempt EXCEPT ![p] = [attempt[p] EXCEPT !.pc = "sale", !.wrote = TRUE]]
      /\ attempt[p].pc = "save" /\ \A q \in AtWork : ~attempt[q].wrote
      /\ UNCHANGED <<shop, token, refunding, braintree, refunds, history>>
  BY DEF SaveCustomer, Become
<1> DEFINE vault == attempt[p].vault
<1>2. attempt[p].outcome = "none" /\ p \in AtWork /\ vault \in made
  BY <1>1 DEF PaymentInv, TypeOK, Attempt, StagesAreTrue, AtWork
<1>3. Becomes(p, "sale", vault, TRUE, "none")
  <2>1. [attempt[p] EXCEPT !.pc = "sale", !.wrote = TRUE] =
            At("sale", attempt[p].vault, TRUE, attempt[p].outcome)
    BY Changed, Zenon DEF PaymentInv
  <2>2. attempt' = [attempt EXCEPT ![p] =
            At("sale", attempt[p].vault, TRUE, attempt[p].outcome)]
    BY <1>1, <2>1, Zenon
  <2> QED
    BY <1>1, <1>2, <2>2 DEF Becomes
<1>4. Creating(p)
  BY <1>1 DEF Creating
<1>5. faults' \in 0..MaxFaults /\ vault \in Records /\ known \subseteq made /\ made \subseteq Records
  BY <1>1, <1>2 DEF PaymentInv, TypeOK, history
<1> HIDE DEF vault
<1> QED
  BY <1>1, <1>2, <1>3, <1>4, <1>5, MoveStep DEF history, braintree

(* An attempt whose save failed goes on without an id. *)
LEMMA SaveFailsStep ==
    ASSUME PaymentInv, NEW p \in Payments, SaveFails(p)
    PROVE  PaymentInv'
<1>1. /\ attempt' = [attempt EXCEPT ![p] = [attempt[p] EXCEPT !.pc = "sale", !.vault = NoRecord]]
      /\ attempt[p].pc = "save" /\ faults' \in 0..MaxFaults
      /\ UNCHANGED <<shop, token, refunding, braintree, refunds, lost, overlapped, switched>>
  BY FaultTyped DEF SaveFails, Become, PaymentInv, TypeOK
<1>2. attempt[p].wrote = FALSE /\ attempt[p].outcome = "none" /\ p \in AtWork
  BY <1>1 DEF PaymentInv, TypeOK, Attempt, StagesAreTrue, AtWork
<1>3. Becomes(p, "sale", NoRecord, FALSE, "none")
  <2>1. [attempt[p] EXCEPT !.pc = "sale", !.vault = NoRecord] =
            At("sale", NoRecord, attempt[p].wrote, attempt[p].outcome)
    BY Changed, Zenon DEF PaymentInv
  <2>2. attempt' = [attempt EXCEPT ![p] =
            At("sale", NoRecord, attempt[p].wrote, attempt[p].outcome)]
    BY <1>1, <2>1, Zenon
  <2> QED
    BY <1>1, <1>2, <2>2 DEF Becomes
<1>4. known \subseteq made /\ made \subseteq Records
  BY DEF PaymentInv, TypeOK
<1> QED
  BY <1>1, <1>2, <1>3, <1>4, MoveStep DEF braintree

(* A declined sale charges nothing. *)
LEMMA SaleDeclinedStep ==
    ASSUME PaymentInv, NEW p \in Payments, SaleDeclined(p)
    PROVE  PaymentInv'
<1> DEFINE vault == attempt[p].vault
           wrote == attempt[p].wrote
<1>1. /\ attempt' = [attempt EXCEPT ![p] =
                         [attempt[p] EXCEPT !.pc = "book", !.outcome = "Declined"]]
      /\ attempt[p].pc = "sale"
      /\ UNCHANGED <<shop, token, refunding, braintree, refunds, history>>
  BY DEF SaleDeclined, Become
<1>2. /\ p \in AtWork /\ vault \in Records \cup {NoRecord} /\ wrote \in BOOLEAN
      /\ wrote => vault \in made /\ (\A q \in AtWork \ {p} : ~attempt[q].wrote)
  BY <1>1 DEF PaymentInv, TypeOK, Attempt, AtWork
<1>3. Becomes(p, "book", vault, wrote, "Declined")
  <2>1. [attempt[p] EXCEPT !.pc = "book", !.outcome = "Declined"] =
            At("book", attempt[p].vault, attempt[p].wrote, "Declined")
    BY ChangedOutcome, Zenon DEF PaymentInv
  <2>2. attempt' = [attempt EXCEPT ![p] =
            At("book", attempt[p].vault, attempt[p].wrote, "Declined")]
    BY <1>1, <2>1, Zenon
  <2> QED
    BY <1>1, <2>2 DEF Becomes
<1>4. Creating(p) <=> wrote
  BY <1>1 DEF Creating
<1>5. faults' \in 0..MaxFaults /\ known \subseteq made /\ made \subseteq Records
  BY <1>1 DEF PaymentInv, TypeOK, history
<1>6. vault = attempt[p].vault
  OBVIOUS
<1> HIDE DEF vault, wrote
<1> QED
  BY <1>1, <1>2, <1>3, <1>4, <1>5, <1>6, MoveStep DEF history, braintree

(* An attempt that starts finds no method worth keeping when it finds no   *)
(* id, and overlaps with every attempt at work.                            *)
LEMMA StartPaymentStep ==
    ASSUME PaymentInv, NEW p \in Payments, StartPayment(p)
    PROVE  PaymentInv'
<1>1. PICK pc \in {"create", "sale"}, vault \in {reference, NoRecord} :
          /\ Becomes(p, pc, vault, FALSE, "none")
          /\ pc = "create" => reference = NoRecord /\ vault = NoRecord
  <2>1. PICK vaulted \in {FALSE, StoreCustomers} :
            attempt' = [attempt EXCEPT ![p] =
                [Idle EXCEPT !.pc = IF vaulted /\ reference = NoRecord THEN "create" ELSE "sale",
                             !.vault = IF vaulted THEN reference ELSE NoRecord]]
    BY DEF StartPayment, Become
  <2>2. \A pc, vault : [Idle EXCEPT !.pc = pc, !.vault = vault] = At(pc, vault, FALSE, "none")
    <3> TAKE pc, vault
    <3>1. [Idle EXCEPT !.pc = pc, !.vault = vault] = [[Idle EXCEPT !.pc = pc] EXCEPT !.vault = vault]
      OBVIOUS
    <3>2. \A v, w, o : [At("idle", v, w, o) EXCEPT !.pc = pc] = At(pc, v, w, o)
      BY DEF At
    <3>3. Idle = At("idle", NoRecord, FALSE, "none")
      BY DEF Idle, At
    <3>4. [Idle EXCEPT !.pc = pc] = At(pc, NoRecord, FALSE, "none")
      BY <3>2, <3>3, Zenon
    <3>5. [At(pc, NoRecord, FALSE, "none") EXCEPT !.vault = vault] = At(pc, vault, FALSE, "none")
      <4> DEFINE v == NoRecord  w == FALSE  o == "none"
      <4> HIDE DEF v, w, o
      <4>1. [At(pc, v, w, o) EXCEPT !.vault = vault] = At(pc, vault, w, o)
        BY DEF At
      <4> QED
        BY <4>1, Zenon DEF v, w, o
    <3> QED
      BY <3>1, <3>4, <3>5, Zenon
  <2> DEFINE pc == IF vaulted /\ reference = NoRecord THEN "create" ELSE "sale"
             vault == IF vaulted THEN reference ELSE NoRecord
  <2>3. Becomes(p, pc, vault, FALSE, "none")
    BY <2>1, <2>2, Zenon DEF Becomes
  <2>4. /\ pc \in {"create", "sale"} /\ vault \in {reference, NoRecord}
        /\ pc = "create" => reference = NoRecord /\ vault = NoRecord
    OBVIOUS
  <2> HIDE DEF pc, vault
  <2> QED
    BY <2>3, <2>4
<1>2. /\ attempt[p].pc = "idle"
      /\ overlapped' = IF AtWork = {} THEN overlapped ELSE overlapped \cup AtWork \cup {p}
      /\ UNCHANGED <<reference, booked, token, refunding, known, made, charged, methods,
                     refunds, lost, switched, faults>>
  BY DEF StartPayment, Starts, shop, braintree
<1>3. /\ attempt' \in [Payments -> Attempt]
      /\ attempt'[p].pc = pc /\ attempt'[p].vault = vault
      /\ attempt'[p].wrote = FALSE /\ attempt'[p].outcome = "none"
      /\ \A q \in Payments \ {p} : attempt'[q] = attempt[q]
  <2>1. /\ pc \in {"idle", "create", "save", "sale", "book", "done"}
        /\ vault \in Records \cup {NoRecord}
    BY <1>1 DEF PaymentInv, TypeOK
  <2> DEFINE wrote == FALSE  outcome == "none"
  <2>2. Becomes(p, pc, vault, wrote, outcome) /\ wrote \in BOOLEAN
        /\ outcome \in {"none", "Settled", "Declined"}
    BY <1>1
  <2> HIDE DEF wrote, outcome
  <2>3. /\ attempt' \in [Payments -> Attempt]
        /\ attempt'[p].pc = pc /\ attempt'[p].vault = vault
        /\ attempt'[p].wrote = wrote /\ attempt'[p].outcome = outcome
        /\ \A q \in Payments \ {p} : attempt'[q] = attempt[q]
    BY <2>1, <2>2, AttemptsAfter DEF PaymentInv
  <2> QED
    BY <2>3 DEF wrote, outcome
<1>4. AtWork' = AtWork \cup {p} /\ p \notin AtWork
  BY <1>1, <1>2, <1>3 DEF AtWork
<1>5. p \notin charged /\ booked[p] = "none" /\ \A m \in methods : m[1] # p
  BY <1>2, MethodsTyped DEF PaymentInv, StagesAreTrue
<1>6. TypeOK'
  <2>1. \A q \in AtWork' : attempt'[q].wrote => attempt'[q].vault \in made
    BY <1>3, <1>4 DEF PaymentInv, TypeOK, AtWork
  <2>2. \A q, r \in AtWork' : attempt'[q].wrote /\ attempt'[r].wrote => q = r
    BY <1>3, <1>4 DEF PaymentInv, TypeOK, AtWork
  <2>3. overlapped' \subseteq Payments
    BY <1>2 DEF PaymentInv, TypeOK, AtWork
  <2> QED
    BY <1>2, <1>3, <2>1, <2>2, <2>3 DEF PaymentInv, TypeOK
<1>7. StagesAreTrue'
  <2> SUFFICES ASSUME NEW q \in Payments
               PROVE  /\ attempt'[q].pc # "done" => booked[q] = "none"
                      /\ attempt'[q].pc \in {"idle", "create", "save", "sale"} => q \notin charged
                      /\ attempt'[q].pc = "book" /\ attempt'[q].outcome = "Settled" => q \in charged
                      /\ attempt'[q].pc # "book" => attempt'[q].outcome = "none"
                      /\ attempt'[q].pc = "create" => attempt'[q].vault = NoRecord
                      /\ attempt'[q].pc = "save" => attempt'[q].vault \in made
                      /\ attempt'[q].wrote => attempt'[q].pc \in {"sale", "book"}
    BY <1>2 DEF StagesAreTrue
  <2>1. CASE q = p
    BY <1>1, <1>3, <1>5, <2>1
  <2>2. CASE q # p
    BY <1>3, <2>2 DEF PaymentInv, StagesAreTrue
  <2> QED
    BY <2>1, <2>2
<1>8. OverlapIsNoticed'
  BY <1>2, <1>4 DEF PaymentInv, OverlapIsNoticed
<1>9. VaultIsTrue'
  <2>1. \A m \in methods : Adrift(m) => Adrift(m)'
    BY <1>2 DEF Adrift
  <2>2. ASSUME NEW q \in AtWork', Creating(q)', NEW m \in methods
        PROVE  m[1] = q \/ Adrift(m)'
    <3>1. CASE q = p
      <4>1. reference = NoRecord
        BY <1>1, <1>3, <2>2, <3>1 DEF Creating
      <4>2. m[2] # reference
        BY <4>1, MethodsTyped, ConstantsAssumption DEF PaymentInv
      <4>3. CASE attempt[m[1]].pc = "book"
        <5>1. m[1] \in AtWork
          BY <4>3, MethodsTyped DEF PaymentInv, AtWork
        <5> QED
          BY <1>2, <5>1 DEF Adrift
      <4> QED
        BY <2>1, <4>2, <4>3 DEF PaymentInv, StoredMethodsAreOffered, Adrift
    <3>2. CASE q # p
      <4>1. q \in AtWork /\ Creating(q)
        BY <1>3, <1>4, <2>2, <3>2 DEF Creating, AtWork
      <4> QED
        BY <2>1, <4>1 DEF PaymentInv, VaultIsTrue
    <3> QED
      BY <3>1, <3>2
  <2>3. ASSUME NEW q \in AtWork', ~Creating(q)', attempt'[q].vault # NoRecord
        PROVE  attempt'[q].vault = reference \/ q \in overlapped'
    <3>1. CASE q = p
      BY <1>1, <1>3, <2>3, <3>1
    <3>2. CASE q # p
      <4>1. q \in AtWork /\ ~Creating(q) /\ attempt'[q] = attempt[q]
        BY <1>3, <1>4, <2>3, <3>2 DEF Creating, AtWork
      <4> QED
        BY <1>2, <2>3, <4>1 DEF PaymentInv, VaultIsTrue
    <3> QED
      BY <3>1, <3>2
  <2>4. \A m \in methods : attempt'[m[1]].pc = "book" => m[2] = attempt'[m[1]].vault
    BY <1>3, <1>5, MethodsTyped DEF PaymentInv, VaultIsTrue
  <2> QED
    BY <1>2, <2>2, <2>3, <2>4 DEF VaultIsTrue
<1>10. ChargeIsRecorded'
  BY <1>2, <1>3, <1>5 DEF PaymentInv, ChargeIsRecorded, TypeOK
<1>11. StoredMethodsAreOffered'
  BY <1>2, <1>3, <1>5, MethodsTyped DEF PaymentInv, StoredMethodsAreOffered
<1> QED
  BY <1>6, <1>7, <1>8, <1>9, <1>10, <1>11 DEF PaymentInv

(* What the sale stores goes under the id the attempt has in hand.         *)
LEMMA SaleStep ==
    ASSUME PaymentInv, NEW p \in Payments, Sale(p)
    PROVE  PaymentInv'
<1> DEFINE vault == attempt[p].vault
           wrote == attempt[p].wrote
<1>1. /\ attempt[p].pc = "sale"
      /\ attempt' = [attempt EXCEPT ![p] =
                         [attempt[p] EXCEPT !.pc = "book", !.outcome = "Settled"]]
      /\ charged' = charged \cup {p}
      /\ methods' = methods \cup ({<<p, vault>>} \cap ({p} \X known))
      /\ UNCHANGED <<reference, booked, token, refunding, known, made, refunds, lost,
                     overlapped, switched, faults>>
  BY DEF Sale, Become, Charges, shop, history
<1>2. Becomes(p, "book", vault, wrote, "Settled")
  <2>1. [attempt[p] EXCEPT !.pc = "book", !.outcome = "Settled"] =
            At("book", attempt[p].vault, attempt[p].wrote, "Settled")
    BY ChangedOutcome, Zenon DEF PaymentInv
  <2>2. attempt' = [attempt EXCEPT ![p] =
            At("book", attempt[p].vault, attempt[p].wrote, "Settled")]
    BY <1>1, <2>1, Zenon
  <2> QED
    BY <2>2 DEF Becomes
<1>3. vault \in Records \cup {NoRecord} /\ wrote \in BOOLEAN /\ p \in AtWork
  BY <1>1 DEF PaymentInv, TypeOK, Attempt, AtWork
<1>4. Creating(p) <=> wrote
  BY <1>1 DEF Creating
<1>5. vault = attempt[p].vault /\ wrote = attempt[p].wrote
  OBVIOUS
<1> HIDE DEF vault, wrote
<1>6. /\ attempt' \in [Payments -> Attempt]
      /\ attempt'[p].pc = "book" /\ attempt'[p].vault = vault
      /\ attempt'[p].wrote = wrote /\ attempt'[p].outcome = "Settled"
      /\ \A q \in Payments \ {p} : attempt'[q] = attempt[q]
  BY <1>2, <1>3, AttemptsAfter DEF PaymentInv
<1>7. AtWork' = AtWork
  BY <1>3, <1>6 DEF AtWork
<1>8. p \notin charged /\ booked[p] = "none" /\ \A m \in methods : m[1] # p
  BY <1>1, MethodsTyped DEF PaymentInv, StagesAreTrue
<1>9. \A m \in methods' \ methods : m[1] = p /\ m[2] = vault /\ vault \in known
  BY <1>1
<1>10. TypeOK'
  <2>1. \A q \in AtWork : attempt'[q].wrote => attempt'[q].vault \in made
    BY <1>5, <1>6 DEF PaymentInv, TypeOK, AtWork
  <2>2. \A q, r \in AtWork : attempt'[q].wrote /\ attempt'[r].wrote => q = r
    BY <1>5, <1>6 DEF PaymentInv, TypeOK, AtWork
  <2>3. methods' \subseteq charged' \X made
    BY <1>1 DEF PaymentInv, TypeOK
  <2>4. lost \subseteq charged' /\ charged' \subseteq Payments
    BY <1>1 DEF PaymentInv, TypeOK
  <2> QED
    BY <1>1, <1>6, <1>7, <2>1, <2>2, <2>3, <2>4 DEF PaymentInv, TypeOK
<1>11. StagesAreTrue'
  <2> SUFFICES ASSUME NEW q \in Payments
               PROVE  /\ attempt'[q].pc # "done" => booked[q] = "none"
                      /\ attempt'[q].pc \in {"idle", "create", "save", "sale"} => q \notin charged'
                      /\ attempt'[q].pc = "book" /\ attempt'[q].outcome = "Settled" => q \in charged'
                      /\ attempt'[q].pc # "book" => attempt'[q].outcome = "none"
                      /\ attempt'[q].pc = "create" => attempt'[q].vault = NoRecord
                      /\ attempt'[q].pc = "save" => attempt'[q].vault \in made
                      /\ attempt'[q].wrote => attempt'[q].pc \in {"sale", "book"}
    BY <1>1 DEF StagesAreTrue
  <2>1. CASE q = p
    BY <1>1, <1>6, <1>8, <2>1
  <2>2. CASE q # p
    BY <1>1, <1>6, <2>2 DEF PaymentInv, StagesAreTrue
  <2> QED
    BY <2>1, <2>2
<1>12. OverlapIsNoticed'
  BY <1>1, <1>7 DEF PaymentInv, OverlapIsNoticed
<1>13. VaultIsTrue'
  <2>1. \A m : Adrift(m) => Adrift(m)'
    BY <1>1 DEF Adrift
  <2>2. ASSUME NEW q \in AtWork, Creating(q)', NEW m \in methods'
        PROVE  m[1] = q \/ Adrift(m)'
    <3>1. Creating(q)
      BY <1>4, <1>6, <2>2 DEF Creating, AtWork
    <3>2. CASE m \in methods
      BY <2>1, <3>1, <3>2 DEF PaymentInv, VaultIsTrue
    <3>3. CASE m \notin methods
      BY <1>1, <1>3, <1>9, <2>2, <3>3 DEF PaymentInv, OverlapIsNoticed, Adrift
    <3> QED
      BY <3>2, <3>3
  <2>3. ASSUME NEW q \in AtWork, ~Creating(q)', attempt'[q].vault # NoRecord
        PROVE  attempt'[q].vault = reference \/ q \in overlapped
    <3>1. ~Creating(q) /\ attempt'[q].vault = attempt[q].vault
      BY <1>4, <1>5, <1>6, <2>3 DEF Creating, AtWork
    <3> QED
      BY <2>3, <3>1 DEF PaymentInv, VaultIsTrue
  <2>4. ASSUME NEW m \in methods', attempt'[m[1]].pc = "book"
        PROVE  m[2] = attempt'[m[1]].vault
    <3>1. CASE m \in methods
      BY <1>6, <1>8, <2>4, <3>1, MethodsTyped DEF PaymentInv, VaultIsTrue
    <3>2. CASE m \notin methods
      BY <1>6, <1>9, <2>4, <3>2
    <3> QED
      BY <3>1, <3>2
  <2> QED
    BY <1>1, <1>7, <2>2, <2>3, <2>4 DEF VaultIsTrue
<1>14. ChargeIsRecorded'
  BY <1>1, <1>6, <1>8 DEF PaymentInv, ChargeIsRecorded, TypeOK
<1>15. StoredMethodsAreOffered'
  <2> SUFFICES ASSUME NEW m \in methods'
               PROVE  \/ m[2] = reference \/ m[1] \in overlapped \/ m[1] \in lost \/ m[2] \notin known
                      \/ attempt'[m[1]].pc = "book" /\ attempt'[m[1]].wrote
    BY <1>1 DEF StoredMethodsAreOffered
  <2>1. CASE m \in methods
    BY <1>6, <1>8, <2>1, MethodsTyped DEF PaymentInv, StoredMethodsAreOffered
  <2>2. CASE m \notin methods
    <3>1. m[1] = p /\ m[2] = vault /\ vault # NoRecord
      BY <1>9, <2>2, ConstantsAssumption DEF PaymentInv, TypeOK
    <3> QED
      BY <1>3, <1>4, <1>5, <1>6, <3>1 DEF PaymentInv, VaultIsTrue
  <2> QED
    BY <2>1, <2>2
<1> QED
  BY <1>10, <1>11, <1>12, <1>13, <1>14, <1>15 DEF PaymentInv

(* An attempt that ends.  The money it took is booked or lost; what it     *)
(* stored is lost with it, or under the id the shop has from now on.       *)
EndsWith(p, o) ==
    /\ Becomes(p, "done", NoRecord, FALSE, "none")
    /\ attempt[p].pc # "done"
    /\ booked' = [booked EXCEPT ![p] = o]
    /\ reference' \in {reference} \cup
           (IF attempt[p].pc = "book" /\ attempt[p].wrote THEN {attempt[p].vault} ELSE {})
    /\ attempt[p].pc = "book" /\ attempt[p].wrote =>
           reference' = attempt[p].vault \/ {p} \cap charged \subseteq lost'
    /\ charged \subseteq charged' /\ charged' \subseteq charged \cup {p}
    /\ lost \subseteq lost' /\ lost' \subseteq lost \cup ({p} \cap charged')
    /\ {p} \cap charged' \subseteq lost' \/ o = "Settled"
    /\ methods \subseteq methods'
    /\ \A m \in methods' \ methods : m \in charged' \X known /\ m[1] = p /\ p \in lost'
    /\ UNCHANGED <<token, refunding, known, made, refunds, overlapped, switched>>
    /\ faults' \in 0..MaxFaults

(* Any end of an attempt that books nothing or its own outcome is harmless. *)
LEMMA EndStep ==
    ASSUME PaymentInv, NEW p \in Payments,
           NEW o \in {"none", "Settled", "Declined", "Error"}, EndsWith(p, o)
    PROVE  PaymentInv'
<1>1. /\ attempt' \in [Payments -> Attempt]
      /\ attempt'[p].pc = "done" /\ attempt'[p].vault = NoRecord
      /\ ~attempt'[p].wrote /\ attempt'[p].outcome = "none"
      /\ \A q \in Payments \ {p} : attempt'[q] = attempt[q]
  <2> DEFINE wrote == FALSE  pc == "done"  outcome == "none"
  <2>1. Becomes(p, pc, NoRecord, wrote, outcome) /\ wrote \in BOOLEAN
        /\ pc \in {"idle", "create", "save", "sale", "book", "done"}
        /\ outcome \in {"none", "Settled", "Declined"} /\ ~wrote
    BY DEF EndsWith
  <2> HIDE DEF wrote, pc, outcome
  <2>2. /\ attempt' \in [Payments -> Attempt]
        /\ attempt'[p].pc = pc /\ attempt'[p].vault = NoRecord
        /\ attempt'[p].wrote = wrote /\ attempt'[p].outcome = outcome
        /\ \A q \in Payments \ {p} : attempt'[q] = attempt[q]
    BY <2>1, AttemptsAfter DEF PaymentInv
  <2> QED
    BY <2>1, <2>2 DEF pc, outcome
<1>2. AtWork' = AtWork \ {p}
  BY <1>1 DEF AtWork
<1>3. booked[p] = "none" /\ booked'[p] = o /\ \A q \in Payments \ {p} : booked'[q] = booked[q]
  BY DEF PaymentInv, TypeOK, StagesAreTrue, EndsWith
<1>4. attempt[p].pc = "book" => p \in AtWork
  BY DEF AtWork
<1>5. TypeOK'
  <2>1. reference' \in Records \cup {NoRecord}
    BY DEF EndsWith, PaymentInv, TypeOK, Attempt
  <2>2. booked' \in [Payments -> {"none", "Settled", "Declined", "Error"}]
    BY DEF EndsWith, PaymentInv, TypeOK
  <2>3. lost' \subseteq charged' /\ charged' \subseteq Payments
    BY DEF EndsWith, PaymentInv, TypeOK
  <2>4. methods' \subseteq charged' \X made
    BY DEF EndsWith, PaymentInv, TypeOK
  <2>5. \A q \in AtWork' : attempt'[q].wrote => attempt'[q].vault \in made
    BY <1>1, <1>2 DEF PaymentInv, TypeOK, AtWork
  <2>6. \A q, r \in AtWork' : attempt'[q].wrote /\ attempt'[r].wrote => q = r
    BY <1>1, <1>2 DEF PaymentInv, TypeOK, AtWork
  <2> QED
    BY <1>1, <2>1, <2>2, <2>3, <2>4, <2>5, <2>6 DEF EndsWith, PaymentInv, TypeOK
<1>6. StagesAreTrue'
  <2> SUFFICES ASSUME NEW q \in Payments
               PROVE  /\ attempt'[q].pc # "done" => booked'[q] = "none"
                      /\ attempt'[q].pc \in {"idle", "create", "save", "sale"} => q \notin charged'
                      /\ attempt'[q].pc = "book" /\ attempt'[q].outcome = "Settled" => q \in charged'
                      /\ attempt'[q].pc # "book" => attempt'[q].outcome = "none"
                      /\ attempt'[q].pc = "create" => attempt'[q].vault = NoRecord
                      /\ attempt'[q].pc = "save" => attempt'[q].vault \in made'
                      /\ attempt'[q].wrote => attempt'[q].pc \in {"sale", "book"}
    BY DEF StagesAreTrue
  <2>1. CASE q = p
    BY <1>1, <2>1
  <2>2. CASE q # p
    BY <1>1, <1>3, <2>2 DEF PaymentInv, StagesAreTrue, EndsWith
  <2> QED
    BY <2>1, <2>2
<1>7. OverlapIsNoticed'
  BY <1>2 DEF PaymentInv, OverlapIsNoticed, EndsWith
<1>8. \A m : Adrift(m) => Adrift(m)'
  BY DEF Adrift, EndsWith
<1>9. \A m \in methods' \ methods : m[1] = p /\ Adrift(m)'
  BY DEF Adrift, EndsWith
<1>10. VaultIsTrue'
  <2>1. ASSUME NEW q \in AtWork', Creating(q)', NEW m \in methods'
        PROVE  m[1] = q \/ Adrift(m)'
    <3>1. q \in AtWork /\ Creating(q)
      BY <1>1, <1>2, <2>1 DEF Creating, AtWork
    <3>2. CASE m \in methods
      BY <1>8, <3>1, <3>2 DEF PaymentInv, VaultIsTrue
    <3> QED
      BY <1>9, <3>2
  <2>2. ASSUME NEW q \in AtWork', ~Creating(q)', attempt'[q].vault # NoRecord
        PROVE  attempt'[q].vault = reference' \/ q \in overlapped'
    <3>1. q \in AtWork /\ q # p /\ ~Creating(q) /\ attempt'[q] = attempt[q]
      BY <1>1, <1>2, <2>2 DEF Creating, AtWork
    <3>2. CASE reference' = reference
      BY <2>2, <3>1, <3>2 DEF PaymentInv, VaultIsTrue, EndsWith
    <3>3. CASE reference' # reference
      <4>1. p \in AtWork
        BY <1>4, <3>3 DEF EndsWith
      <4> QED
        BY <3>1, <4>1 DEF PaymentInv, OverlapIsNoticed, EndsWith
    <3> QED
      BY <3>2, <3>3
  <2>3. ASSUME NEW m \in methods', attempt'[m[1]].pc = "book"
        PROVE  m[2] = attempt'[m[1]].vault
    <3>1. m \in methods /\ m[1] # p
      BY <1>1, <1>9, <2>3
    <3> QED
      BY <1>1, <2>3, <3>1, MethodsTyped DEF PaymentInv, VaultIsTrue
  <2> QED
    BY <2>1, <2>2, <2>3 DEF VaultIsTrue
<1>11. ChargeIsRecorded'
  <2> SUFFICES ASSUME NEW q \in charged' \ lost'
               PROVE  \/ booked'[q] = "Settled"
                      \/ attempt'[q].pc = "book" /\ attempt'[q].outcome = "Settled"
    BY DEF ChargeIsRecorded
  <2>1. CASE q = p
    BY <1>3, <2>1 DEF EndsWith
  <2>2. CASE q # p
    BY <1>1, <1>3, <2>2 DEF PaymentInv, ChargeIsRecorded, TypeOK, EndsWith
  <2> QED
    BY <2>1, <2>2
<1>12. StoredMethodsAreOffered'
  <2> SUFFICES ASSUME NEW m \in methods, ~Adrift(m)'
               PROVE  m[2] = reference' \/ (attempt'[m[1]].pc = "book" /\ attempt'[m[1]].wrote)
    BY <1>9 DEF StoredMethodsAreOffered, Adrift
  <2>1. ~Adrift(m)
    BY <1>8
  <2>2. m[2] = reference \/ (attempt[m[1]].pc = "book" /\ attempt[m[1]].wrote)
    BY <2>1 DEF PaymentInv, StoredMethodsAreOffered, Adrift
  <2>3. m[1] \in charged /\ m[1] \in Payments /\ m[1] \notin lost'
    BY MethodsTyped DEF PaymentInv, Adrift
  <2>4. CASE m[1] = p /\ attempt[p].pc = "book" /\ attempt[p].wrote
    <3>1. m[2] = attempt[p].vault
      BY <2>4 DEF PaymentInv, VaultIsTrue
    <3> QED
      BY <2>3, <2>4, <3>1 DEF EndsWith
  <2>5. CASE m[1] # p /\ attempt[m[1]].pc = "book" /\ attempt[m[1]].wrote
    BY <1>1, <2>3, <2>5
  <2>6. CASE m[2] = reference /\ m[1] # p
    <3>1. CASE reference' # reference
      <4>1. p \in AtWork /\ Creating(p)
        BY <1>4, <3>1 DEF EndsWith, Creating
      <4> QED
        BY <2>1, <2>6, <4>1 DEF PaymentInv, VaultIsTrue
    <3> QED
      BY <2>6, <3>1
  <2>7. CASE m[2] = reference /\ m[1] = p /\ ~(attempt[p].pc = "book" /\ attempt[p].wrote)
    BY <2>7 DEF EndsWith
  <2> QED
    BY <2>2, <2>4, <2>5, <2>6, <2>7
<1> QED
  BY <1>5, <1>6, <1>7, <1>10, <1>11, <1>12 DEF PaymentInv

(* The attempt that has ended, field by field. *)
LEMMA DoneIs == [Idle EXCEPT !.pc = "done"] = At("done", NoRecord, FALSE, "none")
<1> DEFINE w == FALSE  o == "none"  b == "idle"
<1>1. Idle = At(b, NoRecord, w, o)
  BY DEF Idle, At
<1> HIDE DEF b, w, o
<1>2. [At(b, NoRecord, w, o) EXCEPT !.pc = "done"] = At("done", NoRecord, w, o)
  BY DEF At
<1> QED
  BY <1>1, <1>2, Zenon DEF b, w, o

(* An attempt that never began ends in Error. *)
LEMMA HydrateFailsStep ==
    ASSUME PaymentInv, NEW p \in Payments, HydrateFails(p)
    PROVE  PaymentInv'
<1>1. /\ attempt[p].pc = "idle"
      /\ booked' = [booked EXCEPT ![p] = "Error"]
      /\ attempt' = [attempt EXCEPT ![p] = [Idle EXCEPT !.pc = "done"]]
      /\ UNCHANGED <<reference, token, refunding, known, made, charged, methods, refunds,
                     lost, overlapped, switched>>
      /\ faults' \in 0..MaxFaults
  BY FaultTyped DEF HydrateFails, Become, braintree, PaymentInv, TypeOK
<1>2. Becomes(p, "done", NoRecord, FALSE, "none")
  BY <1>1, DoneIs, Zenon DEF Becomes
<1>3. p \notin charged
  BY <1>1 DEF PaymentInv, StagesAreTrue
<1>4. EndsWith(p, "Error")
  BY <1>1, <1>2, <1>3 DEF EndsWith
<1> QED
  BY <1>4, EndStep

(* A charge whose answer is lost is counted as lost. *)
LEMMA SaleBreaksStep ==
    ASSUME PaymentInv, NEW p \in Payments, SaleBreaks(p)
    PROVE  PaymentInv'
<1>1. /\ attempt[p].pc = "sale"
      /\ attempt' = [attempt EXCEPT ![p] = [Idle EXCEPT !.pc = "done"]]
      /\ lost' = lost \cup ({p} \cap charged')
      /\ UNCHANGED <<reference, booked, token, refunding, refunds, overlapped, switched>>
      /\ faults' \in 0..MaxFaults
  BY FaultTyped DEF SaleBreaks, RolledBack, Become, shop, PaymentInv, TypeOK
<1>2. /\ UNCHANGED <<known, made>>
      /\ charged \subseteq charged' /\ charged' \subseteq charged \cup {p}
      /\ methods \subseteq methods'
      /\ \A m \in methods' \ methods : m \in {p} \X known /\ p \in charged'
  BY DEF SaleBreaks, Charges, braintree
<1>3. Becomes(p, "done", NoRecord, FALSE, "none")
  BY <1>1, DoneIs, Zenon DEF Becomes
<1>4. booked' = [booked EXCEPT ![p] = booked[p]]
      /\ booked[p] \in {"none", "Settled", "Declined", "Error"}
  BY <1>1 DEF PaymentInv, TypeOK
<1>5. EndsWith(p, booked[p])
  BY <1>1, <1>2, <1>3, <1>4 DEF EndsWith
<1> QED
  BY <1>4, <1>5, EndStep

(* The payment and the customer's id are committed together. *)
LEMMA BookPaymentStep ==
    ASSUME PaymentInv, NEW p \in Payments, BookPayment(p)
    PROVE  PaymentInv'
<1>1. /\ attempt[p].pc = "book"
      /\ booked' = [booked EXCEPT ![p] = attempt[p].outcome]
      /\ reference' = IF attempt[p].wrote THEN attempt[p].vault ELSE reference
      /\ attempt' = [attempt EXCEPT ![p] = [Idle EXCEPT !.pc = "done"]]
      /\ UNCHANGED <<token, refunding, known, made, charged, methods, refunds, lost,
                     overlapped, switched, faults>>
  BY DEF BookPayment, Become, braintree, history
<1>2. Becomes(p, "done", NoRecord, FALSE, "none")
  BY <1>1, DoneIs, Zenon DEF Becomes
<1>3. attempt[p].outcome \in {"none", "Settled", "Declined"}
  BY DEF PaymentInv, TypeOK, Attempt
<1>4. p \in charged => p \in lost \/ attempt[p].outcome = "Settled"
  BY <1>1 DEF PaymentInv, StagesAreTrue, ChargeIsRecorded
<1>5. EndsWith(p, attempt[p].outcome)
  BY <1>1, <1>2, <1>4 DEF EndsWith, PaymentInv, TypeOK
<1> QED
  BY <1>3, <1>5, EndStep

(* A charge whose transaction is rolled back is counted as lost. *)
LEMMA RollBackStep ==
    ASSUME PaymentInv, NEW p \in Payments, RollBack(p)
    PROVE  PaymentInv'
<1>1. /\ p \in AtWork
      /\ attempt' = [attempt EXCEPT ![p] = [Idle EXCEPT !.pc = "done"]]
      /\ lost' = lost \cup ({p} \cap charged')
      /\ UNCHANGED <<reference, booked, token, refunding, known, made, charged, methods,
                     refunds, overlapped, switched>>
      /\ faults' \in 0..MaxFaults
  BY FaultTyped DEF RollBack, RolledBack, Become, shop, PaymentInv, TypeOK
<1>2. Becomes(p, "done", NoRecord, FALSE, "none")
  BY <1>1, DoneIs, Zenon DEF Becomes
<1>3. booked' = [booked EXCEPT ![p] = booked[p]]
      /\ booked[p] \in {"none", "Settled", "Declined", "Error"}
  BY <1>1 DEF PaymentInv, TypeOK
<1>4. EndsWith(p, booked[p])
  BY <1>1, <1>2, <1>3 DEF EndsWith, AtWork
<1> QED
  BY <1>3, <1>4, EndStep

-----------------------------------------------------------------------------
(* The invariant *)

(* The invariant holds at the start. *)
LEMMA PaymentInvInit == Init => PaymentInv
<1> SUFFICES ASSUME Init PROVE PaymentInv
  OBVIOUS
<1>1. \A p \in Payments : attempt[p].pc = "idle" /\ ~attempt[p].wrote
                          /\ attempt[p].outcome = "none" /\ booked[p] = "none"
  BY DEF Init, Idle
<1>2. AtWork = {} /\ charged = {} /\ methods = {}
  BY <1>1 DEF Init, AtWork
<1>3. TypeOK
  <2>1. Idle \in Attempt
    BY DEF Idle, Attempt
  <2>2. attempt \in [Payments -> Attempt]
    BY <2>1 DEF Init
  <2>3. refunding \in [Admins -> Refund]
    BY DEF Init, Refund
  <2>4. [shop |-> 0, braintree |-> 0, lost |-> 0] \in [shop : Nat, braintree : 0..Amount, lost : Nat]
    BY ConstantsAssumption
  <2>5. refunds \in [Payments -> [shop : Nat, braintree : 0..Amount, lost : Nat]]
    BY <2>4 DEF Init
  <2>6. methods \subseteq charged \X made
    BY <1>2
  <2>7. /\ reference \in Records \cup {NoRecord}
        /\ booked \in [Payments -> {"none", "Settled", "Declined", "Error"}]
        /\ token \in [Clients -> {"idle", "dropping"}]
    BY DEF Init
  <2>8. /\ known \subseteq made /\ made \subseteq Records
        /\ lost \subseteq charged /\ charged \subseteq Payments
        /\ overlapped \subseteq Payments
    BY DEF Init
  <2>9. switched \in BOOLEAN /\ faults \in 0..MaxFaults
    <3>1. switched = FALSE /\ faults = 0
      BY DEF Init
    <3>2. 0 \in 0..MaxFaults
      BY ConstantsAssumption
    <3> QED
      BY <3>1, <3>2
  <2> QED
    BY <1>2, <2>2, <2>3, <2>5, <2>6, <2>7, <2>8, <2>9 DEF TypeOK
<1> QED
  BY <1>1, <1>2, <1>3 DEF PaymentInv, StagesAreTrue, OverlapIsNoticed, VaultIsTrue,
     ChargeIsRecorded, StoredMethodsAreOffered

(* The invariant is kept by every step. *)
LEMMA PaymentInvStep == PaymentInv /\ [Next]_vars => PaymentInv'
<1> SUFFICES ASSUME PaymentInv, [Next]_vars PROVE PaymentInv'
  OBVIOUS
<1>1. ASSUME NEW p \in Payments, Pay(p) PROVE PaymentInv'
  BY <1>1, StartPaymentStep, HydrateFailsStep, CreateRecordStep, CreateRecordFailsStep,
     SaveCustomerStep, SaveFailsStep, SaleStep, SaleDeclinedStep, SaleBreaksStep,
     BookPaymentStep, RollBackStep DEF Pay
<1>2. ASSUME NEW a \in Admins, GiveBack(a) PROVE PaymentInv'
  BY <1>2, QuietStep, MakeRefundStep, BookRefundStep, RefundBreaksStep DEF GiveBack
<1>3. CASE SwitchEnvironment
  BY <1>3, SwitchStep
<1>4. CASE UNCHANGED vars
  BY <1>4, ElsewhereStep DEF vars, history, PaymentInv, TypeOK
<1> QED
  BY <1>1, <1>2, <1>3, <1>4, QuietStep DEF Next

(* The invariant holds in every reachable state. *)
LEMMA PaymentInvariant == Spec => []PaymentInv
BY PaymentInvInit, PaymentInvStep, PTL DEF Spec

-----------------------------------------------------------------------------
(* Theorems *)

(* Every variable stays in its type; the row of the customer is locked by  *)
(* one attempt at a time, and what an attempt saves is a record Braintree  *)
(* made; no more is refunded than was taken.                               *)
THEOREM TypeInvariant == Spec => []TypeOK
BY PaymentInvariant, PTL DEF PaymentInv

(* What a customer paid with is stored under the id the shop has, but for  *)
(* overlapping payments, lost ones, and a switch of the environment.       *)
THEOREM MethodsAreOffered == Spec => []StoredMethodsAreOffered
BY PaymentInvariant, PTL DEF PaymentInv

(* A step of the plugin is one of PaymentBooks, or changes nothing there.  *)
LEMMA BooksStep ==
    ASSUME PaymentInv, [Next]_vars
    PROVE  \/ UNCHANGED <<charged, booked>>
           \/ \E p \in Payments : charged' = charged \cup {p} /\ UNCHANGED booked
           \/ \E p \in Payments, o \in {"none", "Settled", "Declined", "Error"} :
               /\ booked[p] = "none" /\ booked' = [booked EXCEPT ![p] = o]
               /\ o = "Settled" => p \in charged
               /\ UNCHANGED charged
<1>1. ASSUME NEW p \in Payments, HydrateFails(p) \/ BookPayment(p)
      PROVE  \E o \in {"none", "Settled", "Declined", "Error"} :
                 /\ booked[p] = "none" /\ booked' = [booked EXCEPT ![p] = o]
                 /\ o = "Settled" => p \in charged
                 /\ UNCHANGED charged
  <2>1. CASE HydrateFails(p)
    BY <2>1 DEF HydrateFails, PaymentInv, StagesAreTrue, braintree
  <2>2. CASE BookPayment(p)
    <3>1. attempt[p].outcome \in {"none", "Settled", "Declined"} /\ booked[p] = "none"
          /\ (attempt[p].outcome = "Settled" => p \in charged)
      BY <2>2 DEF BookPayment, PaymentInv, TypeOK, Attempt, StagesAreTrue
    <3>2. booked' = [booked EXCEPT ![p] = attempt[p].outcome] /\ UNCHANGED charged
      BY <2>2 DEF BookPayment, braintree
    <3> QED
      BY <3>1, <3>2
  <2> QED
    BY <1>1, <2>1, <2>2
<1>2. ASSUME NEW p \in Payments, Sale(p) \/ SaleBreaks(p)
      PROVE  UNCHANGED booked /\ (charged' = charged \cup {p} \/ UNCHANGED charged)
  BY <1>2 DEF Sale, SaleBreaks, Charges, shop, braintree
<1>3. ASSUME NEW p \in Payments,
             \/ StartPayment(p) \/ CreateRecord(p) \/ CreateRecordFails(p) \/ SaveCustomer(p)
             \/ SaveFails(p) \/ SaleDeclined(p) \/ RollBack(p)
             \/ \E a \in Admins : AskRefund(a, p)
      PROVE  UNCHANGED <<charged, booked>>
  BY <1>3 DEF StartPayment, CreateRecord, CreateRecordFails, SaveCustomer, SaveFails,
     SaleDeclined, RollBack, AskRefund, shop, braintree
<1>4. ASSUME NEW a \in Admins, GiveBack(a)
      PROVE  UNCHANGED <<charged, booked>>
  BY <1>4 DEF GiveBack, MakeRefund, RefundRefused, BookRefund, RefundBreaks, shop, braintree
<1>5. CASE SwitchEnvironment \/ \E c \in Clients : AskToken(c) \/ DropReference(c)
  BY <1>5 DEF SwitchEnvironment, AskToken, DropReference, shop, braintree
<1>6. CASE UNCHANGED vars
  BY <1>6 DEF vars, shop, braintree
<1> QED
  BY <1>1, <1>2, <1>3, <1>4, <1>5, <1>6 DEF Next, Pay

ChargeOf == [p \in Payments |-> IF p \in charged THEN "taken" ELSE "none"]
BookedAs == [p \in Payments |-> IF booked[p] = "Settled" THEN "settled" ELSE "none"]

(* The same step in the terms of PaymentBooks. *)
LEMMA BooksNext ==
    ASSUME PaymentInv, [Next]_vars
    PROVE  \/ ChargeOf' = ChargeOf /\ BookedAs' = BookedAs
           \/ \E p \in Payments : /\ ChargeOf[p] = "none" /\ BookedAs' = BookedAs
                                  /\ ChargeOf' = [ChargeOf EXCEPT ![p] = "taken"]
           \/ \E p \in Payments : /\ ChargeOf[p] = "taken" /\ BookedAs[p] = "none"
                                  /\ BookedAs' = [BookedAs EXCEPT ![p] = "settled"]
                                  /\ ChargeOf' = ChargeOf
<1>1. CASE UNCHANGED <<charged, booked>>
  BY <1>1 DEF ChargeOf, BookedAs
<1>2. ASSUME NEW p \in Payments, charged' = charged \cup {p} /\ UNCHANGED booked
      PROVE  \/ ChargeOf' = ChargeOf /\ BookedAs' = BookedAs
             \/ /\ ChargeOf[p] = "none" /\ BookedAs' = BookedAs
                /\ ChargeOf' = [ChargeOf EXCEPT ![p] = "taken"]
  BY <1>2 DEF ChargeOf, BookedAs
<1>3. ASSUME NEW p \in Payments, NEW o \in {"none", "Settled", "Declined", "Error"},
             /\ booked[p] = "none" /\ booked' = [booked EXCEPT ![p] = o]
             /\ o = "Settled" => p \in charged
             /\ UNCHANGED charged
      PROVE  \/ ChargeOf' = ChargeOf /\ BookedAs' = BookedAs
             \/ /\ ChargeOf[p] = "taken" /\ BookedAs[p] = "none"
                /\ BookedAs' = [BookedAs EXCEPT ![p] = "settled"]
                /\ ChargeOf' = ChargeOf
  <2>1. ChargeOf' = ChargeOf
    BY <1>3 DEF ChargeOf
  <2>2. \A q \in Payments : booked'[q] = IF q = p THEN o ELSE booked[q]
    BY <1>3 DEF PaymentInv, TypeOK
  <2>3. CASE o = "Settled"
    <3>1. ChargeOf[p] = "taken" /\ BookedAs[p] = "none"
      BY <1>3, <2>3 DEF ChargeOf, BookedAs
    <3>2. BookedAs' = [q \in Payments |-> IF q = p THEN "settled" ELSE BookedAs[q]]
      BY <2>2, <2>3 DEF BookedAs
    <3>3. [BookedAs EXCEPT ![p] = "settled"]
              = [q \in Payments |-> IF q = p THEN "settled" ELSE BookedAs[q]]
      BY DEF BookedAs
    <3> QED
      BY <2>1, <3>1, <3>2, <3>3
  <2>4. CASE o # "Settled"
    BY <1>3, <2>1, <2>2, <2>4 DEF BookedAs
  <2> QED
    BY <2>3, <2>4
<1> QED
  BY <1>1, <1>2, <1>3, BooksStep

(* The plugin implements PaymentBooks: no payment is booked as settled     *)
(* before Braintree took the money, whatever fails in between.             *)
THEOREM Refinement == Spec => KeepsTheBooks
<1>1. Init => Books!Init
  BY DEF Init, Books!Init
<1>2. PaymentInv /\ [Next]_vars => [Books!Next]_<<ChargeOf, BookedAs>>
  BY BooksNext DEF Books!Next, Books!Take, Books!BookSettled, ChargeOf, BookedAs
<1>3. PaymentInv /\ [Next]_vars => [Books!Next]_Books!vars
  BY <1>2 DEF Books!vars, ChargeOf, BookedAs
<1> QED
  BY <1>1, <1>3, PaymentInvariant, PTL DEF Spec, KeepsTheBooks, Books!Spec

-----------------------------------------------------------------------------
(* Refunds *)

(* The refunds Braintree made and the shop has yet to book.                *)
Booking(r) == {a \in Admins : r[a].pc = "book"}

BookingOf(r, p) == {a \in Admins : r[a].pc = "book" /\ r[a].payment = p}

RefundAmounts(r) == [a \in Admins |-> r[a].amount]

(* InFlight, for any state of the refunds.                                 *)
FlightOf(r, p) == MapThenSumSet(LAMBDA a : r[a].amount, BookingOf(r, p))

(* InFlight is what is in flight in this state.                            *)
LEMMA FlightNow == \A p : InFlight(p) = FlightOf(refunding, p)
BY Zenon DEF InFlight, FlightOf, BookingOf, MapThenSumSet, MapThenFoldSet

(* The same after a step.                                                  *)
LEMMA FlightNext == \A p : InFlight(p)' = FlightOf(refunding', p)
BY Zenon DEF InFlight, FlightOf, BookingOf, MapThenSumSet, MapThenFoldSet

(* What is in flight is the sum of its amounts.                            *)
LEMMA FlightIsSum ==
    ASSUME NEW r, IsFiniteSet(Booking(r)), NEW p
    PROVE  /\ FlightOf(r, p) = SumOf(RefundAmounts(r), BookingOf(r, p))
           /\ IsFiniteSet(BookingOf(r, p))
<1> DEFINE S == BookingOf(r, p)
           f == RefundAmounts(r)
           iter == CHOOSE h : h = [s \in SUBSET S |->
                       IF s = {} THEN 0
                       ELSE r[CHOOSE x \in s : TRUE].amount
                                + h[s \ {CHOOSE x \in s : TRUE}]]
<1>1. FlightOf(r, p) = iter[S]
  BY Zenon DEF FlightOf, MapThenSumSet, MapThenFoldSet
<1>2. IsFiniteSet(S) /\ \A x \in S : f[x] = r[x].amount
  BY FS_Subset DEF Booking, BookingOf, RefundAmounts
<1> HIDE DEF S, f
<1>3. \A s \in SUBSET S : s # {} =>
          f[CHOOSE x \in s : TRUE] = r[CHOOSE x \in s : TRUE].amount
  BY <1>2, ChosenIsIn
<1>4. PICK g : IsSum(g, f, S)
  BY <1>2, SumExists
<1>5. g = [s \in SUBSET S |->
              IF s = {} THEN 0
              ELSE r[CHOOSE x \in s : TRUE].amount + g[s \ {CHOOSE x \in s : TRUE}]]
  BY <1>3, <1>4 DEF IsSum
<1>6. iter = [s \in SUBSET S |->
                 IF s = {} THEN 0
                 ELSE r[CHOOSE x \in s : TRUE].amount + iter[s \ {CHOOSE x \in s : TRUE}]]
  BY <1>5
<1> HIDE DEF iter
<1>7. IsSum(iter, f, S)
  BY <1>3, <1>6 DEF IsSum
<1>8. iter[S] = SumOf(f, S)
  BY <1>2, <1>7, SumsAreSums
<1> QED
  BY <1>1, <1>2, <1>8 DEF S, f

(* The refunds on the way to the shop's books are requests with an amount. *)
BookingTyped(r) ==
    /\ IsFiniteSet(Booking(r))
    /\ \A a \in Booking(r) : r[a].payment \in Payments /\ r[a].amount \in 1..Amount

(* What is in flight is a number.                                          *)
LEMMA FlightIsNatural ==
    ASSUME NEW r, BookingTyped(r), NEW p
    PROVE  FlightOf(r, p) \in Nat
<1> DEFINE S == BookingOf(r, p)
           f == RefundAmounts(r)
<1>1. IsFiniteSet(S) /\ FlightOf(r, p) = SumOf(f, S)
  BY FlightIsSum DEF BookingTyped
<1>2. \A a \in S : f[a] \in Nat
  BY ConstantsAssumption DEF BookingTyped, Booking, BookingOf, RefundAmounts
<1> HIDE DEF S, f
<1> QED
  BY <1>1, <1>2, SumIsNatural

(* It depends on the requests that are on the way alone.                   *)
LEMMA FlightUnchanged ==
    ASSUME NEW r, NEW s, BookingTyped(r), Booking(s) = Booking(r),
           \A a \in Booking(r) : s[a].payment = r[a].payment /\ s[a].amount = r[a].amount
    PROVE  BookingTyped(s) /\ \A p : FlightOf(s, p) = FlightOf(r, p)
<1>1. BookingTyped(s)
  BY DEF BookingTyped
<1>2. ASSUME NEW p
      PROVE  FlightOf(s, p) = FlightOf(r, p)
  <2> DEFINE S == BookingOf(r, p)
             f == RefundAmounts(r)
             g == RefundAmounts(s)
  <2>1. BookingOf(s, p) = S
    BY DEF Booking, BookingOf
  <2>2. /\ IsFiniteSet(S) /\ FlightOf(r, p) = SumOf(f, S)
        /\ FlightOf(s, p) = SumOf(g, S)
    BY <1>1, <2>1, FlightIsSum DEF BookingTyped
  <2>3. \A a \in S : g[a] = f[a]
    BY DEF Booking, BookingOf, RefundAmounts
  <2> HIDE DEF S, f, g
  <2> QED
    BY <2>2, <2>3, SumsOfSameTerms
<1> QED
  BY <1>1, <1>2

(* What request a has in flight for a payment.                             *)
Share(r, a, p) == IF p = r[a].payment THEN r[a].amount ELSE 0

(* A request that gets on the way adds its amount to what is in flight for *)
(* its payment; read backwards, one that is booked or lost takes it away.  *)
LEMMA FlightAdds ==
    ASSUME NEW r, NEW s, BookingTyped(s), NEW a \in Booking(s),
           Booking(r) = Booking(s) \ {a},
           \A b \in Booking(r) : r[b].payment = s[b].payment /\ r[b].amount = s[b].amount
    PROVE  /\ BookingTyped(r)
           /\ \A p : FlightOf(s, p) = FlightOf(r, p) + Share(s, a, p)
<1>1. BookingTyped(r)
  BY FS_Subset DEF BookingTyped
<1>2. ASSUME NEW p
      PROVE  FlightOf(s, p) = FlightOf(r, p) + Share(s, a, p)
  <2> DEFINE S == BookingOf(s, p)
             R == BookingOf(r, p)
             f == RefundAmounts(r)
             g == RefundAmounts(s)
  <2>1. /\ IsFiniteSet(R) /\ FlightOf(r, p) = SumOf(f, R)
        /\ IsFiniteSet(S) /\ FlightOf(s, p) = SumOf(g, S)
    BY <1>1, FlightIsSum DEF BookingTyped
  <2>2. R = S \ {a} /\ (a \in S <=> p = s[a].payment)
    BY DEF Booking, BookingOf
  <2>3. \A b \in R : f[b] = g[b]
    BY DEF Booking, BookingOf, RefundAmounts
  <2>4. g[a] = s[a].amount /\ \A b \in S : g[b] \in Nat
    BY ConstantsAssumption DEF BookingTyped, Booking, BookingOf, RefundAmounts
  <2>5. FlightOf(r, p) \in Nat
    BY <1>1, FlightIsNatural
  <2>6. s[a].amount \in Nat
    BY ConstantsAssumption DEF BookingTyped
  <2> HIDE DEF S, R, f, g
  <2>7. SumOf(f, R) = SumOf(g, R)
    BY <2>1, <2>3, SumsOfSameTerms
  <2>8. CASE a \in S
    <3>1. SumOf(g, S) = g[a] + SumOf(g, S \ {a})
      BY <2>1, <2>4, <2>8, SumRemove
    <3>2. FlightOf(s, p) = s[a].amount + FlightOf(r, p) /\ p = s[a].payment
      BY <2>1, <2>2, <2>4, <2>7, <2>8, <3>1
    <3> QED
      BY <2>5, <2>6, <3>2 DEF Share
  <2>9. CASE a \notin S
    <3>1. R = S
      BY <2>2, <2>9
    <3>2. FlightOf(s, p) = FlightOf(r, p) /\ p # s[a].payment
      BY <2>1, <2>2, <2>7, <2>9, <3>1
    <3> QED
      BY <2>5, <3>2 DEF Share
  <2> QED
    BY <2>8, <2>9
<1> QED
  BY <1>1, <1>2

-----------------------------------------------------------------------------
(* RefundsAreBooked, for any state of the refunds.                         *)
Balanced(r, sums) ==
    \A p \in Payments : sums[p].braintree = sums[p].shop + sums[p].lost + FlightOf(r, p)

(* The inductive invariant of the refunds.                                 *)
RefundsInv == BookingTyped(refunding) /\ Balanced(refunding, refunds)

(* The requests on the way have the types TypeOK gives them.               *)
LEMMA BookingIsTyped ==
    ASSUME TypeOK, IsFiniteSet(Booking(refunding))
    PROVE  BookingTyped(refunding)
BY DEF TypeOK, Refund, NoRefund, BookingTyped, Booking

(* A step that leaves the sums and what is on the way alone.               *)
LEMMA RefundsKept ==
    ASSUME RefundsInv, UNCHANGED refunds, Booking(refunding') = Booking(refunding),
           \A a \in Booking(refunding) : refunding'[a] = refunding[a]
    PROVE  RefundsInv'
<1>1. BookingTyped(refunding') /\ \A p : FlightOf(refunding', p) = FlightOf(refunding, p)
  BY FlightUnchanged DEF RefundsInv
<1>2. Balanced(refunding', refunds')
  BY <1>1 DEF RefundsInv, Balanced
<1> QED
  BY <1>1, <1>2, Zenon DEF RefundsInv, BookingTyped, Booking, Balanced, FlightOf, BookingOf,
     MapThenSumSet, MapThenFoldSet

(* The sums of one payment change, and those of the others do not.         *)
LEMMA SumsAfter ==
    ASSUME TypeOK, NEW a \in Admins, refunding[a].pc \in {"ask", "book"},
           NEW sums \in [shop : Nat, braintree : 0..Amount, lost : Nat],
           RefundedIs(a, sums)
    PROVE  \A p \in Payments :
               refunds'[p] = IF p = refunding[a].payment THEN sums ELSE refunds[p]
BY DEF RefundedIs, TypeOK

(* The invariant after a step, from what it says of the values after it.   *)
LEMMA RefundsInvNext ==
    ASSUME BookingTyped(refunding'), Balanced(refunding', refunds')
    PROVE  RefundsInv'
BY Zenon DEF RefundsInv, BookingTyped, Booking, Balanced, FlightOf, BookingOf, MapThenSumSet,
   MapThenFoldSet

(* What Braintree gave back is on its way to the books.                    *)
LEMMA MakeRefundBooks ==
    ASSUME TypeOK, RefundsInv, NEW a \in Admins, MakeRefund(a)
    PROVE  RefundsInv'
<1> DEFINE n == refunding[a].amount
           sums == [RefundedSoFar(a) EXCEPT !.braintree = @ + n]
<1>1. /\ refunding[a].pc = "ask" /\ CanRefund(a) /\ RefundedIs(a, sums)
      /\ refunding' = [refunding EXCEPT ![a].pc = "book"]
  BY DEF MakeRefund
<1>2. /\ refunding[a].payment \in Payments /\ n \in 1..Amount
      /\ RefundedSoFar(a) \in [shop : Nat, braintree : 0..Amount, lost : Nat]
  BY <1>1, RefundTyped
<1>3. RefundedSoFar(a).braintree + n \in 0..Amount
  BY <1>1, <1>2, ConstantsAssumption DEF CanRefund
<1>4. /\ sums \in [shop : Nat, braintree : 0..Amount, lost : Nat]
      /\ sums.shop = RefundedSoFar(a).shop /\ sums.lost = RefundedSoFar(a).lost
      /\ sums.braintree = RefundedSoFar(a).braintree + n
  <2> HIDE DEF n
  <2> QED
    BY <1>2, <1>3
<1>5. \A p \in Payments :
          refunds'[p] = IF p = refunding[a].payment THEN sums ELSE refunds[p]
  <2> HIDE DEF sums
  <2> QED
    BY <1>1, <1>4, SumsAfter
<1>6. /\ refunding'[a] = [refunding[a] EXCEPT !.pc = "book"]
      /\ \A b \in Admins \ {a} : refunding'[b] = refunding[b]
      /\ refunding'[a].pc = "book" /\ refunding'[a].payment = refunding[a].payment
      /\ refunding'[a].amount = n
  BY <1>1 DEF TypeOK, Refund, NoRefund
<1>7. /\ Booking(refunding) = Booking(refunding') \ {a} /\ a \in Booking(refunding')
      /\ \A b \in Booking(refunding) : b \in Admins \ {a}
  BY <1>1, <1>6 DEF Booking
<1>8. IsFiniteSet(Booking(refunding'))
  <2>1. Booking(refunding') = Booking(refunding) \cup {a}
    BY <1>7
  <2> QED
    BY <2>1, FS_AddElement DEF RefundsInv, BookingTyped
<1>9. BookingTyped(refunding')
  BY <1>2, <1>6, <1>7, <1>8 DEF RefundsInv, BookingTyped
<1>10. \A p : FlightOf(refunding', p) = FlightOf(refunding, p) + Share(refunding', a, p)
  <2>1. \A b \in Booking(refunding) :
            /\ refunding[b].payment = refunding'[b].payment
            /\ refunding[b].amount = refunding'[b].amount
    BY <1>6, <1>7
  <2> QED
    BY <1>7, <1>9, <2>1, FlightAdds
<1>11. Balanced(refunding', refunds')
  <2> SUFFICES ASSUME NEW p \in Payments
               PROVE  refunds'[p].braintree =
                          refunds'[p].shop + refunds'[p].lost + FlightOf(refunding', p)
    BY DEF Balanced
  <2>1. /\ FlightOf(refunding, p) \in Nat
        /\ refunds[p] \in [shop : Nat, braintree : 0..Amount, lost : Nat]
        /\ refunds[p].braintree = refunds[p].shop + refunds[p].lost + FlightOf(refunding, p)
    BY FlightIsNatural DEF RefundsInv, Balanced, TypeOK
  <2>2. n \in Nat
    BY <1>2, ConstantsAssumption
  <2>3. CASE p = refunding[a].payment
    <3>1. FlightOf(refunding', p) = FlightOf(refunding, p) + n
      BY <1>6, <1>10, <2>3 DEF Share
    <3>2. RefundedSoFar(a) = refunds[p] /\ refunds'[p] = sums
      BY <1>5, <2>3 DEF RefundedSoFar
    <3> HIDE DEF sums, n
    <3> QED
      BY <1>4, <2>1, <2>2, <3>1, <3>2
  <2>4. CASE p # refunding[a].payment
    <3>1. FlightOf(refunding', p) = FlightOf(refunding, p)
      BY <1>6, <1>10, <2>1, <2>4 DEF Share
    <3> QED
      BY <1>5, <2>1, <2>4, <3>1
  <2> QED
    BY <2>3, <2>4
<1> QED
  BY <1>9, <1>11, RefundsInvNext

(* A request that ends was on the way or not: what it takes out of flight. *)
LEMMA FlightAfterEnd ==
    ASSUME TypeOK, RefundsInv, NEW a \in Admins, refunding[a].pc = "book",
           refunding' = [refunding EXCEPT ![a] = NoRefund]
    PROVE  /\ BookingTyped(refunding')
           /\ \A p : FlightOf(refunding, p) =
                          FlightOf(refunding', p) + Share(refunding, a, p)
<1>1. /\ refunding'[a] = NoRefund
      /\ \A b \in Admins \ {a} : refunding'[b] = refunding[b]
  BY DEF TypeOK
<1>2. /\ Booking(refunding') = Booking(refunding) \ {a} /\ a \in Booking(refunding)
      /\ \A b \in Booking(refunding') : refunding'[b] = refunding[b]
  BY <1>1 DEF Booking, NoRefund
<1>3. \A b \in Booking(refunding') :
          /\ refunding'[b].payment = refunding[b].payment
          /\ refunding'[b].amount = refunding[b].amount
  BY <1>2
<1>4. BookingTyped(refunding)
  BY DEF RefundsInv
<1> DEFINE s == refunding
           r == refunding'
<1>5. /\ BookingTyped(s) /\ a \in Booking(s) /\ Booking(r) = Booking(s) \ {a}
      /\ \A b \in Booking(r) : r[b].payment = s[b].payment /\ r[b].amount = s[b].amount
  BY <1>2, <1>3, <1>4
<1> HIDE DEF r, s
<1>6. BookingTyped(r) /\ \A p : FlightOf(s, p) = FlightOf(r, p) + Share(s, a, p)
  BY <1>5, FlightAdds
<1> QED
  BY <1>6 DEF r, s

(* The shop books what was on its way.                                     *)
LEMMA BookRefundBooks ==
    ASSUME TypeOK, RefundsInv, NEW a \in Admins, BookRefund(a)
    PROVE  RefundsInv'
<1> DEFINE n == refunding[a].amount
           sums == [RefundedSoFar(a) EXCEPT !.shop = @ + n]
<1>1. /\ refunding[a].pc = "book" /\ RefundedIs(a, sums)
      /\ refunding' = [refunding EXCEPT ![a] = NoRefund]
  BY DEF BookRefund
<1>2. /\ refunding[a].payment \in Payments /\ n \in Nat
      /\ RefundedSoFar(a) \in [shop : Nat, braintree : 0..Amount, lost : Nat]
  BY <1>1, RefundTyped, ConstantsAssumption
<1>3. /\ sums \in [shop : Nat, braintree : 0..Amount, lost : Nat]
      /\ sums.braintree = RefundedSoFar(a).braintree /\ sums.lost = RefundedSoFar(a).lost
      /\ sums.shop = RefundedSoFar(a).shop + n
  <2> HIDE DEF n
  <2> QED
    BY <1>2
<1>4. \A p \in Payments :
          refunds'[p] = IF p = refunding[a].payment THEN sums ELSE refunds[p]
  <2> HIDE DEF sums
  <2> QED
    BY <1>1, <1>3, SumsAfter
<1>5. /\ BookingTyped(refunding')
      /\ \A p : FlightOf(refunding, p) = FlightOf(refunding', p) + Share(refunding, a, p)
  BY <1>1, FlightAfterEnd
<1>6. Balanced(refunding', refunds')
  <2> SUFFICES ASSUME NEW p \in Payments
               PROVE  refunds'[p].braintree =
                          refunds'[p].shop + refunds'[p].lost + FlightOf(refunding', p)
    BY DEF Balanced
  <2>1. /\ FlightOf(refunding', p) \in Nat
        /\ refunds[p] \in [shop : Nat, braintree : 0..Amount, lost : Nat]
        /\ refunds[p].braintree = refunds[p].shop + refunds[p].lost + FlightOf(refunding, p)
    BY <1>5, FlightIsNatural DEF RefundsInv, Balanced, TypeOK
  <2>2. CASE p = refunding[a].payment
    <3>1. FlightOf(refunding, p) = FlightOf(refunding', p) + n
      BY <1>5, <2>2 DEF Share
    <3>2. RefundedSoFar(a) = refunds[p] /\ refunds'[p] = sums
      BY <1>4, <2>2 DEF RefundedSoFar
    <3> HIDE DEF sums, n
    <3> QED
      BY <1>2, <1>3, <2>1, <3>1, <3>2
  <2>3. CASE p # refunding[a].payment
    <3>1. FlightOf(refunding, p) = FlightOf(refunding', p)
      BY <1>5, <2>1, <2>3 DEF Share
    <3> QED
      BY <1>4, <2>1, <2>3, <3>1
  <2> QED
    BY <2>2, <2>3
<1> QED
  BY <1>5, <1>6, RefundsInvNext

(* What a refund that breaks leaves with Braintree is counted as lost,     *)
(* whether it was on its way to the books or not yet made.                 *)
LEMMA RefundBreaksBooks ==
    ASSUME TypeOK, RefundsInv, NEW a \in Admins, RefundBreaks(a)
    PROVE  RefundsInv'
<1> DEFINE n == refunding[a].amount
           s == RefundedSoFar(a)
<1>1. /\ refunding[a].pc \in {"ask", "book"}
      /\ refunding' = [refunding EXCEPT ![a] = NoRefund]
  BY DEF RefundBreaks
<1>2. /\ refunding[a].payment \in Payments /\ n \in Nat
      /\ s \in [shop : Nat, braintree : 0..Amount, lost : Nat]
  BY <1>1, RefundTyped, ConstantsAssumption
<1>3. CASE /\ refunding[a].pc = "ask" /\ CanRefund(a)
           /\ RefundedIs(a, [s EXCEPT !.braintree = @ + n, !.lost = @ + n])
  <2> DEFINE sums == [s EXCEPT !.braintree = @ + n, !.lost = @ + n]
  <2>1. s.braintree + n \in 0..Amount
    BY <1>2, <1>3, ConstantsAssumption DEF CanRefund
  <2>2. /\ sums \in [shop : Nat, braintree : 0..Amount, lost : Nat]
        /\ sums.shop = s.shop /\ sums.lost = s.lost + n /\ sums.braintree = s.braintree + n
    <3> DEFINE b == s.braintree + n
               l == s.lost + n
    <3>1. b \in 0..Amount /\ l \in Nat /\ sums = [[s EXCEPT !.braintree = b] EXCEPT !.lost = l]
      BY <1>2, <2>1
    <3> HIDE DEF n, s, b, l, sums
    <3>2. /\ sums \in [shop : Nat, braintree : 0..Amount, lost : Nat]
          /\ sums.shop = s.shop /\ sums.lost = l /\ sums.braintree = b
      BY <1>2, <3>1
    <3> QED
      BY <3>2 DEF b, l
  <2>3. \A p \in Payments :
            refunds'[p] = IF p = refunding[a].payment THEN sums ELSE refunds[p]
    <3>1. RefundedIs(a, sums)
      BY <1>3
    <3> HIDE DEF sums
    <3> QED
      BY <1>1, <2>2, <3>1, SumsAfter
  <2>4. /\ Booking(refunding') = Booking(refunding)
        /\ \A b \in Booking(refunding) : refunding'[b] = refunding[b]
    BY <1>1, <1>3 DEF TypeOK, Booking, NoRefund
  <2>5. /\ BookingTyped(refunding')
        /\ \A p : FlightOf(refunding', p) = FlightOf(refunding, p)
    BY <2>4, FlightUnchanged DEF RefundsInv
  <2>6. Balanced(refunding', refunds')
    <3> SUFFICES ASSUME NEW p \in Payments
                 PROVE  refunds'[p].braintree =
                            refunds'[p].shop + refunds'[p].lost + FlightOf(refunding', p)
      BY DEF Balanced
    <3>1. /\ FlightOf(refunding, p) \in Nat /\ FlightOf(refunding', p) = FlightOf(refunding, p)
          /\ refunds[p] \in [shop : Nat, braintree : 0..Amount, lost : Nat]
          /\ refunds[p].braintree = refunds[p].shop + refunds[p].lost + FlightOf(refunding, p)
      BY <2>5, FlightIsNatural DEF RefundsInv, Balanced, TypeOK
    <3>2. CASE p = refunding[a].payment
      <4>1. s = refunds[p] /\ refunds'[p] = sums
        BY <2>3, <3>2 DEF RefundedSoFar
      <4> HIDE DEF sums, s, n
      <4> QED
        BY <1>2, <2>2, <3>1, <4>1
    <3>3. CASE p # refunding[a].payment
      BY <2>3, <3>1, <3>3
    <3> QED
      BY <3>2, <3>3
  <2> QED
    BY <2>5, <2>6, RefundsInvNext
<1>4. CASE /\ refunding[a].pc = "book"
           /\ RefundedIs(a, [s EXCEPT !.lost = @ + n])
  <2> DEFINE sums == [s EXCEPT !.lost = @ + n]
  <2>1. /\ sums \in [shop : Nat, braintree : 0..Amount, lost : Nat]
        /\ sums.shop = s.shop /\ sums.lost = s.lost + n /\ sums.braintree = s.braintree
    <3> HIDE DEF n, s
    <3> QED
      BY <1>2
  <2>2. \A p \in Payments :
            refunds'[p] = IF p = refunding[a].payment THEN sums ELSE refunds[p]
    <3>1. RefundedIs(a, sums)
      BY <1>4
    <3> HIDE DEF sums
    <3> QED
      BY <1>1, <2>1, <3>1, SumsAfter
  <2>3. /\ BookingTyped(refunding')
        /\ \A p : FlightOf(refunding, p) = FlightOf(refunding', p) + Share(refunding, a, p)
    BY <1>1, <1>4, FlightAfterEnd
  <2>4. Balanced(refunding', refunds')
    <3> SUFFICES ASSUME NEW p \in Payments
                 PROVE  refunds'[p].braintree =
                            refunds'[p].shop + refunds'[p].lost + FlightOf(refunding', p)
      BY DEF Balanced
    <3>1. /\ FlightOf(refunding', p) \in Nat
          /\ refunds[p] \in [shop : Nat, braintree : 0..Amount, lost : Nat]
          /\ refunds[p].braintree = refunds[p].shop + refunds[p].lost + FlightOf(refunding, p)
      BY <2>3, FlightIsNatural DEF RefundsInv, Balanced, TypeOK
    <3>2. CASE p = refunding[a].payment
      <4>1. FlightOf(refunding, p) = FlightOf(refunding', p) + n
        BY <2>3, <3>2 DEF Share
      <4>2. s = refunds[p] /\ refunds'[p] = sums
        BY <2>2, <3>2 DEF RefundedSoFar
      <4> HIDE DEF sums, s, n
      <4> QED
        BY <1>2, <2>1, <3>1, <4>1, <4>2
    <3>3. CASE p # refunding[a].payment
      <4>1. FlightOf(refunding, p) = FlightOf(refunding', p)
        BY <2>3, <3>1, <3>3 DEF Share
      <4> QED
        BY <2>2, <3>1, <3>3, <4>1
    <3> QED
      BY <3>2, <3>3
  <2> QED
    BY <2>3, <2>4, RefundsInvNext
<1> QED
  BY <1>3, <1>4 DEF RefundBreaks

(* The invariant is kept by every step.                                    *)
LEMMA RefundsStep == TypeOK /\ RefundsInv /\ [Next]_vars => RefundsInv'
<1> SUFFICES ASSUME TypeOK, RefundsInv, [Next]_vars PROVE RefundsInv'
  OBVIOUS
<1>1. ASSUME UNCHANGED <<refunding, refunds>>
      PROVE  RefundsInv'
  BY <1>1, RefundsKept
<1>2. ASSUME NEW p \in Payments, Pay(p)
      PROVE  UNCHANGED <<refunding, refunds>>
  BY <1>2 DEF Pay, StartPayment, HydrateFails, CreateRecord, CreateRecordFails, SaveCustomer,
     SaveFails, Sale, SaleDeclined, SaleBreaks, BookPayment, RollBack
<1>3. CASE \/ SwitchEnvironment \/ UNCHANGED vars
           \/ \E c \in Clients : AskToken(c) \/ DropReference(c)
  BY <1>1, <1>3 DEF SwitchEnvironment, AskToken, DropReference, vars
<1>4. ASSUME NEW a \in Admins, NEW r, r.pc # "book", refunding[a].pc # "book",
             refunding' = [refunding EXCEPT ![a] = r], UNCHANGED refunds
      PROVE  RefundsInv'
  <2>1. /\ Booking(refunding') = Booking(refunding)
        /\ \A b \in Booking(refunding) : refunding'[b] = refunding[b]
    BY <1>4 DEF TypeOK, Booking
  <2> QED
    BY <1>4, <2>1, RefundsKept
<1>5. ASSUME NEW a \in Admins, NEW p \in Payments, AskRefund(a, p)
      PROVE  RefundsInv'
  <2>1. PICK n \in 1..Amount - refunds[p].shop :
            refunding' = [refunding EXCEPT ![a] = [pc |-> "ask", payment |-> p, amount |-> n]]
    BY <1>5 DEF AskRefund
  <2>2. UNCHANGED refunds /\ refunding[a].pc # "book"
    BY <1>5 DEF AskRefund
  <2> QED
    BY <1>4, <2>1, <2>2
<1>6. ASSUME NEW a \in Admins, RefundRefused(a)
      PROVE  RefundsInv'
  <2>1. NoRefund.pc # "book"
    BY DEF NoRefund
  <2> QED
    BY <1>4, <1>6, <2>1 DEF RefundRefused
<1> QED
  BY <1>1, <1>2, <1>3, <1>5, <1>6, MakeRefundBooks, BookRefundBooks, RefundBreaksBooks
     DEF Next, GiveBack

(* No refund is on its way at the start.                                   *)
LEMMA RefundsInit == Init => RefundsInv
<1> SUFFICES ASSUME Init PROVE RefundsInv
  OBVIOUS
<1>1. Booking(refunding) = {} /\ \A p : BookingOf(refunding, p) = {}
  BY DEF Init, Booking, BookingOf, NoRefund
<1>2. BookingTyped(refunding)
  BY <1>1, FS_EmptySet DEF BookingTyped
<1>3. \A p : FlightOf(refunding, p) = 0
  BY <1>1, <1>2, FlightIsSum, SumEquation DEF BookingTyped
<1>4. \A p \in Payments : refunds[p] = [shop |-> 0, braintree |-> 0, lost |-> 0]
  BY DEF Init
<1>5. Balanced(refunding, refunds)
  BY <1>3, <1>4 DEF Balanced
<1> QED
  BY <1>2, <1>5 DEF RefundsInv

(* The invariant says what the property does.                              *)
LEMMA BalanceIsTheProperty == RefundsInv => RefundsAreBooked
BY FlightNow DEF RefundsInv, Balanced, RefundsAreBooked

(* Two refunds at a time, or one made again because its answer was lost,   *)
(* leave the shop with what Braintree gave back, but for what was lost and *)
(* what is on its way to the books.                                        *)
THEOREM RefundsReconcile == Spec => []RefundsAreBooked
BY RefundsInit, RefundsStep, BalanceIsTheProperty, TypeInvariant, PTL DEF Spec
=============================================================================
