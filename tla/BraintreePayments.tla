------------------------- MODULE BraintreePayments -------------------------
(***************************************************************************)
(* braintree-plugin: the payments and refunds of one customer, and the     *)
(* customer's record in Braintree's vault.                                 *)
(*                                                                         *)
(* addPaymentToOrder calls createPayment inside a database transaction.    *)
(* With storeCustomersInBraintree the customer's record at Braintree is    *)
(* looked up, or made and its id saved with the customer, then the sale is *)
(* asked for, and Vendure books what createPayment returns.  Braintree     *)
(* keeps what it did when the transaction is rolled back.                  *)
(* generateBraintreeClientToken uses the same id.                          *)
(*                                                                         *)
(* Abstractions: an attempt to pay is one request with one nonce, all      *)
(* payments have the same amount, and of the order only the payment is     *)
(* modelled.  A save of the customer locks its row until the transaction   *)
(* ends; a property that is undefined is not saved (TypeORM).              *)
(***************************************************************************)
EXTENDS Naturals, FiniteSetsExt

CONSTANTS
    Payments,            \* requests to addPaymentToOrder
    Records,             \* customer records Braintree may make
    NoRecord,            \* undefined
    Clients,             \* requests for a client token at a time
    Admins,              \* refunds being made at a time
    Amount,              \* what every payment charges
    StoreCustomers,      \* option storeCustomersInBraintree
    MaxFaults            \* bound on faults and on switches of environment

ASSUME ConstantsAssumption ==
    /\ NoRecord \notin Records
    /\ Amount \in Nat \ {0} /\ MaxFaults \in Nat
    /\ StoreCustomers \in BOOLEAN

VARIABLES
    reference,     \* the customer's braintreeCustomerId, as committed
    booked,        \* the payment as committed
    attempt,       \* the request that makes it
    token,         \* requests for a client token
    refunding,     \* requests for a refund
    known,         \* records of the environment in use
    made,          \* records of any environment
    charged,       \* payments Braintree took the money of
    methods,       \* what they paid with, and the record it is stored under
    refunds,       \* of a payment: booked, made by Braintree, not booked
    lost,          \* charged, but the transaction was rolled back
    overlapped,    \* attempts that were at work while another one was
    switched,      \* the environment has been switched
    faults         \* faults so far

shop == <<reference, booked>>
braintree == <<known, made, charged, methods>>
history == <<lost, overlapped, switched, faults>>

vars == <<shop, attempt, token, refunding, braintree, refunds, history>>

-----------------------------------------------------------------------------
Idle == [pc |-> "idle", vault |-> NoRecord, wrote |-> FALSE, outcome |-> "none"]

NoRefund == [pc |-> "idle"]

(* vault: the id in hand.  wrote: the customer is saved and its row locked. *)
Attempt == [pc : {"idle", "create", "save", "sale", "book", "done"},
            vault : Records \cup {NoRecord}, wrote : BOOLEAN,
            outcome : {"none", "Settled", "Declined"}]

Refund == {NoRefund} \cup [pc : {"ask", "book"}, payment : Payments, amount : 1..Amount]

AtWork == {p \in Payments : attempt[p].pc \notin {"idle", "done"}}

TypeOK ==
    /\ reference \in Records \cup {NoRecord}
    /\ booked \in [Payments -> {"none", "Settled", "Declined", "Error"}]
    /\ attempt \in [Payments -> Attempt]
    /\ token \in [Clients -> {"idle", "dropping"}]
    /\ refunding \in [Admins -> Refund]
    /\ known \subseteq made /\ made \subseteq Records
    /\ lost \subseteq charged /\ charged \subseteq Payments
    /\ methods \subseteq charged \X made
    /\ refunds \in [Payments -> [shop : Nat, braintree : 0..Amount, lost : Nat]]
    /\ overlapped \subseteq Payments
    /\ switched \in BOOLEAN /\ faults \in 0..MaxFaults
    /\ \A p \in AtWork : attempt[p].wrote => attempt[p].vault \in made
    /\ \A p, q \in AtWork : attempt[p].wrote /\ attempt[q].wrote => p = q

Init ==
    /\ reference = NoRecord
    /\ booked = [p \in Payments |-> "none"]
    /\ attempt = [p \in Payments |-> Idle]
    /\ token = [c \in Clients |-> "idle"]
    /\ refunding = [a \in Admins |-> NoRefund]
    /\ known = {} /\ made = {} /\ charged = {} /\ methods = {}
    /\ refunds = [p \in Payments |-> [shop |-> 0, braintree |-> 0, lost |-> 0]]
    /\ lost = {} /\ overlapped = {} /\ switched = FALSE /\ faults = 0

Fault == faults < MaxFaults /\ faults' = faults + 1

-----------------------------------------------------------------------------
(* getBraintreeCustomerId *)

Become(p, a) == attempt' = [attempt EXCEPT ![p] = a]

Starts(p) ==
    overlapped' = IF AtWork = {} THEN overlapped ELSE overlapped \cup AtWork \cup {p}

(* The customer is read with the order.  The id is used for a customer who *)
(* is logged in and did not choose includeCustomerId = false (vaulted).    *)
StartPayment(p) ==
    /\ attempt[p].pc = "idle"
    /\ \E vaulted \in {FALSE, StoreCustomers} :
           Become(p, [Idle EXCEPT
               !.pc = IF vaulted /\ reference = NoRecord THEN "create" ELSE "sale",
               !.vault = IF vaulted THEN reference ELSE NoRecord])
    /\ Starts(p)
    /\ UNCHANGED <<shop, token, refunding, braintree, refunds, lost, switched, faults>>

(* The customer cannot be read: a payment in state Error. *)
HydrateFails(p) ==
    /\ attempt[p].pc = "idle"
    /\ Fault
    /\ booked' = [booked EXCEPT ![p] = "Error"]
    /\ Become(p, [Idle EXCEPT !.pc = "done"])
    /\ UNCHANGED <<reference, token, refunding, braintree, refunds, lost, overlapped,
                   switched>>

CreateRecord(p) ==
    /\ attempt[p].pc = "create"
    /\ \E r \in Records \ made :
           /\ made' = made \cup {r} /\ known' = known \cup {r}
           /\ Become(p, [attempt[p] EXCEPT !.pc = "save", !.vault = r])
    /\ UNCHANGED <<shop, token, refunding, charged, methods, refunds, history>>

(* Braintree refuses, is not reached, or makes a record and its answer is  *)
(* lost: the payment goes on without an id.                                *)
CreateRecordFails(p) ==
    /\ attempt[p].pc = "create"
    /\ \/ UNCHANGED <<made, known>>
       \/ \E r \in Records \ made : made' = made \cup {r} /\ known' = known \cup {r}
    /\ Become(p, [attempt[p] EXCEPT !.pc = "sale"])
    /\ UNCHANGED <<shop, token, refunding, charged, methods, refunds, history>>

(* The save waits for a transaction that has saved the customer before. *)
SaveCustomer(p) ==
    /\ attempt[p].pc = "save"
    /\ \A q \in AtWork : ~attempt[q].wrote
    /\ Become(p, [attempt[p] EXCEPT !.pc = "sale", !.wrote = TRUE])
    /\ UNCHANGED <<shop, token, refunding, braintree, refunds, history>>

(* Mutant: an id that could not be saved counts as saved. *)
SaveFailsUnnoticed(p) ==
    /\ attempt[p].pc = "save"
    /\ Fault
    /\ Become(p, [attempt[p] EXCEPT !.pc = "sale", !.vault = NoRecord, !.wrote = TRUE])
    /\ UNCHANGED <<shop, token, refunding, braintree, refunds, lost, overlapped, switched>>

(* The error is logged, and the payment goes on without an id. *)
SaveFails(p) ==
    /\ attempt[p].pc = "save"
    /\ Fault
    /\ Become(p, [attempt[p] EXCEPT !.pc = "sale", !.vault = NoRecord])
    /\ UNCHANGED <<shop, token, refunding, braintree, refunds, lost, overlapped, switched>>

-----------------------------------------------------------------------------
(* processPayment *)

(* Braintree takes the money and stores what it was paid with. *)
Charges(p) ==
    /\ attempt[p].vault \in known \cup {NoRecord}
    /\ charged' = charged \cup {p}
    /\ methods' = methods \cup ({<<p, attempt[p].vault>>} \cap ({p} \X known))
    /\ UNCHANGED <<known, made>>

Sale(p) ==
    /\ attempt[p].pc = "sale"
    /\ Charges(p)
    /\ Become(p, [attempt[p] EXCEPT !.pc = "book", !.outcome = "Settled"])
    /\ UNCHANGED <<shop, token, refunding, refunds, history>>

(* Mutant: response.success is not looked at. *)
SaleDeclinedUnnoticed(p) ==
    /\ attempt[p].pc = "sale"
    /\ Become(p, [attempt[p] EXCEPT !.pc = "book", !.outcome = "Settled"])
    /\ UNCHANGED <<shop, token, refunding, braintree, refunds, history>>

(* The sale is declined, as every one with an unknown id is. *)
SaleDeclined(p) ==
    /\ attempt[p].pc = "sale"
    /\ Become(p, [attempt[p] EXCEPT !.pc = "book", !.outcome = "Declined"])
    /\ UNCHANGED <<shop, token, refunding, braintree, refunds, history>>

RolledBack(p) ==
    /\ Become(p, [Idle EXCEPT !.pc = "done"])
    /\ lost' = lost \cup ({p} \cap charged')

(* Braintree is not reached, or its answer is lost.  The promise of the    *)
(* sale is returned, not awaited, so that the error escapes createPayment  *)
(* and the transaction is rolled back.                                     *)
SaleBreaks(p) ==
    /\ attempt[p].pc = "sale"
    /\ Fault
    /\ Charges(p) \/ UNCHANGED braintree
    /\ RolledBack(p)
    /\ UNCHANGED <<shop, token, refunding, refunds, overlapped, switched>>

(* Vendure creates the payment and commits it, and the customer with it. *)
BookPayment(p) ==
    /\ attempt[p].pc = "book"
    /\ booked' = [booked EXCEPT ![p] = attempt[p].outcome]
    /\ reference' = IF attempt[p].wrote THEN attempt[p].vault ELSE reference
    /\ Become(p, [Idle EXCEPT !.pc = "done"])
    /\ UNCHANGED <<token, refunding, braintree, refunds, history>>

(* The server stops, or the database refuses a step. *)
RollBack(p) ==
    /\ p \in AtWork
    /\ Fault
    /\ UNCHANGED charged
    /\ RolledBack(p)
    /\ UNCHANGED <<shop, token, refunding, known, made, methods, refunds, overlapped,
                   switched>>

-----------------------------------------------------------------------------
(* generateBraintreeClientToken changes something only if Braintree does   *)
(* not know the id (and the customer is to have one).                      *)
AskToken(c) ==
    /\ token[c] = "idle"
    /\ StoreCustomers
    /\ reference \notin known \cup {NoRecord}
    /\ token' = [token EXCEPT ![c] = "dropping"]
    /\ UNCHANGED <<shop, attempt, refunding, braintree, refunds, history>>

(* Mutant: the customer is saved with null. *)
DropAnyReference(c) ==
    /\ token[c] = "dropping"
    /\ reference' = NoRecord
    /\ token' = [token EXCEPT ![c] = "idle"]
    /\ UNCHANGED <<booked, attempt, refunding, braintree, refunds, history>>

(* The customer is saved with braintreeCustomerId undefined, which leaves  *)
(* the column as it is.                                                    *)
DropReference(c) ==
    /\ token[c] = "dropping"
    /\ token' = [token EXCEPT ![c] = "idle"]
    /\ UNCHANGED <<shop, attempt, refunding, braintree, refunds, history>>

(* The server is configured for another environment and starts again. *)
SwitchEnvironment ==
    /\ AtWork = {} /\ \A a \in Admins : refunding[a].pc = "idle"
    /\ \A c \in Clients : token[c] = "idle"
    /\ Fault
    /\ known' = {} /\ switched' = TRUE
    /\ UNCHANGED <<shop, attempt, token, refunding, made, charged, methods, refunds, lost,
                   overlapped>>

-----------------------------------------------------------------------------
(* createRefund *)

(* Vendure asks for no more than its own books leave. *)
AskRefund(a, p) ==
    /\ refunding[a].pc = "idle" /\ booked[p] = "Settled"
    /\ \E n \in 1..Amount - refunds[p].shop :
           refunding' = [refunding EXCEPT ![a] = [pc |-> "ask", payment |-> p, amount |-> n]]
    /\ UNCHANGED <<shop, attempt, token, braintree, refunds, history>>

RefundedSoFar(a) == refunds[refunding[a].payment]

RefundedIs(a, sums) == refunds' = [refunds EXCEPT ![refunding[a].payment] = sums]

(* Braintree gives back no more than it took. *)
CanRefund(a) ==
    RefundedSoFar(a).braintree + refunding[a].amount <= Amount

MakeRefund(a) ==
    /\ refunding[a].pc = "ask" /\ CanRefund(a)
    /\ RefundedIs(a, [RefundedSoFar(a) EXCEPT !.braintree = @ + refunding[a].amount])
    /\ refunding' = [refunding EXCEPT ![a].pc = "book"]
    /\ UNCHANGED <<shop, attempt, token, braintree, history>>

(* Mutant: response.success is not looked at. *)
RefundRefusedUnnoticed(a) ==
    /\ refunding[a].pc = "ask"
    /\ refunding' = [refunding EXCEPT ![a].pc = "book"]
    /\ UNCHANGED <<shop, attempt, token, braintree, refunds, history>>

(* A refund in state Failed, which counts for nothing. *)
RefundRefused(a) ==
    /\ refunding[a].pc = "ask"
    /\ refunding' = [refunding EXCEPT ![a] = NoRefund]
    /\ UNCHANGED <<shop, attempt, token, braintree, refunds, history>>

BookRefund(a) ==
    /\ refunding[a].pc = "book"
    /\ RefundedIs(a, [RefundedSoFar(a) EXCEPT !.shop = @ + refunding[a].amount])
    /\ refunding' = [refunding EXCEPT ![a] = NoRefund]
    /\ UNCHANGED <<shop, attempt, token, braintree, history>>

(* The answer is lost, or the transaction of a refund is rolled back. *)
RefundBreaks(a) ==
    /\ Fault
    /\ \/ /\ refunding[a].pc = "ask" /\ CanRefund(a)
          /\ RefundedIs(a, [RefundedSoFar(a) EXCEPT !.braintree = @ + refunding[a].amount,
                                                   !.lost = @ + refunding[a].amount])
       \/ /\ refunding[a].pc = "book"
          /\ RefundedIs(a, [RefundedSoFar(a) EXCEPT !.lost = @ + refunding[a].amount])
    /\ refunding' = [refunding EXCEPT ![a] = NoRefund]
    /\ UNCHANGED <<shop, attempt, token, braintree, lost, overlapped, switched>>

-----------------------------------------------------------------------------
Pay(p) ==
    \/ StartPayment(p) \/ HydrateFails(p)
    \/ CreateRecord(p) \/ CreateRecordFails(p) \/ SaveCustomer(p) \/ SaveFails(p)
    \/ Sale(p) \/ SaleDeclined(p) \/ SaleBreaks(p) \/ BookPayment(p) \/ RollBack(p)

GiveBack(a) == MakeRefund(a) \/ RefundRefused(a) \/ BookRefund(a) \/ RefundBreaks(a)

Next ==
    \/ \E p \in Payments : Pay(p) \/ \E a \in Admins : AskRefund(a, p)
    \/ \E a \in Admins : GiveBack(a)
    \/ \E c \in Clients : AskToken(c) \/ DropReference(c)
    \/ SwitchEnvironment

Spec == Init /\ [][Next]_vars

-----------------------------------------------------------------------------
(* Properties *)

(* What a customer paid with is offered again: it is stored under the id   *)
(* the shop has, unless two payments overlapped (then the id saved last    *)
(* wins), the payment was rolled back, or the environment was switched.    *)
StoredMethodsAreOffered ==
    \A m \in methods :
        \/ m[2] = reference \/ m[1] \in overlapped \/ m[1] \in lost \/ m[2] \notin known
        \/ attempt[m[1]].pc = "book" /\ attempt[m[1]].wrote

InFlight(p) ==
    MapThenSumSet(LAMBDA a : refunding[a].amount,
                  {a \in Admins : refunding[a].pc = "book" /\ refunding[a].payment = p})

(* Two refunds at a time, or one made again because its answer was lost,   *)
(* leave the shop with what Braintree gave back, but for what was lost.    *)
RefundsAreBooked ==
    \A p \in Payments :
        refunds[p].braintree = refunds[p].shop + refunds[p].lost + InFlight(p)

Books == INSTANCE PaymentBooks
    WITH Pids <- Payments,
         charge <- [p \in Payments |-> IF p \in charged THEN "taken" ELSE "none"],
         booked <- [p \in Payments |-> IF booked[p] = "Settled" THEN "settled" ELSE "none"]

(* The plugin keeps the books as PaymentBooks promises. *)
KeepsTheBooks == Books!Spec
=============================================================================
