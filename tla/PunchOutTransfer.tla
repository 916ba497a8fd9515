-------------------------- MODULE PunchOutTransfer --------------------------
(***************************************************************************)
(* punchout-gateway-plugin: carts of PunchOut sessions and their transfer. *)
(*                                                                         *)
(* A request of the storefront names the session it is for.  The active    *)
(* order of a session is looked for and, if there is none, created         *)
(* (PunchOutActiveOrderStrategy); transferPunchOutCart reads it, posts its *)
(* basket to the gateway, moves it to Transferred and takes it out of use  *)
(* (PunchOutGatewayService.transferCart).  A mutation of Vendure's shop is *)
(* one transaction that finds the order, reads it again to check it, and   *)
(* at its end commits; the activeOrder query and the transfer run without  *)
(* one, so that each of their writes counts at once and the next may never *)
(* come.  Nothing locks an order between the check and the save.           *)
(*                                                                         *)
(* Abstractions: one channel; a line is an item and, for the properties,   *)
(* the session of the request that added it; orders are never paid in the  *)
(* shop.  Vendure is external: whether a save of an order writes only what *)
(* changed or its whole row as it was read is left open.                   *)
(***************************************************************************)
EXTENDS Naturals, Sequences, FiniteSets

CONSTANTS
    Users,
    Sessions,
    Items,
    Fees,                \* what shipping may cost
    ShippingCostMode,    \* option shippingCostMode
    Requests,            \* requests the server handles at a time
    Anonymous,           \* a request without a user
    NoSession,           \* an order that has not been given its session
    MaxOrders,           \* bound on orders
    MaxEdits,            \* bound on changes to lines, shipping and state
    MaxCrashes           \* bound on requests that are cut off

ASSUME ConstantsAssumption ==
    /\ Anonymous \notin Users /\ NoSession \notin Sessions
    /\ Fees \subseteq Nat /\ \E f \in Fees : \A g \in Fees : f <= g
    /\ ShippingCostMode \in {"all", "nonZero", "none"}
    /\ {MaxOrders, MaxEdits, MaxCrashes} \subseteq Nat

VARIABLES
    orders,      \* the orders, by number
    linked,      \* the users whose customer has a punchOutUid
    loggedIn,    \* the users with a session in the shop
    request,     \* what each request is at
    received,    \* the baskets the gateway took
    confirmed,   \* the orders a transfer called a success without reserve
    touched,     \* the orders edited while, or after, a transfer had read them
    overruled,   \* the orders saved by the storefront after a transfer's check
    stranded,    \* the orders whose transfer was cut off before its last save
    edits,       \* changes so far
    crashes      \* requests cut off so far

history == <<touched, overruled, stranded>>
vars == <<orders, linked, loggedIn, request, received, confirmed, history, edits, crashes>>

-----------------------------------------------------------------------------
(* Orders and baskets *)

Line == Items \X Sessions

Order == [state : {"AddingItems", "ArrangingPayment", "Transferred"},
          active : BOOLEAN,
          session : Sessions \cup {NoSession},
          user : Users \cup {Anonymous},
          lines : SUBSET Line,
          shipping : Fees]

(* The row of an order; its lines are rows of their own. *)
Row == {order \in Order : order.lines = {}}

Basket == [order : 1..MaxOrders, session : Sessions, lines : SUBSET Line,
           shipping : SUBSET Fees]

NewOrder(u, s) ==
    [state |-> "AddingItems", active |-> TRUE, session |-> s, user |-> u,
     lines |-> {}, shipping |-> CHOOSE f \in Fees : \A g \in Fees : f <= g]

(* Mutant: an order of the same user will do, whatever its session. *)
ActiveOrdersOfUser(s, u) ==
    {o \in DOMAIN orders :
        orders[o].active /\ (u # Anonymous => orders[o].user = u)}

(* The query of determineActiveOrder: without a user, of any user. *)
ActiveOrders(s, u) ==
    {o \in DOMAIN orders :
        /\ orders[o].session = s
        /\ orders[o].active
        /\ u # Anonymous => orders[o].user = u}

(* The query of transferCart looks at no user. *)
OrdersToTransfer(s) ==
    {o \in DOMAIN orders : orders[o].session = s /\ orders[o].active}

(* The shipping position of transformOrderToBasket, if there is one. *)
ShippingPositions(order) ==
    IF ShippingCostMode = "all" \/ (ShippingCostMode = "nonZero" /\ order.shipping > 0)
    THEN {order.shipping}
    ELSE {}

(* transformOrderToBasket *)
ToBasket(o, s) ==
    [order |-> o, session |-> s, lines |-> orders[o].lines,
     shipping |-> ShippingPositions(orders[o])]

-----------------------------------------------------------------------------
(* Requests *)

Idle == [pc |-> "idle"]

Request ==
    {Idle}
    \cup [pc : {"editing"}, user : Users \cup {Anonymous}, session : Sessions,
          order : 0..MaxOrders]
    \cup [pc : {"creating"}, user : Users, session : Sessions]
    \cup [pc : {"tagging"}, session : Sessions, order : 1..MaxOrders]
    \cup [pc : {"saving", "moving"}, session : Sessions, order : 1..MaxOrders, read : Row]
    \cup [pc : {"posting", "accepted"}, basket : Basket]
    \cup [pc : {"checked", "closing"}, basket : Basket, read : Row]

Become(r, q) == request' = [request EXCEPT ![r] = q]

(* A transfer of o is between reading its basket and its last save. *)
InTransfer(o) ==
    \E r \in Requests : /\ request[r].pc \in {"posting", "accepted", "checked", "closing"}
                        /\ request[r].basket.order = o

(* A transfer of o has found it in AddingItems and is to save it. *)
InTransition(o) ==
    \E r \in Requests : /\ request[r].pc \in {"checked", "closing"}
                        /\ request[r].basket.order = o

Callers == loggedIn \cup {Anonymous}

TypeOK ==
    /\ orders \in Seq(Order) /\ Len(orders) <= MaxOrders
    /\ linked \subseteq Users /\ loggedIn \subseteq Users
    /\ request \in [Requests -> Request]
    /\ received \subseteq Basket
    /\ {confirmed, touched, overruled, stranded} \subseteq SUBSET DOMAIN orders
    /\ edits \in 0..MaxEdits /\ crashes \in 0..MaxCrashes
    /\ \A r \in Requests :
           \/ request[r].pc \notin {"editing", "tagging", "saving", "moving"}
           \/ request[r].order \in 0..Len(orders)
    /\ \A o \in 1..MaxOrders : InTransfer(o) => o \in DOMAIN orders

-----------------------------------------------------------------------------
(* Users *)

(* authenticate, once the gateway has confirmed the session. *)
Authenticate(u) ==
    /\ u \in linked \ loggedIn
    /\ loggedIn' = loggedIn \cup {u}
    /\ UNCHANGED <<orders, linked, request, received, confirmed, history,
                   edits, crashes>>

(* An administrator sets or removes punchOutUid. *)
LinkOrUnlink(u) ==
    /\ edits < MaxEdits
    /\ linked' = IF u \in linked THEN linked \ {u} ELSE linked \cup {u}
    /\ edits' = edits + 1
    /\ UNCHANGED <<orders, loggedIn, request, received, confirmed, history,
                   crashes>>

-----------------------------------------------------------------------------
(* The active order *)

(* The activeOrder query: finds an order and leaves it alone, or will create *)
(* one; only for a customer with a punchOutUid.                            *)
QueryActiveOrder(r, s, u) ==
    /\ request[r].pc = "idle" /\ u \in loggedIn \cap linked
    /\ ActiveOrders(s, u) = {}
    /\ Become(r, [pc |-> "creating", user |-> u, session |-> s])
    /\ UNCHANGED <<orders, linked, loggedIn, received, confirmed, history,
                   edits, crashes>>

(* createActiveOrder of a query: the order is saved, its session later. *)
CreateOrder(r) ==
    /\ request[r].pc = "creating" /\ Len(orders) < MaxOrders
    /\ orders' = Append(orders, NewOrder(request[r].user, NoSession))
    /\ Become(r, [pc |-> "tagging", session |-> request[r].session,
                  order |-> Len(orders) + 1])
    /\ UNCHANGED <<linked, loggedIn, received, confirmed, history, edits, crashes>>

TagOrder(r) ==
    /\ request[r].pc = "tagging"
    /\ orders' = [orders EXCEPT ![request[r].order].session = request[r].session]
    /\ Become(r, Idle)
    /\ UNCHANGED <<linked, loggedIn, received, confirmed, history, edits, crashes>>

(* A mutation of the shop (addItemToOrder, adjustOrderLine, ...) finds the *)
(* order it is for; 0 if it will create one.                               *)
StartEdit(r, s, u) ==
    /\ request[r].pc = "idle" /\ u \in Callers
    /\ edits < MaxEdits
    /\ \E o \in IF ActiveOrders(s, u) = {} THEN {0} ELSE ActiveOrders(s, u) :
           Become(r, [pc |-> "editing", user |-> u, session |-> s, order |-> o])
    /\ UNCHANGED <<orders, linked, loggedIn, received, confirmed, history,
                   edits, crashes>>

(* A save that finds o being transferred, or transferred already. *)
Touch(o, after) ==
    touched' = IF /\ InTransfer(o) \/ orders[o].state = "Transferred"
                  /\ \/ after.lines # orders[o].lines
                     \/ after.shipping # orders[o].shipping
               THEN touched \cup {o}
               ELSE touched

Overrule(o) ==
    overruled' = IF InTransition(o) \/ orders[o].state = "Transferred"
                 THEN overruled \cup {o}
                 ELSE overruled

(* What Vendure asks of an order before it changes its lines or shipping. *)
AcceptsEdits(order) == order.state = "AddingItems"

(* The edits of an order: a line more or less, another way of shipping. *)
Edits(order, s) ==
    {[order EXCEPT !.lines = @ \cup {<<i, s>>}] : i \in Items}
    \cup {[order EXCEPT !.lines = @ \ {l}] : l \in order.lines}
    \cup {[order EXCEPT !.shipping = f] : f \in Fees}

(* What a save of an order read as "read" starts from (external): the      *)
(* order as it is now, of which only the change is written, or its row as  *)
(* it was read, which is written whole.                                    *)
SavedOver(o, read) == {orders[o], [read EXCEPT !.lines = orders[o].lines]}

RowOf(o) == [orders[o] EXCEPT !.lines = {}]

(* Vendure reads the order again and finds that it may be changed. *)
CheckEdit(r) ==
    LET q == request[r]
    IN  /\ q.pc = "editing" /\ q.order # 0
        /\ AcceptsEdits(orders[q.order])
        /\ Become(r, [pc |-> "saving", session |-> q.session, order |-> q.order,
                      read |-> RowOf(q.order)])
        /\ UNCHANGED <<orders, linked, loggedIn, received, confirmed, history, edits, crashes>>

(* The mutation commits, whatever became of the order meanwhile. *)
CommitEdit(r) ==
    LET q == request[r]
    IN  /\ q.pc = "saving" /\ edits < MaxEdits
        /\ \E base \in SavedOver(q.order, q.read) :
             \E after \in Edits(base, q.session) :
                 /\ orders' = [orders EXCEPT ![q.order] = after]
                 /\ Touch(q.order, after)
        /\ Overrule(q.order)
        /\ edits' = edits + 1
        /\ Become(r, Idle)
        /\ UNCHANGED <<linked, loggedIn, received, confirmed, stranded, crashes>>

(* Without an order to edit, the mutation makes one with the new line. *)
CommitNewOrder(r) ==
    LET q == request[r]
    IN  /\ q.pc = "editing" /\ q.order = 0
        /\ edits < MaxEdits /\ Len(orders) < MaxOrders
        /\ \E i \in Items :
               orders' = Append(orders, [NewOrder(q.user, q.session) EXCEPT
                                             !.lines = {<<i, q.session>>}])
        /\ edits' = edits + 1
        /\ Become(r, Idle)
        /\ UNCHANGED <<linked, loggedIn, received, confirmed, history, crashes>>

(* The storefront takes an order to checkout, or back: the state machine   *)
(* agrees, and the new state is saved.                                     *)
CheckMove(r) ==
    LET q == request[r]
    IN  /\ q.pc = "editing" /\ q.order # 0
        /\ \/ orders[q.order].state = "AddingItems" /\ orders[q.order].lines # {}
           \/ orders[q.order].state = "ArrangingPayment"
        /\ Become(r, [pc |-> "moving", session |-> q.session, order |-> q.order,
                      read |-> RowOf(q.order)])
        /\ UNCHANGED <<orders, linked, loggedIn, received, confirmed, history, edits, crashes>>

CheckoutOrBack(r) ==
    LET q  == request[r]
        to == IF q.read.state = "AddingItems" THEN "ArrangingPayment" ELSE "AddingItems"
    IN  /\ q.pc = "moving" /\ edits < MaxEdits
        /\ \E base \in SavedOver(q.order, q.read) :
               LET after == [base EXCEPT !.state = to]
               IN  /\ orders' = [orders EXCEPT ![q.order] = after]
                   /\ Touch(q.order, after)
        /\ Overrule(q.order)
        /\ edits' = edits + 1
        /\ Become(r, Idle)
        /\ UNCHANGED <<linked, loggedIn, received, confirmed, stranded, crashes>>

(* Vendure refuses the edit, or it fails: the transaction is rolled back.  *)
RefuseEdit(r) ==
    /\ request[r].pc \in {"editing", "saving", "moving"}
    /\ Become(r, Idle)
    /\ UNCHANGED <<orders, linked, loggedIn, received, confirmed, history,
                   edits, crashes>>

-----------------------------------------------------------------------------
(* The transfer *)

(* Mutant: whether an order was found is not looked at. *)
StartUnfoundTransfer(r, s, u) ==
    /\ request[r].pc = "idle" /\ u \in loggedIn
    /\ OrdersToTransfer(s) = {}
    /\ Become(r, [pc |-> "posting",
                  basket |-> [order |-> 0, session |-> s, lines |-> {}, shipping |-> {}]])
    /\ UNCHANGED <<orders, linked, loggedIn, received, confirmed, history,
                   edits, crashes>>

(* transferCart finds an order of the session, any if there are several,   *)
(* and goes on if it belongs to the user who asks.                         *)
StartTransfer(r, s, u) ==
    /\ request[r].pc = "idle" /\ u \in loggedIn
    /\ \E o \in OrdersToTransfer(s) :
           /\ orders[o].user = u
           /\ Become(r, [pc |-> "posting", basket |-> ToBasket(o, s)])
    /\ UNCHANGED <<orders, linked, loggedIn, received, confirmed, history,
                   edits, crashes>>

(* The gateway takes the basket and says so. *)
PostBasket(r) ==
    /\ request[r].pc = "posting"
    /\ received' = received \cup {request[r].basket}
    /\ Become(r, [request[r] EXCEPT !.pc = "accepted"])
    /\ UNCHANGED <<orders, linked, loggedIn, confirmed, history, edits, crashes>>

(* Mutant: the answer of the gateway is not looked at. *)
PostFailsUnnoticed(r) ==
    /\ request[r].pc = "posting"
    /\ \/ received' = received \cup {request[r].basket}
       \/ UNCHANGED received
    /\ Become(r, [request[r] EXCEPT !.pc = "accepted"])
    /\ UNCHANGED <<orders, linked, loggedIn, confirmed, history, edits, crashes>>

(* It takes the basket but its answer is lost, it refuses, or it is not    *)
(* reached: the transfer is a failure.                                     *)
PostFails(r) ==
    /\ request[r].pc = "posting"
    /\ \/ received' = received \cup {request[r].basket}
       \/ UNCHANGED received
    /\ Become(r, Idle)
    /\ UNCHANGED <<orders, linked, loggedIn, confirmed, history, edits, crashes>>

(* transitionToState: the order is read and its state checked; the new     *)
(* state is saved; onTransitionEnd is still to come.                       *)
CheckTransition(r) ==
    /\ request[r].pc = "accepted"
    /\ LET q == request[r]
       IN  /\ orders[q.basket.order].state = "AddingItems"
           /\ Become(r, [pc |-> "checked", basket |-> q.basket,
                         read |-> RowOf(q.basket.order)])
    /\ UNCHANGED <<orders, linked, loggedIn, received, confirmed, history, edits, crashes>>

Transition(r) ==
    /\ request[r].pc = "checked"
    /\ LET q == request[r]
       IN  /\ \E base \in SavedOver(q.basket.order, q.read) :
                  orders' = [orders EXCEPT ![q.basket.order] =
                                [base EXCEPT !.state = "Transferred"]]
           /\ Become(r, [pc |-> "closing", basket |-> q.basket,
                         read |-> [q.read EXCEPT !.state = "Transferred"]])
    /\ UNCHANGED <<linked, loggedIn, received, confirmed, history, edits, crashes>>

(* Mutant: an error of the transition counts as a transfer. *)
TransitionErrorIgnored(r) ==
    /\ request[r].pc = "accepted"
    /\ orders[request[r].basket.order].state # "AddingItems"
    /\ confirmed' = confirmed \cup {request[r].basket.order}
    /\ Become(r, Idle)
    /\ UNCHANGED <<orders, linked, loggedIn, received, history, edits,
                   crashes>>

(* "Cart transferred but order could not be finalized" *)
TransitionFails(r) ==
    /\ request[r].pc = "accepted"
    /\ orders[request[r].basket.order].state # "AddingItems"
    /\ Become(r, Idle)
    /\ UNCHANGED <<orders, linked, loggedIn, received, confirmed, history,
                   edits, crashes>>

(* Mutant: onTransitionEnd leaves the order in use. *)
CloseNothing(r) ==
    /\ request[r].pc = "closing"
    /\ Become(r, Idle)
    /\ UNCHANGED <<orders, linked, loggedIn, received, confirmed, history,
                   edits, crashes>>

(* onTransitionEnd, and the last save. *)
Close(r) ==
    LET o == request[r].basket.order
    IN  /\ request[r].pc = "closing"
        /\ \E base \in SavedOver(o, request[r].read) :
               orders' = [orders EXCEPT ![o] = [base EXCEPT !.active = FALSE]]
        /\ confirmed' = confirmed \cup {o}
        /\ Become(r, Idle)
        /\ UNCHANGED <<linked, loggedIn, received, history, edits, crashes>>

(* The server stops, or the database refuses the next step. *)
CutOff(r) ==
    /\ crashes < MaxCrashes
    /\ request[r].pc \in {"tagging", "posting", "accepted", "checked", "closing"}
    /\ stranded' = IF request[r].pc = "closing"
                   THEN stranded \cup {request[r].basket.order}
                   ELSE stranded
    /\ Become(r, Idle)
    /\ crashes' = crashes + 1
    /\ UNCHANGED <<orders, linked, loggedIn, received, confirmed, touched, overruled,
                   edits>>

-----------------------------------------------------------------------------
Init ==
    /\ orders = <<>>
    /\ linked \in SUBSET Users /\ loggedIn = {}
    /\ request = [r \in Requests |-> Idle]
    /\ received = {} /\ confirmed = {} /\ touched = {} /\ overruled = {} /\ stranded = {}
    /\ edits = 0 /\ crashes = 0

Step(r) ==
    \/ CreateOrder(r) \/ TagOrder(r)
    \/ CheckEdit(r) \/ CommitEdit(r) \/ CommitNewOrder(r)
    \/ CheckMove(r) \/ CheckoutOrBack(r) \/ RefuseEdit(r)
    \/ PostBasket(r) \/ PostFails(r)
    \/ CheckTransition(r) \/ Transition(r) \/ TransitionFails(r) \/ Close(r)

Next ==
    \/ \E u \in Users : Authenticate(u) \/ LinkOrUnlink(u)
    \/ \E r \in Requests, s \in Sessions :
           \/ \E u \in Users : QueryActiveOrder(r, s, u) \/ StartTransfer(r, s, u)
           \/ \E u \in Users \cup {Anonymous} : StartEdit(r, s, u)
    \/ \E r \in Requests : Step(r) \/ CutOff(r)

Spec == Init /\ [][Next]_vars

-----------------------------------------------------------------------------
(* Properties *)

ShippingPaid(b) == IF b.shipping = {} THEN 0 ELSE CHOOSE f \in b.shipping : TRUE

(* What the shop has closed the gateway has: of every order in Transferred *)
(* it took a basket under the order's session, one of just its lines and   *)
(* its shipping, whatever was saved over the order and however stale it    *)
(* was.  Left out are orders whose lines or shipping were changed after a  *)
(* transfer had read them, which nothing in the code prevents.             *)
HandedOver ==
    \A o \in DOMAIN orders : orders[o].state = "Transferred" =>
        \E b \in received :
            /\ b.order = o /\ b.session = orders[o].session
            /\ o \notin touched =>
                   /\ b.lines = orders[o].lines
                   /\ ShippingCostMode # "none" => ShippingPaid(b) = orders[o].shipping

(* Parallel sessions of one user do not mix: an order and a basket have    *)
(* only lines that requests of their own session added, though orders are  *)
(* created without their session, found by one step and changed by a later *)
(* one.                                                                    *)
CartsAreIsolated ==
    /\ \A o \in DOMAIN orders : \A l \in orders[o].lines : l[2] = orders[o].session
    /\ \A b \in received : \A l \in b.lines : l[2] = b.session

(* When a transfer answers success without reserve, its order is and stays *)
(* in Transferred, through second transfers and sessions, unless a request *)
(* of the storefront that had read it before saved it afterwards.          *)
SuccessIsTrue ==
    \A o \in confirmed \ overruled : orders[o].state = "Transferred"

(* An order in Transferred goes out of use: if it is still active, either  *)
(* a transfer is about to close it, or one was cut off between its two     *)
(* saves.  No other mixture of transfers, edits and moves, each saving     *)
(* what it read before, leaves such an order, which every later request of *)
(* the session would find and fail on.                                     *)
TransferCloses ==
    \A o \in DOMAIN orders :
        (orders[o].state = "Transferred" /\ orders[o].active) =>
            \/ o \in stranded
            \/ \E r \in Requests : /\ request[r].pc = "closing"
                                   /\ request[r].basket.order = o
=============================================================================
