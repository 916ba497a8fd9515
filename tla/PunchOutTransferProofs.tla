----------------------- MODULE PunchOutTransferProofs -----------------------
(***************************************************************************)
(* What PunchOutTransfer promises, proved for any number of users,         *)
(* sessions, requests and orders.                                          *)
(*                                                                         *)
(* CartInv says of each request at work that what it holds fits the order  *)
(* it will write to, however that was saved over since: an order keeps its *)
(* session once it has one, and what a transfer read stays true of it      *)
(* until the order is touched or overruled.                                *)
(***************************************************************************)
EXTENDS PunchOutTransfer, SequenceTheorems, TLAPS

Underway == {"posting", "accepted", "checked", "closing"}

Checked == {"checked", "closing"}

Asking == {"saving", "moving"}

LinesAreOf(lines, s) == \A l \in lines : l[2] = s

Shows(b, o) == b.lines = orders[o].lines /\ b.shipping = ShippingPositions(orders[o])

(* The basket is one of its order, of just that order unless it was edited. *)
BasketFits(b) ==
    /\ b.order \in DOMAIN orders /\ b.session = orders[b.order].session
    /\ LinesAreOf(b.lines, b.session)
    /\ b.order \notin touched => Shows(b, b.order)

(* The row a transfer read is of its order, too. *)
ReadFits(read, b) ==
    /\ read.session = b.session
    /\ b.order \notin touched => read.shipping = orders[b.order].shipping

(* What a request holds fits the orders. *)
Fits(q) ==
    /\ q.pc = "editing" => /\ q.order \in 0..Len(orders)
                           /\ q.order # 0 => orders[q.order].session = q.session
    /\ q.pc = "tagging" => /\ q.order \in DOMAIN orders
                           /\ orders[q.order].session = NoSession
    /\ q.pc \in Asking => /\ q.order \in DOMAIN orders
                          /\ orders[q.order].session = q.session
                          /\ q.read.session = q.session /\ q.read.state # "Transferred"
    /\ q.pc \in Underway => BasketFits(q.basket)
    /\ q.pc \in Underway \ {"posting"} => q.basket \in received
    /\ q.pc \in Checked => ReadFits(q.read, q.basket)
    /\ q.pc = "closing" => /\ q.read.state = "Transferred"
                           /\ \/ orders[q.basket.order].state = "Transferred"
                              \/ q.basket.order \in overruled

(* The gateway took the order, as HandedOver wants it. *)
Taken(o) ==
    \E b \in received : /\ b.order = o /\ b.session = orders[o].session
                        /\ o \notin touched => Shows(b, o)

OrderFits(o) ==
    /\ LinesAreOf(orders[o].lines, orders[o].session)
    /\ orders[o].session = NoSession => orders[o].lines = {} /\ orders[o].state = "AddingItems"
    /\ orders[o].state = "Transferred" => Taken(o)

TagsAlone ==
    \A r, q \in Requests :
        /\ request[r].pc = "tagging" /\ request[q].pc = "tagging"
        /\ request[r].order = request[q].order
        => r = q

CartInv ==
    /\ TypeOK
    /\ \A r \in Requests : Fits(request[r])
    /\ TagsAlone
    /\ \A o \in DOMAIN orders : OrderFits(o)
    /\ \A b \in received : LinesAreOf(b.lines, b.session)
    /\ SuccessIsTrue /\ TransferCloses

-----------------------------------------------------------------------------
(* Types *)

(* What a request holds is typed by its pc. *)
LEMMA RequestTyped ==
    ASSUME TypeOK, NEW r \in Requests
    PROVE  /\ request[r].pc \in {"idle", "editing", "creating", "tagging"} \cup Asking \cup Underway
           /\ request[r].pc = "editing" =>
                  /\ request[r].user \in Users \cup {Anonymous}
                  /\ request[r].session \in Sessions /\ request[r].order \in 0..MaxOrders
           /\ request[r].pc = "creating" =>
                  request[r].user \in Users /\ request[r].session \in Sessions
           /\ request[r].pc = "tagging" =>
                  request[r].session \in Sessions /\ request[r].order \in 1..MaxOrders
           /\ request[r].pc \in Asking =>
                  /\ request[r].session \in Sessions /\ request[r].order \in 1..MaxOrders
                  /\ request[r].read \in Row
           /\ request[r].pc \in Underway => request[r].basket \in Basket
           /\ request[r].pc \in Checked => request[r].read \in Row
BY DEF TypeOK, Request, Idle, Underway, Asking, Checked

(* A transfer goes on with the basket it has. *)
LEMMA RequestMoves ==
    ASSUME TypeOK, NEW r \in Requests, request[r].pc = "posting"
    PROVE  /\ [request[r] EXCEPT !.pc = "accepted"] \in Request
           /\ [request[r] EXCEPT !.pc = "accepted"].pc = "accepted"
           /\ [request[r] EXCEPT !.pc = "accepted"].basket = request[r].basket
<1>1. request[r] \in [pc : {"posting", "accepted"}, basket : Basket]
  BY DEF TypeOK, Request, Idle
<1>2. [request[r] EXCEPT !.pc = "accepted"] = [pc |-> "accepted", basket |-> request[r].basket]
  BY <1>1
<1> QED
  BY <1>1, <1>2 DEF Request

(* Orders are numbered from 1. *)
LEMMA OrderTyped ==
    ASSUME TypeOK, NEW o \in DOMAIN orders
    PROVE  /\ orders[o] \in Order /\ o \in 1..Len(orders)
           /\ Len(orders) \in Nat /\ Len(orders) <= MaxOrders /\ o \in 1..MaxOrders
<1>1. orders \in Seq(Order) /\ Len(orders) <= MaxOrders /\ MaxOrders \in Nat
  BY ConstantsAssumption DEF TypeOK
<1>2. Len(orders) \in Nat /\ DOMAIN orders = 1..Len(orders) /\ orders \in [1..Len(orders) -> Order]
  BY <1>1, LenProperties
<1> QED
  BY <1>1, <1>2

(* A fitting request keeps what TypeOK says of the orders it names. *)
LEMMA FitsTyped ==
    ASSUME orders \in Seq(Order), Len(orders) <= MaxOrders, request \in [Requests -> Request],
           \A r \in Requests : Fits(request[r])
    PROVE  /\ \A r \in Requests :
                  \/ request[r].pc \notin {"editing", "tagging", "saving", "moving"}
                  \/ request[r].order \in 0..Len(orders)
           /\ \A o \in 1..MaxOrders : InTransfer(o) => o \in DOMAIN orders
<1>1. Len(orders) \in Nat /\ DOMAIN orders = 1..Len(orders)
  BY LenProperties
<1> QED
  BY <1>1 DEF Fits, InTransfer, Underway, Asking, BasketFits

(* What an order becomes when it is changed. *)
LEMMA OrderChanges ==
    ASSUME TypeOK, NEW o \in DOMAIN orders, NEW e \in Order, orders' = [orders EXCEPT ![o] = e]
    PROVE  /\ orders' \in Seq(Order) /\ Len(orders') = Len(orders)
           /\ DOMAIN orders' = DOMAIN orders
           /\ orders'[o] = e /\ \A k \in DOMAIN orders \ {o} : orders'[k] = orders[k]
<1>1. orders \in Seq(Order) /\ o \in 1..Len(orders) /\ DOMAIN orders = 1..Len(orders)
  BY OrderTyped, LenProperties DEF TypeOK
<1>2. /\ orders' \in Seq(Order) /\ Len(orders') = Len(orders)
      /\ \A j \in 1..Len(orders) : orders'[j] = IF j = o THEN e ELSE orders[j]
  BY <1>1, ExceptSeq
<1>3. DOMAIN orders' = 1..Len(orders')
  BY <1>2, LenProperties
<1> QED
  BY <1>1, <1>2, <1>3

(* What the orders become when there is one more. *)
LEMMA OrdersGrow ==
    ASSUME TypeOK, NEW e \in Order, orders' = Append(orders, e)
    PROVE  /\ orders' \in Seq(Order) /\ Len(orders') = Len(orders) + 1
           /\ DOMAIN orders' = DOMAIN orders \cup {Len(orders) + 1}
           /\ Len(orders) + 1 \notin DOMAIN orders
           /\ orders'[Len(orders) + 1] = e
           /\ \A k \in DOMAIN orders : orders'[k] = orders[k]
<1>1. orders \in Seq(Order) /\ Len(orders) \in Nat /\ DOMAIN orders = 1..Len(orders)
  BY LenProperties DEF TypeOK
<1>2. /\ orders' \in Seq(Order) /\ Len(orders') = Len(orders) + 1
      /\ \A i \in 1..Len(orders) : orders'[i] = orders[i]
      /\ orders'[Len(orders) + 1] = e
  BY <1>1, AppendProperties
<1>3. DOMAIN orders' = 1..Len(orders')
  BY <1>2, LenProperties
<1>4. 1..(Len(orders) + 1) = 1..Len(orders) \cup {Len(orders) + 1}
  BY <1>1
<1> QED
  BY <1>1, <1>2, <1>3, <1>4

(* A new order has no lines. *)
LEMMA NewOrderTyped ==
    ASSUME NEW u \in Users \cup {Anonymous}, NEW s \in Sessions \cup {NoSession}
    PROVE  /\ NewOrder(u, s) \in Order
           /\ NewOrder(u, s).session = s /\ NewOrder(u, s).lines = {}
           /\ NewOrder(u, s).state = "AddingItems" /\ NewOrder(u, s).active
<1> DEFINE fee == CHOOSE f \in Fees : \A g \in Fees : f <= g
<1>1. fee \in Fees
  BY ConstantsAssumption
<1>2. NewOrder(u, s) = [state |-> "AddingItems", active |-> TRUE, session |-> s, user |-> u,
                        lines |-> {}, shipping |-> fee]
  BY DEF NewOrder
<1> HIDE DEF fee
<1> QED
  BY <1>1, <1>2 DEF Order

(* What a request holds still fits after a step that takes no session from *)
(* an order, and touches the order if its lines or its shipping change.    *)
LEMMA StillFits ==
    ASSUME TypeOK, NEW q \in Request, Fits(q),
           orders' \in Seq(Order), DOMAIN orders \subseteq DOMAIN orders',
           Len(orders) <= Len(orders'),
           received \subseteq received', touched \subseteq touched',
           overruled \subseteq overruled',
           \A o \in DOMAIN orders :
               orders[o].session # NoSession => orders'[o].session = orders[o].session,
           q.pc = "tagging" => orders'[q.order].session = orders[q.order].session,
           q.pc \in Underway =>
               LET o == q.basket.order
               IN  \/ o \in touched'
                   \/ orders'[o].lines = orders[o].lines /\ orders'[o].shipping = orders[o].shipping,
           q.pc = "closing" =>
               LET o == q.basket.order
               IN  o \in overruled' \/ orders'[o].state \in {orders[o].state, "Transferred"}
    PROVE  Fits(q)'
<1>1. /\ Len(orders) \in Nat /\ DOMAIN orders = 1..Len(orders)
      /\ Len(orders') \in Nat /\ DOMAIN orders' = 1..Len(orders')
  BY LenProperties DEF TypeOK
<1>2. q.pc \in {"idle", "editing", "creating", "tagging"} \cup Asking \cup Underway
  BY DEF Request, Idle, Underway, Asking
<1>3. CASE q.pc = "editing"
  <2>1. q.session \in Sessions /\ q.order \in 0..Len(orders)
        /\ (q.order # 0 => orders[q.order].session = q.session)
    BY <1>3 DEF Request, Idle, Fits
  <2>2. q.order \in 0..Len(orders')
    BY <1>1, <2>1
  <2>3. ASSUME q.order # 0 PROVE orders'[q.order].session = q.session
    BY <1>1, <2>1, <2>3, ConstantsAssumption
  <2> QED
    BY <1>3, <2>2, <2>3 DEF Fits, Underway, Asking, Checked
<1>4. CASE q.pc = "tagging"
  BY <1>4 DEF Fits, Underway, Asking, Checked
<1>5. CASE q.pc \in Asking
  <2>1. q.session \in Sessions /\ q.order \in DOMAIN orders
        /\ orders[q.order].session = q.session
        /\ q.read.session = q.session /\ q.read.state # "Transferred"
    BY <1>5 DEF Request, Idle, Asking, Fits
  <2>2. orders'[q.order].session = q.session
    BY <2>1, ConstantsAssumption
  <2> QED
    BY <1>5, <2>1, <2>2 DEF Fits, Underway, Asking, Checked
<1>6. CASE q.pc \in Underway
  <2>1. q.basket \in Basket /\ BasketFits(q.basket) /\ q.basket.session \in Sessions
    BY <1>6 DEF Request, Idle, Underway, Fits, Basket
  <2>2. BasketFits(q.basket)'
    BY <1>6, <2>1, ConstantsAssumption DEF BasketFits, Shows, ShippingPositions
  <2>3. q.pc \in Checked => ReadFits(q.read, q.basket)'
    BY <1>6 DEF Fits, ReadFits, Checked, Underway
  <2>4. q.pc # "posting" => q.basket \in received'
    BY <1>6 DEF Fits
  <2>5. q.pc = "closing" => /\ q.read.state = "Transferred"
                            /\ \/ orders'[q.basket.order].state = "Transferred"
                               \/ q.basket.order \in overruled'
    BY DEF Fits
  <2> QED
    BY <1>6, <2>2, <2>3, <2>4, <2>5 DEF Fits, Underway, Asking
<1> QED
  BY <1>2, <1>3, <1>4, <1>5, <1>6 DEF Fits, Underway, Asking, Checked

-----------------------------------------------------------------------------
(* Steps of a request that write no order *)

(* Only the request, and what the gateway took, change. *)
LEMMA RequestStep ==
    ASSUME CartInv, NEW r \in Requests, NEW q \in Request,
           request' = [request EXCEPT ![r] = q], Fits(q)', q.pc # "tagging",
           UNCHANGED <<orders, touched, overruled, confirmed>>,
           linked' \subseteq Users, loggedIn' \subseteq Users,
           received \subseteq received', received' \subseteq Basket,
           \A b \in received' : LinesAreOf(b.lines, b.session),
           stranded \subseteq stranded', stranded' \subseteq DOMAIN orders,
           request[r].pc = "closing" => request[r].basket.order \in stranded',
           edits' \in 0..MaxEdits, crashes' \in 0..MaxCrashes
    PROVE  CartInv'
<1>1. /\ request' \in [Requests -> Request]
      /\ request'[r] = q /\ \A k \in Requests \ {r} : request'[k] = request[k]
  BY DEF CartInv, TypeOK
<1>2. ASSUME NEW k \in Requests PROVE Fits(request[k])'
  <2>1. CASE k = r
    <3>1. request'[k] = q
      BY <1>1, <2>1
    <3> QED
      BY <3>1 DEF Fits, BasketFits, Shows, ReadFits
  <2>2. CASE k # r
    <3>1. PICK p \in Request : request[k] = p /\ request'[k] = p /\ Fits(p)
      BY <1>1, <2>2 DEF CartInv, TypeOK
    <3>2. Fits(p)'
      BY <3>1, StillFits DEF CartInv, TypeOK
    <3> QED
      BY <3>1, <3>2 DEF Fits, BasketFits, Shows, ReadFits
  <2> QED
    BY <2>1, <2>2
<1>3. TypeOK'
  <2>1. orders' \in Seq(Order) /\ Len(orders') <= MaxOrders
    BY DEF CartInv, TypeOK
  <2>2. /\ \A k \in Requests : \/ request'[k].pc \notin {"editing", "tagging", "saving", "moving"}
                               \/ request'[k].order \in 0..Len(orders')
        /\ \A o \in 1..MaxOrders : InTransfer(o)' => o \in DOMAIN orders'
    BY <1>1, <1>2, <2>1 DEF Fits, InTransfer, Underway, Asking, BasketFits
  <2> QED
    BY <1>1, <2>1, <2>2 DEF CartInv, TypeOK
<1>4. TagsAlone'
  BY <1>1 DEF CartInv, TagsAlone
<1>5. \A o \in DOMAIN orders' : OrderFits(o)'
  BY DEF CartInv, OrderFits, Taken, Shows, ShippingPositions
<1>6. SuccessIsTrue'
  BY DEF CartInv, SuccessIsTrue
<1>7. TransferCloses'
  BY <1>1 DEF CartInv, TransferCloses
<1> QED
  BY <1>2, <1>3, <1>4, <1>5, <1>6, <1>7 DEF CartInv

(* A request ends without a write: Idle fits any orders. *)
LEMMA IdleFits == Idle \in Request /\ Idle.pc = "idle" /\ Fits(Idle)'
BY DEF Request, Idle, Fits, Underway, Asking, Checked

(* A query that found no order will make one. *)
LEMMA QueryActiveOrderStep ==
    ASSUME CartInv, NEW r \in Requests, NEW s \in Sessions, NEW u \in Users,
           QueryActiveOrder(r, s, u)
    PROVE  CartInv'
<1> DEFINE q == [pc |-> "creating", user |-> u, session |-> s]
<1>1. /\ request[r].pc = "idle" /\ request' = [request EXCEPT ![r] = q]
      /\ UNCHANGED <<orders, linked, loggedIn, received, confirmed, touched, overruled,
                     stranded, edits, crashes>>
  BY DEF QueryActiveOrder, Become, history
<1>2. q \in Request /\ Fits(q)' /\ q.pc # "tagging"
  BY DEF Request, Fits, Underway, Asking, Checked
<1> QED
  BY <1>1, <1>2, RequestStep DEF CartInv, TypeOK

(* The order was found by its session. *)
LEMMA StartEditStep ==
    ASSUME CartInv, NEW r \in Requests, NEW s \in Sessions, NEW u \in Users \cup {Anonymous},
           StartEdit(r, s, u)
    PROVE  CartInv'
<1>1. PICK o \in IF ActiveOrders(s, u) = {} THEN {0} ELSE ActiveOrders(s, u) :
          request' = [request EXCEPT ![r] = [pc |-> "editing", user |-> u, session |-> s,
                                             order |-> o]]
  BY DEF StartEdit, Become, history
<1> DEFINE q == [pc |-> "editing", user |-> u, session |-> s, order |-> o]
<1>2. /\ request[r].pc = "idle"
      /\ UNCHANGED <<orders, linked, loggedIn, received, confirmed, touched, overruled,
                     stranded, edits, crashes>>
  BY DEF StartEdit, history
<1>3. /\ o \in 0..Len(orders) /\ o \in 0..MaxOrders
      /\ o # 0 => orders[o].session = s
  <2>1. TypeOK /\ Len(orders) \in Nat /\ Len(orders) <= MaxOrders /\ MaxOrders \in Nat
    BY ConstantsAssumption, LenProperties DEF CartInv, TypeOK
  <2>2. CASE o = 0
    BY <2>1, <2>2
  <2>3. CASE o # 0
    BY <2>1, <2>3, OrderTyped DEF ActiveOrders
  <2> QED
    BY <2>2, <2>3
<1>4. q \in Request
  BY <1>3 DEF Request
<1>5. Fits(q)' /\ q.pc # "tagging"
  BY <1>2, <1>3 DEF Fits, Underway, Asking, Checked
<1> QED
  BY <1>1, <1>2, <1>4, <1>5, RequestStep DEF CartInv, TypeOK

(* A refused edit leaves nothing. *)
LEMMA RefuseEditStep ==
    ASSUME CartInv, NEW r \in Requests, RefuseEdit(r)
    PROVE  CartInv'
<1>1. /\ request[r].pc \in {"editing", "saving", "moving"}
      /\ request' = [request EXCEPT ![r] = Idle]
      /\ UNCHANGED <<orders, linked, loggedIn, received, confirmed, touched, overruled,
                     stranded, edits, crashes>>
  BY DEF RefuseEdit, Become, history
<1> QED
  BY <1>1, IdleFits, RequestStep DEF CartInv, TypeOK

(* The basket is made of the order as it is. *)
LEMMA StartTransferStep ==
    ASSUME CartInv, NEW r \in Requests, NEW s \in Sessions, NEW u \in Users,
           StartTransfer(r, s, u)
    PROVE  CartInv'
<1>1. PICK o \in OrdersToTransfer(s) :
          request' = [request EXCEPT ![r] = [pc |-> "posting", basket |-> ToBasket(o, s)]]
  BY DEF StartTransfer, Become, history
<1>2. /\ request[r].pc = "idle"
      /\ UNCHANGED <<orders, linked, loggedIn, received, confirmed, touched, overruled,
                     stranded, edits, crashes>>
  BY DEF StartTransfer, history
<1>3. o \in DOMAIN orders /\ orders[o].session = s /\ orders[o] \in Order /\ o \in 1..MaxOrders
  BY <1>1, OrderTyped DEF OrdersToTransfer, CartInv
<1>4. ToBasket(o, s) \in Basket
  BY <1>3 DEF ToBasket, Basket, Order, ShippingPositions
<1>5. BasketFits(ToBasket(o, s))
  BY <1>3 DEF BasketFits, ToBasket, Shows, CartInv, OrderFits
<1>6. PICK q \in Request : q = [pc |-> "posting", basket |-> ToBasket(o, s)]
  BY <1>4 DEF Request
<1>7. q.pc = "posting" /\ q.basket = ToBasket(o, s) /\ BasketFits(q.basket)
  BY <1>5, <1>6
<1>8. Fits(q)'
  BY <1>2, <1>7 DEF Fits, BasketFits, Shows, ShippingPositions, Underway, Asking, Checked
<1> QED
  BY <1>1, <1>2, <1>6, <1>7, <1>8, RequestStep DEF CartInv, TypeOK

(* The gateway takes what the request holds. *)
LEMMA PostBasketStep ==
    ASSUME CartInv, NEW r \in Requests, PostBasket(r)
    PROVE  CartInv'
<1>1. /\ request[r].pc = "posting"
      /\ request' = [request EXCEPT ![r] = [request[r] EXCEPT !.pc = "accepted"]]
      /\ received' = received \cup {request[r].basket}
      /\ UNCHANGED <<orders, linked, loggedIn, confirmed, touched, overruled,
                     stranded, edits, crashes>>
  BY DEF PostBasket, Become, history
<1>2. PICK b \in Basket : b = request[r].basket /\ BasketFits(b)
  BY <1>1, RequestTyped DEF Underway, CartInv, Fits
<1>3. PICK q \in Request : /\ q = [request[r] EXCEPT !.pc = "accepted"]
                           /\ q.pc = "accepted" /\ q.basket = b
  BY <1>1, <1>2, RequestMoves DEF Underway, CartInv
<1>4. BasketFits(b)'
  BY <1>1, <1>2 DEF BasketFits, Shows, ShippingPositions
<1>5. Fits(q)'
  BY <1>1, <1>2, <1>3, <1>4 DEF Fits, Underway, Asking, Checked
<1>6. received' \subseteq Basket /\ \A c \in received' : LinesAreOf(c.lines, c.session)
  BY <1>1, <1>2 DEF BasketFits, CartInv, TypeOK
<1> QED
  BY <1>1, <1>3, <1>5, <1>6, RequestStep DEF CartInv, TypeOK

(* The gateway may have taken the basket all the same. *)
LEMMA PostFailsStep ==
    ASSUME CartInv, NEW r \in Requests, PostFails(r)
    PROVE  CartInv'
<1> DEFINE b == request[r].basket
<1>1. /\ request[r].pc = "posting" /\ request' = [request EXCEPT ![r] = Idle]
      /\ received' \in {received, received \cup {b}}
      /\ UNCHANGED <<orders, linked, loggedIn, confirmed, touched, overruled,
                     stranded, edits, crashes>>
  BY DEF PostFails, Become, history
<1>2. b \in Basket /\ BasketFits(b)
  BY <1>1, RequestTyped DEF Underway, CartInv, Fits
<1>3. received' \subseteq Basket /\ \A c \in received' : LinesAreOf(c.lines, c.session)
  BY <1>1, <1>2 DEF BasketFits, CartInv, TypeOK
<1> QED
  BY <1>1, <1>3, IdleFits, RequestStep DEF CartInv, TypeOK

(* The order was not in AddingItems: it stays as it is. *)
LEMMA TransitionFailsStep ==
    ASSUME CartInv, NEW r \in Requests, TransitionFails(r)
    PROVE  CartInv'
<1>1. /\ request[r].pc = "accepted" /\ request' = [request EXCEPT ![r] = Idle]
      /\ UNCHANGED <<orders, linked, loggedIn, received, confirmed, touched, overruled,
                     stranded, edits, crashes>>
  BY DEF TransitionFails, Become, history
<1> QED
  BY <1>1, IdleFits, RequestStep DEF CartInv, TypeOK

(* The row of an order is what a request reads of it. *)
LEMMA RowTyped ==
    ASSUME TypeOK, NEW o \in DOMAIN orders
    PROVE  /\ RowOf(o) \in Row /\ RowOf(o).session = orders[o].session
           /\ RowOf(o).state = orders[o].state /\ RowOf(o).shipping = orders[o].shipping
<1>1. PICK x \in Order : x = orders[o]
  BY OrderTyped
<1>2. /\ [x EXCEPT !.lines = {}] \in Order /\ [x EXCEPT !.lines = {}].lines = {}
      /\ [x EXCEPT !.lines = {}].session = x.session /\ [x EXCEPT !.lines = {}].state = x.state
      /\ [x EXCEPT !.lines = {}].shipping = x.shipping
  BY DEF Order
<1> QED
  BY <1>1, <1>2 DEF RowOf, Row

(* A mutation has found the order it names fit to be changed. *)
LEMMA CheckEditStep ==
    ASSUME CartInv, NEW r \in Requests, CheckEdit(r) \/ CheckMove(r)
    PROVE  CartInv'
<1> DEFINE o == request[r].order
<1>1. PICK pc \in Asking :
          request' = [request EXCEPT ![r] = [pc |-> pc, session |-> request[r].session,
                                             order |-> o, read |-> RowOf(o)]]
  BY DEF CheckEdit, CheckMove, Become, Asking
<1>2. /\ request[r].pc = "editing" /\ o # 0 /\ orders[o].state # "Transferred"
      /\ UNCHANGED <<orders, linked, loggedIn, received, confirmed, touched, overruled,
                     stranded, edits, crashes>>
  BY DEF CheckEdit, CheckMove, AcceptsEdits, history
<1>3. /\ o \in 0..Len(orders) /\ orders[o].session = request[r].session
      /\ request[r].session \in Sessions
  BY <1>2, RequestTyped DEF CartInv, Fits
<1>4. o \in DOMAIN orders /\ o \in 1..MaxOrders
  <2>1. o \in DOMAIN orders
    BY <1>2, <1>3, LenProperties DEF CartInv, TypeOK
  <2> QED
    BY <2>1, OrderTyped DEF CartInv
<1>5. PICK row \in Row : /\ row = RowOf(o) /\ row.session = orders[o].session
                         /\ row.state = orders[o].state
  BY <1>4, RowTyped DEF CartInv
<1>6. PICK q \in Request : q = [pc |-> pc, session |-> request[r].session,
                                order |-> o, read |-> row]
  BY <1>3, <1>4, <1>5 DEF Request, Asking
<1>7. q.pc \in Asking /\ q.order = o /\ q.session = request[r].session /\ q.read = row
  BY <1>6
<1>8. Fits(q)'
  BY <1>2, <1>3, <1>4, <1>5, <1>7 DEF Fits, Underway, Asking, Checked
<1>9. request' = [request EXCEPT ![r] = q] /\ q.pc # "tagging"
  BY <1>1, <1>5, <1>6, <1>7 DEF Asking
<1> QED
  BY <1>2, <1>8, <1>9, RequestStep DEF CartInv, TypeOK

(* The state machine agreed to the transfer of the order. *)
LEMMA CheckTransitionStep ==
    ASSUME CartInv, NEW r \in Requests, CheckTransition(r)
    PROVE  CartInv'
<1> DEFINE o == request[r].basket.order
<1>1. /\ request[r].pc = "accepted" /\ orders[o].state = "AddingItems"
      /\ request' = [request EXCEPT ![r] = [pc |-> "checked", basket |-> request[r].basket,
                                            read |-> RowOf(o)]]
      /\ UNCHANGED <<orders, linked, loggedIn, received, confirmed, touched, overruled,
                     stranded, edits, crashes>>
  BY DEF CheckTransition, Become, history
<1>2. PICK b \in Basket : b = request[r].basket /\ BasketFits(b) /\ b \in received
  BY <1>1, RequestTyped DEF Underway, CartInv, Fits
<1>3. PICK row \in Row : /\ row = RowOf(o) /\ row.session = orders[o].session
                         /\ row.shipping = orders[o].shipping
  BY <1>2, RowTyped DEF CartInv, BasketFits
<1>4. PICK q \in Request : q = [pc |-> "checked", basket |-> b, read |-> row]
  BY <1>2, <1>3 DEF Request
<1>5. q.pc = "checked" /\ q.basket = b /\ q.read = row
  BY <1>4
<1>6. BasketFits(b)' /\ ReadFits(row, b)'
  BY <1>1, <1>2, <1>3 DEF BasketFits, Shows, ShippingPositions, ReadFits
<1>7. Fits(q)'
  BY <1>1, <1>2, <1>5, <1>6 DEF Fits, Underway, Asking, Checked
<1>8. request' = [request EXCEPT ![r] = q]
  BY <1>1, <1>2, <1>3, <1>4
<1> QED
  BY <1>1, <1>5, <1>7, <1>8, RequestStep DEF CartInv, TypeOK

(* An order that is not closed any more is stranded. *)
LEMMA CutOffStep ==
    ASSUME CartInv, NEW r \in Requests, CutOff(r)
    PROVE  CartInv'
<1>1. /\ request[r].pc \in {"tagging", "posting", "accepted", "checked", "closing"}
      /\ request' = [request EXCEPT ![r] = Idle]
      /\ stranded' = IF request[r].pc = "closing"
                     THEN stranded \cup {request[r].basket.order} ELSE stranded
      /\ UNCHANGED <<orders, linked, loggedIn, received, confirmed, touched, overruled, edits>>
  BY DEF CutOff, Become, history
<1>2. crashes' \in 0..MaxCrashes
  BY ConstantsAssumption DEF CutOff, CartInv, TypeOK
<1>3. request[r].pc = "closing" => request[r].basket.order \in DOMAIN orders
  BY DEF CartInv, Fits, Underway, BasketFits
<1>4. stranded' \subseteq DOMAIN orders /\ stranded \subseteq stranded'
  BY <1>1, <1>3 DEF CartInv, TypeOK
<1>5. request[r].pc = "closing" => request[r].basket.order \in stranded'
  BY <1>1
<1> QED
  BY <1>1, <1>2, <1>4, <1>5, IdleFits, RequestStep DEF CartInv, TypeOK

(* Users come, and are linked or not. *)
LEMMA UserStep ==
    ASSUME CartInv, NEW u \in Users, Authenticate(u) \/ LinkOrUnlink(u)
    PROVE  CartInv'
<1>1. /\ UNCHANGED <<orders, request, received, confirmed, touched, overruled, stranded, crashes>>
      /\ linked' \subseteq Users /\ loggedIn' \subseteq Users
  BY DEF Authenticate, LinkOrUnlink, CartInv, TypeOK, history
<1>2. edits' \in 0..MaxEdits
  BY ConstantsAssumption DEF Authenticate, LinkOrUnlink, CartInv, TypeOK
<1>3. TypeOK'
  BY <1>1, <1>2 DEF CartInv, TypeOK, InTransfer
<1>4. \A r \in Requests : Fits(request[r])'
  BY <1>1 DEF CartInv, Fits, BasketFits, Shows, ShippingPositions, ReadFits
<1>5. \A o \in DOMAIN orders' : OrderFits(o)'
  BY <1>1 DEF CartInv, OrderFits, Taken, Shows, ShippingPositions
<1> QED
  BY <1>1, <1>3, <1>4, <1>5 DEF CartInv, TagsAlone, SuccessIsTrue, TransferCloses

-----------------------------------------------------------------------------
(* Steps that write an order *)

(* An order that is left alone. *)
LEMMA OrderStillFits ==
    ASSUME NEW o, OrderFits(o), orders'[o] = orders[o], received' = received,
           touched \subseteq touched'
    PROVE  OrderFits(o)'
<1>1. Taken(o) => Taken(o)'
  BY DEF Taken, Shows, ShippingPositions
<1> QED
  BY <1>1 DEF OrderFits

(* A new order, and the request that made it. *)
LEMMA GrowStep ==
    ASSUME CartInv, NEW r \in Requests, NEW q \in Request, NEW e \in Order,
           request' = [request EXCEPT ![r] = q], orders' = Append(orders, e),
           Len(orders) < MaxOrders, request[r].pc \in {"creating", "editing"}, Fits(q)',
           q.pc = "tagging" => q.order = Len(orders) + 1,
           e.state = "AddingItems", LinesAreOf(e.lines, e.session),
           e.session = NoSession => e.lines = {},
           UNCHANGED <<linked, loggedIn, received, confirmed, touched, overruled, stranded,
                     crashes>>,
           edits' \in 0..MaxEdits
    PROVE  CartInv'
<1> DEFINE new == Len(orders) + 1
<1>1. /\ orders' \in Seq(Order) /\ Len(orders') = new
      /\ DOMAIN orders' = DOMAIN orders \cup {new} /\ new \notin DOMAIN orders
      /\ orders'[new] = e /\ \A k \in DOMAIN orders : orders'[k] = orders[k]
  BY OrdersGrow DEF CartInv
<1>2. Len(orders) \in Nat /\ MaxOrders \in Nat
  BY ConstantsAssumption, LenProperties DEF CartInv, TypeOK
<1> HIDE DEF new
<1>3. /\ request' \in [Requests -> Request]
      /\ request'[r] = q /\ \A k \in Requests \ {r} : request'[k] = request[k]
  BY DEF CartInv, TypeOK
<1>4. ASSUME NEW k \in Requests PROVE Fits(request[k])'
  <2>1. CASE k = r
    BY <1>3, <2>1 DEF Fits, BasketFits, Shows, ReadFits
  <2>2. CASE k # r
    <3>1. PICK p \in Request : request[k] = p /\ request'[k] = p /\ Fits(p)
      BY <1>3, <2>2 DEF CartInv, TypeOK
    <3>2. p.pc = "tagging" => p.order \in DOMAIN orders
      BY <3>1 DEF Fits
    <3>3. p.pc \in Underway => p.basket.order \in DOMAIN orders
      BY <3>1 DEF Fits, BasketFits
    <3>4. Len(orders) <= Len(orders')
      BY <1>1, <1>2 DEF new
    <3>5. p.pc = "closing" => p.pc \in Underway
      BY DEF Underway
    <3>6. Fits(p)'
      BY <1>1, <3>1, <3>2, <3>3, <3>4, <3>5, StillFits DEF CartInv, TypeOK
    <3> QED
      BY <3>1, <3>6 DEF Fits, BasketFits, Shows, ReadFits
  <2> QED
    BY <2>1, <2>2
<1>5. TypeOK'
  <2>1. Len(orders') <= MaxOrders
    BY <1>1, <1>2 DEF new
  <2>2. /\ \A k \in Requests : \/ request'[k].pc \notin {"editing", "tagging", "saving", "moving"}
                               \/ request'[k].order \in 0..Len(orders')
        /\ \A o \in 1..MaxOrders : InTransfer(o)' => o \in DOMAIN orders'
    <3>1. Len(orders') \in Nat /\ DOMAIN orders' = 1..Len(orders')
      BY <1>1, LenProperties
    <3> QED
      BY <1>4, <3>1 DEF Fits, InTransfer, Underway, Asking, BasketFits
  <2> QED
    BY <1>1, <1>3, <2>1, <2>2 DEF CartInv, TypeOK
<1>6. TagsAlone'
  <2>1. \A k \in Requests \ {r} :
            request'[k].pc = "tagging" => request'[k].order # new
    BY <1>1, <1>3 DEF CartInv, Fits
  <2> QED
    BY <1>3, <2>1 DEF CartInv, TagsAlone, new
<1>7. ASSUME NEW o \in DOMAIN orders' PROVE OrderFits(o)'
  <2>1. CASE o = new
    BY <1>1, <2>1 DEF OrderFits
  <2>2. CASE o # new
    BY <1>1, <2>2, OrderStillFits DEF CartInv
  <2> QED
    BY <2>1, <2>2
<1>8. SuccessIsTrue'
  BY <1>1 DEF CartInv, SuccessIsTrue, TypeOK
<1>9. TransferCloses'
  <2> SUFFICES ASSUME NEW o \in DOMAIN orders', orders'[o].state = "Transferred", orders'[o].active
               PROVE  \/ o \in stranded'
                      \/ \E k \in Requests : /\ request'[k].pc = "closing"
                                             /\ request'[k].basket.order = o
    BY DEF TransferCloses
  <2>1. o \in DOMAIN orders /\ orders'[o] = orders[o]
    BY <1>1
  <2>2. CASE o \in stranded
    BY <2>2
  <2>3. ASSUME NEW k \in Requests, request[k].pc = "closing", request[k].basket.order = o
        PROVE  request'[k] = request[k]
    BY <1>3, <2>3
  <2> QED
    BY <2>1, <2>2, <2>3 DEF CartInv, TransferCloses
<1> QED
  BY <1>4, <1>5, <1>6, <1>7, <1>8, <1>9 DEF CartInv

(* A request changes an order, and what it is at. *)
LEMMA ChangeStep ==
    ASSUME CartInv, NEW r \in Requests, NEW q \in Request, NEW o \in DOMAIN orders, NEW e \in Order,
           orders' = [orders EXCEPT ![o] = e], request' = [request EXCEPT ![r] = q],
           Fits(q)', q.pc # "tagging",
           request[r].pc = "closing" => request[r].basket.order = o,
           \/ e.session = orders[o].session
           \/ /\ orders[o].session = NoSession
              /\ request[r].pc = "tagging" /\ request[r].order = o,
           LinesAreOf(e.lines, e.session), e.session # NoSession,
           e.state = "Transferred" => Taken(o)',
           e.state = "Transferred" /\ e.active =>
               \/ q.pc = "closing" /\ q.basket.order = o
               \/ /\ orders[o].state = "Transferred" /\ orders[o].active
                  /\ request[r].pc # "closing",
           touched \subseteq touched', touched' \subseteq touched \cup {o},
           \/ o \in touched' \/ ~InTransfer(o)
           \/ e.lines = orders[o].lines /\ e.shipping = orders[o].shipping,
           overruled \subseteq overruled', overruled' \subseteq overruled \cup {o},
           o \in overruled' \/ ~InTransition(o) \/ e.state \in {orders[o].state, "Transferred"},
           confirmed' \subseteq confirmed \cup {o},
           o \in confirmed' => o \in overruled' \/ e.state = "Transferred",
           UNCHANGED <<linked, loggedIn, received, stranded, crashes>>,
           edits' \in 0..MaxEdits
    PROVE  CartInv'
<1>1. /\ orders' \in Seq(Order) /\ Len(orders') = Len(orders) /\ DOMAIN orders' = DOMAIN orders
      /\ orders'[o] = e /\ \A k \in DOMAIN orders \ {o} : orders'[k] = orders[k]
  BY OrderChanges DEF CartInv
<1>2. Len(orders) \in Nat /\ Len(orders) <= MaxOrders
  BY LenProperties DEF CartInv, TypeOK
<1>3. /\ request' \in [Requests -> Request] /\ request'[r] = q
      /\ \A k \in Requests \ {r} : request'[k] = request[k]
  BY DEF CartInv, TypeOK
<1>4. ASSUME NEW k \in Requests PROVE Fits(request[k])'
  <2>1. CASE k = r
    BY <1>3, <2>1 DEF Fits, BasketFits, Shows, ReadFits
  <2>2. CASE k # r
    <3>1. PICK p \in Request : request[k] = p /\ request'[k] = p /\ Fits(p)
      BY <1>3, <2>2 DEF CartInv, TypeOK
    <3>2. \A i \in DOMAIN orders :
              orders[i].session # NoSession => orders'[i].session = orders[i].session
      BY <1>1
    <3>3. p.pc = "tagging" => orders'[p.order].session = orders[p.order].session
      <4>1. SUFFICES ASSUME p.pc = "tagging" PROVE orders'[p.order].session = orders[p.order].session
        OBVIOUS
      <4>2. p.order \in DOMAIN orders
        BY <3>1, <4>1 DEF Fits
      <4>3. ASSUME p.order = o PROVE e.session = orders[o].session
        BY <2>2, <3>1, <4>1, <4>3 DEF CartInv, TagsAlone
      <4> QED
        BY <1>1, <4>2, <4>3
    <3>4. ASSUME p.pc \in Underway
          PROVE  /\ \/ p.basket.order \in touched'
                    \/ /\ orders'[p.basket.order].lines = orders[p.basket.order].lines
                       /\ orders'[p.basket.order].shipping = orders[p.basket.order].shipping
                 /\ p.pc = "closing" =>
                        \/ p.basket.order \in overruled'
                        \/ orders'[p.basket.order].state \in
                               {orders[p.basket.order].state, "Transferred"}
      <4>1. p.basket.order \in DOMAIN orders
        BY <3>1, <3>4 DEF Fits, BasketFits
      <4>2. p.basket.order = o => InTransfer(o) /\ (p.pc = "closing" => InTransition(o))
        BY <3>1, <3>4 DEF InTransfer, InTransition, Underway
      <4> QED
        BY <1>1, <4>1, <4>2
    <3>5. p.pc = "closing" => p.pc \in Underway
      BY DEF Underway
    <3>6. Fits(p)'
      BY <1>1, <1>2, <3>1, <3>2, <3>3, <3>4, <3>5, StillFits DEF CartInv
    <3> QED
      BY <3>1, <3>6 DEF Fits, BasketFits, Shows, ReadFits
  <2> QED
    BY <2>1, <2>2
<1>5. TypeOK'
  <2>1. /\ \A k \in Requests :
               \/ request'[k].pc \notin {"editing", "tagging", "saving", "moving"}
               \/ request'[k].order \in 0..Len(orders')
        /\ \A i \in 1..MaxOrders : InTransfer(i)' => i \in DOMAIN orders'
    <3>1. Len(orders') \in Nat /\ DOMAIN orders' = 1..Len(orders')
      BY <1>1, LenProperties
    <3> QED
      BY <1>4, <3>1 DEF Fits, InTransfer, Underway, Asking, BasketFits
  <2>2. {confirmed', touched', overruled', stranded'} \subseteq SUBSET DOMAIN orders'
    BY <1>1 DEF CartInv, TypeOK
  <2> QED
    BY <1>1, <1>2, <1>3, <2>1, <2>2 DEF CartInv, TypeOK
<1>6. TagsAlone'
  BY <1>3 DEF CartInv, TagsAlone
<1>7. ASSUME NEW i \in DOMAIN orders' PROVE OrderFits(i)'
  <2>1. CASE i = o
    BY <1>1, <2>1 DEF OrderFits, Taken, Shows, ShippingPositions
  <2>2. CASE i # o
    BY <1>1, <2>2, OrderStillFits DEF CartInv
  <2> QED
    BY <2>1, <2>2
<1>8. SuccessIsTrue'
  BY <1>1 DEF CartInv, SuccessIsTrue, TypeOK
<1>9. TransferCloses'
  <2> SUFFICES ASSUME NEW i \in DOMAIN orders', orders'[i].state = "Transferred", orders'[i].active
               PROVE  \/ i \in stranded'
                      \/ \E k \in Requests : /\ request'[k].pc = "closing"
                                             /\ request'[k].basket.order = i
    BY DEF TransferCloses
  <2>1. CASE i = o /\ q.pc = "closing" /\ q.basket.order = o
    BY <1>3, <2>1
  <2>2. CASE ~(i = o /\ q.pc = "closing" /\ q.basket.order = o)
    <3>1. i \in DOMAIN orders /\ orders[i].state = "Transferred" /\ orders[i].active
      BY <1>1, <2>2
    <3>2. ASSUME NEW k \in Requests, request[k].pc = "closing", request[k].basket.order = i
          PROVE  request'[k] = request[k]
      BY <1>1, <1>3, <2>2, <3>2
    <3> QED
      BY <3>1, <3>2 DEF CartInv, TransferCloses
  <2> QED
    BY <2>1, <2>2
<1> QED
  BY <1>4, <1>5, <1>6, <1>7, <1>8, <1>9 DEF CartInv

(* What a save starts from: the order, or the row that was read of it. *)
LEMMA SavedOverTyped ==
    ASSUME TypeOK, NEW o \in DOMAIN orders, NEW read \in Row, read.session = orders[o].session,
           NEW base \in SavedOver(o, read)
    PROVE  /\ base \in Order /\ base.session = orders[o].session /\ base.lines = orders[o].lines
           /\ \/ base = orders[o]
              \/ base.state = read.state /\ base.shipping = read.shipping
<1>1. PICK x \in Order : x = orders[o]
  BY OrderTyped
<1>2. PICK lines \in SUBSET Line : lines = x.lines
  BY DEF Order
<1>3. /\ [read EXCEPT !.lines = lines] \in Order
      /\ [read EXCEPT !.lines = lines].lines = lines
      /\ [read EXCEPT !.lines = lines].session = read.session
      /\ [read EXCEPT !.lines = lines].state = read.state
      /\ [read EXCEPT !.lines = lines].shipping = read.shipping
  BY DEF Order, Row
<1> QED
  BY <1>1, <1>2, <1>3 DEF SavedOver

-----------------------------------------------------------------------------
(* The actions that write an order *)

(* The order is the new request's own until it has its session. *)
LEMMA CreateOrderStep ==
    ASSUME CartInv, NEW r \in Requests, CreateOrder(r)
    PROVE  CartInv'
<1>1. /\ request[r].pc = "creating" /\ Len(orders) < MaxOrders
      /\ orders' = Append(orders, NewOrder(request[r].user, NoSession))
      /\ request' = [request EXCEPT ![r] =
             [pc |-> "tagging", session |-> request[r].session, order |-> Len(orders) + 1]]
      /\ UNCHANGED <<linked, loggedIn, received, confirmed, touched, overruled,
                     stranded, edits, crashes>>
  BY DEF CreateOrder, Become, history
<1>2. request[r].user \in Users /\ request[r].session \in Sessions
  BY <1>1, RequestTyped DEF CartInv
<1>3. PICK e \in Order : /\ e = NewOrder(request[r].user, NoSession)
                         /\ e.session = NoSession /\ e.lines = {} /\ e.state = "AddingItems"
  BY <1>2, NewOrderTyped
<1>4. /\ Len(orders') = Len(orders) + 1 /\ Len(orders) + 1 \in DOMAIN orders'
      /\ orders'[Len(orders) + 1] = e
  BY <1>1, <1>3, OrdersGrow DEF CartInv
<1>5. Len(orders) + 1 \in 1..MaxOrders
  BY <1>1, LenProperties, ConstantsAssumption DEF CartInv, TypeOK
<1>6. PICK q \in Request : q = [pc |-> "tagging", session |-> request[r].session,
                                order |-> Len(orders) + 1]
  BY <1>2, <1>5 DEF Request
<1>7. q.pc = "tagging" /\ q.order = Len(orders) + 1
  BY <1>6
<1>8. Fits(q)'
  BY <1>3, <1>4, <1>7 DEF Fits, Underway, Asking, Checked
<1> QED
  BY <1>1, <1>3, <1>6, <1>7, <1>8, GrowStep DEF LinesAreOf, CartInv, TypeOK

(* No other request knows the order before it has its session. *)
LEMMA TagOrderStep ==
    ASSUME CartInv, NEW r \in Requests, TagOrder(r)
    PROVE  CartInv'
<1>1. /\ request[r].pc = "tagging" /\ request' = [request EXCEPT ![r] = Idle]
      /\ orders' = [orders EXCEPT ![request[r].order].session = request[r].session]
      /\ UNCHANGED <<linked, loggedIn, received, confirmed, touched, overruled,
                     stranded, edits, crashes>>
  BY DEF TagOrder, Become, history
<1>2. PICK o \in DOMAIN orders : o = request[r].order /\ orders[o].session = NoSession
  BY <1>1 DEF CartInv, Fits
<1>3. PICK s \in Sessions : s = request[r].session
  BY <1>1, RequestTyped DEF CartInv
<1>4. orders[o] \in Order /\ orders[o].lines = {} /\ orders[o].state = "AddingItems"
  BY <1>2, OrderTyped DEF CartInv, OrderFits
<1>5. PICK x \in Order : x = orders[o]
  BY <1>4
<1>6. /\ [x EXCEPT !.session = s] \in Order /\ [x EXCEPT !.session = s].session = s
      /\ [x EXCEPT !.session = s].lines = x.lines /\ [x EXCEPT !.session = s].state = x.state
      /\ [x EXCEPT !.session = s].shipping = x.shipping
  BY DEF Order
<1>7. PICK e : e = [x EXCEPT !.session = s]
  OBVIOUS
<1>8. /\ e \in Order /\ e.session = s /\ e.lines = orders[o].lines /\ e.state = orders[o].state
      /\ e.shipping = orders[o].shipping
  BY <1>5, <1>6, <1>7
<1>9. orders' = [orders EXCEPT ![o] = e]
  BY <1>1, <1>2, <1>3, <1>5, <1>7
<1>10. PICK q \in Request : q = Idle
  BY IdleFits
<1>11. Fits(q)' /\ q.pc # "tagging"
  BY <1>10 DEF Fits, Idle, Underway, Asking, Checked
<1>12. o \in confirmed => o \in overruled
  BY <1>2, <1>4 DEF CartInv, SuccessIsTrue
<1>13. e.session # NoSession /\ LinesAreOf(e.lines, e.session)
  BY <1>3, <1>4, <1>8, ConstantsAssumption DEF LinesAreOf
<1>14. edits' \in 0..MaxEdits
  BY <1>1 DEF CartInv, TypeOK
<1>15. request' = [request EXCEPT ![r] = q]
  BY <1>1, <1>10
<1>16. /\ request[r].pc = "tagging" /\ request[r].order = o /\ orders[o].session = NoSession
       /\ e.state = "AddingItems" /\ orders[o].state = "AddingItems"
       /\ e.lines = orders[o].lines /\ e.shipping = orders[o].shipping
  BY <1>1, <1>2, <1>4, <1>8
<1>17. /\ touched \subseteq touched' /\ touched' \subseteq touched \cup {o}
       /\ overruled \subseteq overruled' /\ overruled' \subseteq overruled \cup {o}
       /\ confirmed' \subseteq confirmed \cup {o} /\ (o \in confirmed' => o \in overruled')
       /\ UNCHANGED <<linked, loggedIn, received, stranded, crashes>>
  BY <1>1, <1>12
<1> QED
  BY <1>8, <1>9, <1>10, <1>11, <1>13, <1>14, <1>15, <1>16, <1>17, ChangeStep

(* The edits of an order change its lines or shipping, for its session. *)
LEMMA EditsTyped ==
    ASSUME NEW x \in Order, NEW s \in Sessions, x.session = s, LinesAreOf(x.lines, s),
           NEW e \in Edits(x, s)
    PROVE  /\ e \in Order /\ e.session = s /\ e.state = x.state /\ e.active = x.active
           /\ LinesAreOf(e.lines, s)
<1>1. x.lines \in SUBSET Line /\ s \in Sessions
  BY DEF Order
<1>2. ASSUME NEW lines \in SUBSET Line, LinesAreOf(lines, s), e = [x EXCEPT !.lines = lines]
      PROVE  /\ e \in Order /\ e.session = s /\ e.state = x.state /\ e.active = x.active
             /\ LinesAreOf(e.lines, s)
  BY <1>2 DEF Order
<1>3. ASSUME NEW i \in Items, e = [x EXCEPT !.lines = @ \cup {<<i, s>>}]
      PROVE  /\ e \in Order /\ e.session = s /\ e.state = x.state /\ e.active = x.active
             /\ LinesAreOf(e.lines, s)
  <2>1. x.lines \cup {<<i, s>>} \in SUBSET Line
    BY <1>1 DEF Line
  <2>2. LinesAreOf(x.lines \cup {<<i, s>>}, s)
    BY DEF LinesAreOf
  <2> QED
    BY <1>2, <1>3, <2>1, <2>2
<1>4. ASSUME NEW l \in x.lines, e = [x EXCEPT !.lines = @ \ {l}]
      PROVE  /\ e \in Order /\ e.session = s /\ e.state = x.state /\ e.active = x.active
             /\ LinesAreOf(e.lines, s)
  <2>1. x.lines \ {l} \in SUBSET Line /\ LinesAreOf(x.lines \ {l}, s)
    BY <1>1 DEF LinesAreOf
  <2> QED
    BY <1>2, <1>4, <2>1
<1>5. ASSUME NEW f \in Fees, e = [x EXCEPT !.shipping = f]
      PROVE  /\ e \in Order /\ e.session = s /\ e.state = x.state /\ e.active = x.active
             /\ LinesAreOf(e.lines, s)
  BY <1>5 DEF Order
<1> QED
  BY <1>3, <1>4, <1>5 DEF Edits

(* What the storefront saves over an order, whatever became of it since.   *)
LEMMA SaveStep ==
    ASSUME CartInv, NEW r \in Requests, request[r].pc \in Asking,
           NEW o, o = request[r].order, NEW e \in Order, orders' = [orders EXCEPT ![o] = e],
           request' = [request EXCEPT ![r] = Idle],
           e.session = orders[o].session, LinesAreOf(e.lines, e.session),
           \/ e.state # "Transferred"
           \/ e.state = orders[o].state /\ e.active = orders[o].active,
           Touch(o, e), Overrule(o),
           UNCHANGED <<linked, loggedIn, received, confirmed, stranded, crashes>>,
           edits < MaxEdits, edits' = edits + 1
    PROVE  CartInv'
<1>1. /\ o \in DOMAIN orders /\ request[r].session \in Sessions
      /\ orders[o].session = request[r].session
  BY RequestTyped DEF CartInv, Fits
<1>2. e.session # NoSession
  BY <1>1, ConstantsAssumption
<1>3. /\ DOMAIN orders' = DOMAIN orders /\ orders'[o] = e
  BY <1>1, OrderChanges DEF CartInv
<1>4. /\ touched \subseteq touched' /\ touched' \subseteq touched \cup {o}
      /\ \/ o \in touched' \/ (~InTransfer(o) /\ orders[o].state # "Transferred")
         \/ e.lines = orders[o].lines /\ e.shipping = orders[o].shipping
  BY DEF Touch
<1>5. /\ overruled \subseteq overruled' /\ overruled' \subseteq overruled \cup {o}
      /\ o \in overruled' \/ (~InTransition(o) /\ orders[o].state # "Transferred")
  BY DEF Overrule
<1>6. o \in confirmed' => o \in overruled' \/ e.state = "Transferred"
  BY <1>1, <1>5 DEF CartInv, SuccessIsTrue
<1>7. e.state = "Transferred" => Taken(o)'
  <2> SUFFICES ASSUME e.state = "Transferred" PROVE Taken(o)'
    OBVIOUS
  <2>1. orders[o].state = "Transferred" /\ Taken(o)
    BY <1>1 DEF CartInv, OrderFits
  <2> QED
    BY <1>3, <1>4, <2>1 DEF Taken, Shows, ShippingPositions
<1>8. PICK q \in Request : q = Idle
  BY IdleFits
<1>9. Fits(q)' /\ q.pc # "tagging" /\ request[r].pc # "closing"
  BY <1>8 DEF Fits, Idle, Underway, Asking, Checked
<1>10. edits' \in 0..MaxEdits
  BY ConstantsAssumption DEF CartInv, TypeOK
<1>11. request' = [request EXCEPT ![r] = q]
  BY <1>8
<1>12. confirmed' \subseteq confirmed \cup {o}
  OBVIOUS
<1>13. \/ o \in touched' \/ ~InTransfer(o)
       \/ e.lines = orders[o].lines /\ e.shipping = orders[o].shipping
  BY <1>4
<1>14. o \in overruled' \/ ~InTransition(o) \/ e.state \in {orders[o].state, "Transferred"}
  BY <1>5
<1>15. e.state = "Transferred" /\ e.active =>
           orders[o].state = "Transferred" /\ orders[o].active /\ request[r].pc # "closing"
  BY <1>9
<1> HIDE DEF Touch, Overrule
<1> QED
  BY <1>1, <1>2, <1>4, <1>5, <1>6, <1>7, <1>9, <1>10, <1>11, <1>12, <1>13, <1>14, <1>15, ChangeStep

(* An edit is saved over the order, or over what was read of it. *)
LEMMA CommitEditStep ==
    ASSUME CartInv, NEW r \in Requests, CommitEdit(r)
    PROVE  CartInv'
<1> DEFINE o == request[r].order
<1>1. /\ request[r].pc = "saving" /\ edits < MaxEdits /\ edits' = edits + 1
      /\ request' = [request EXCEPT ![r] = Idle] /\ Overrule(o)
      /\ UNCHANGED <<linked, loggedIn, received, confirmed, stranded, crashes>>
  BY DEF CommitEdit, Become
<1>2. PICK base \in SavedOver(o, request[r].read) :
        \E after \in Edits(base, request[r].session) :
            orders' = [orders EXCEPT ![o] = after] /\ Touch(o, after)
  BY DEF CommitEdit
<1>3. PICK after \in Edits(base, request[r].session) :
          orders' = [orders EXCEPT ![o] = after] /\ Touch(o, after)
  BY <1>2
<1>4. /\ o \in DOMAIN orders /\ orders[o].session = request[r].session
      /\ request[r].read.session = request[r].session /\ request[r].read.state # "Transferred"
      /\ request[r].session \in Sessions /\ request[r].read \in Row
  BY <1>1, RequestTyped DEF CartInv, Fits, Asking
<1>5. /\ base \in Order /\ base.session = request[r].session /\ base.lines = orders[o].lines
      /\ base = orders[o] \/ base.state # "Transferred"
  BY <1>2, <1>4, SavedOverTyped DEF CartInv
<1>6. LinesAreOf(base.lines, request[r].session)
  BY <1>4, <1>5 DEF CartInv, OrderFits
<1>7. /\ after \in Order /\ after.session = request[r].session /\ after.state = base.state
      /\ after.active = base.active /\ LinesAreOf(after.lines, request[r].session)
  BY <1>3, <1>4, <1>5, <1>6, EditsTyped
<1>8. \/ after.state # "Transferred"
      \/ after.state = orders[o].state /\ after.active = orders[o].active
  BY <1>5, <1>7
<1>9. PICK e \in Order : e = after
  BY <1>7
<1>10. /\ orders' = [orders EXCEPT ![o] = e] /\ Touch(o, e)
       /\ e.session = orders[o].session /\ LinesAreOf(e.lines, e.session)
       /\ \/ e.state # "Transferred"
          \/ e.state = orders[o].state /\ e.active = orders[o].active
  BY <1>3, <1>4, <1>7, <1>8, <1>9
<1>11. request[r].pc \in Asking
  BY <1>1 DEF Asking
<1> QED
  BY <1>1, <1>10, <1>11, SaveStep

(* The storefront moves an order, or what was read of it. *)
LEMMA CheckoutOrBackStep ==
    ASSUME CartInv, NEW r \in Requests, CheckoutOrBack(r)
    PROVE  CartInv'
<1> DEFINE o == request[r].order
<1>1. PICK to \in {"AddingItems", "ArrangingPayment"} :
          \E base \in SavedOver(o, request[r].read) :
              /\ orders' = [orders EXCEPT ![o] = [base EXCEPT !.state = to]]
              /\ Touch(o, [base EXCEPT !.state = to])
  BY DEF CheckoutOrBack
<1>2. /\ request[r].pc = "moving" /\ edits < MaxEdits /\ edits' = edits + 1
      /\ request' = [request EXCEPT ![r] = Idle] /\ Overrule(o)
      /\ UNCHANGED <<linked, loggedIn, received, confirmed, stranded, crashes>>
  BY DEF CheckoutOrBack, Become
<1>3. /\ o \in DOMAIN orders /\ orders[o].session = request[r].session
      /\ request[r].read.session = request[r].session /\ request[r].read \in Row
  BY <1>2, RequestTyped DEF CartInv, Fits, Asking
<1>4. PICK base \in SavedOver(o, request[r].read) :
              /\ orders' = [orders EXCEPT ![o] = [base EXCEPT !.state = to]]
              /\ Touch(o, [base EXCEPT !.state = to])
  BY <1>1
<1>5. base \in Order /\ base.session = orders[o].session /\ base.lines = orders[o].lines
  BY <1>3, SavedOverTyped DEF CartInv
<1>6. /\ [base EXCEPT !.state = to] \in Order /\ [base EXCEPT !.state = to].lines = base.lines
      /\ [base EXCEPT !.state = to].session = base.session
      /\ [base EXCEPT !.state = to].state = to
  BY <1>5 DEF Order
<1>7. PICK e \in Order : e = [base EXCEPT !.state = to]
  BY <1>6
<1>8. /\ orders' = [orders EXCEPT ![o] = e] /\ Touch(o, e) /\ e.state # "Transferred"
      /\ e.session = orders[o].session /\ LinesAreOf(e.lines, e.session)
  BY <1>3, <1>4, <1>5, <1>6, <1>7 DEF CartInv, OrderFits
<1>9. request[r].pc \in Asking
  BY <1>2 DEF Asking
<1> QED
  BY <1>2, <1>8, <1>9, SaveStep

(* A mutation that found no order makes one of its session. *)
LEMMA CommitNewOrderStep ==
    ASSUME CartInv, NEW r \in Requests, CommitNewOrder(r)
    PROVE  CartInv'
<1>1. /\ request[r].pc = "editing" /\ edits < MaxEdits /\ edits' = edits + 1
      /\ Len(orders) < MaxOrders /\ request' = [request EXCEPT ![r] = Idle]
      /\ UNCHANGED <<linked, loggedIn, received, confirmed, touched, overruled, stranded,
                     crashes>>
  BY DEF CommitNewOrder, Become, history
<1>2. edits' \in 0..MaxEdits
  BY <1>1, ConstantsAssumption DEF CartInv, TypeOK
<1>3. PICK q \in Request : q = Idle
  BY IdleFits
<1>4. Fits(q)' /\ q.pc # "tagging"
  BY <1>3 DEF Fits, Idle, Underway, Asking, Checked
<1>5. request[r].user \in Users \cup {Anonymous} /\ request[r].session \in Sessions
  BY <1>1, RequestTyped DEF CartInv
<1>6. PICK i \in Items :
          orders' = Append(orders, [NewOrder(request[r].user, request[r].session)
                                        EXCEPT !.lines = {<<i, request[r].session>>}])
  BY DEF CommitNewOrder
<1>7. PICK s \in Sessions : s = request[r].session
  BY <1>5
<1>8. PICK x \in Order : /\ x = NewOrder(request[r].user, s)
                         /\ x.session = s /\ x.state = "AddingItems"
  BY <1>5, <1>7, NewOrderTyped
<1>9. {<<i, s>>} \in SUBSET Line /\ LinesAreOf({<<i, s>>}, s)
  BY DEF Line, LinesAreOf
<1>10. PICK e \in Order : /\ e = [x EXCEPT !.lines = {<<i, s>>}] /\ e.session = s
                          /\ e.state = "AddingItems" /\ e.lines = {<<i, s>>}
  <2>1. PICK lines \in SUBSET Line : lines = {<<i, s>>}
    BY <1>9
  <2>2. /\ [x EXCEPT !.lines = lines] \in Order
        /\ [x EXCEPT !.lines = lines].session = x.session
        /\ [x EXCEPT !.lines = lines].state = x.state
        /\ [x EXCEPT !.lines = lines].lines = lines
    BY DEF Order
  <2> QED
    BY <1>8, <2>1, <2>2
<1>11. orders' = Append(orders, e)
  BY <1>6, <1>7, <1>8, <1>10
<1>12. LinesAreOf(e.lines, e.session) /\ e.session # NoSession
  BY <1>9, <1>10, ConstantsAssumption
<1> QED
  BY <1>1, <1>2, <1>3, <1>4, <1>10, <1>11, <1>12, GrowStep

(* The order is handed over: the gateway has the basket of the request. *)
LEMMA TransitionStep ==
    ASSUME CartInv, NEW r \in Requests, Transition(r)
    PROVE  CartInv'
<1>1. PICK b \in Basket, row \in Row : b = request[r].basket /\ row = request[r].read
  BY RequestTyped DEF Transition, Underway, Checked, CartInv
<1>2. PICK o : o = b.order
  OBVIOUS
<1>3. /\ request[r].pc = "checked"
      /\ request' = [request EXCEPT ![r] = [pc |-> "closing", basket |-> b,
                                            read |-> [row EXCEPT !.state = "Transferred"]]]
      /\ UNCHANGED <<linked, loggedIn, received, confirmed, touched, overruled,
                     stranded, edits, crashes>>
  BY <1>1 DEF Transition, Become, history
<1>4. PICK base \in SavedOver(o, row) :
          orders' = [orders EXCEPT ![o] = [base EXCEPT !.state = "Transferred"]]
  BY <1>1, <1>2 DEF Transition
<1>5. /\ o \in DOMAIN orders /\ BasketFits(b) /\ b \in received /\ ReadFits(row, b)
      /\ orders[o].session = b.session
  BY <1>1, <1>2, <1>3 DEF CartInv, Fits, Underway, Checked, BasketFits
<1>6. /\ base \in Order /\ base.session = orders[o].session /\ base.lines = orders[o].lines
      /\ o \notin touched => base.shipping = orders[o].shipping
  BY <1>2, <1>4, <1>5, SavedOverTyped DEF CartInv, ReadFits
<1>7. PICK state \in {"AddingItems", "ArrangingPayment", "Transferred"} : state = "Transferred"
  OBVIOUS
<1>8. ASSUME NEW x \in Order
      PROVE  /\ [x EXCEPT !.state = state] \in Order /\ [x EXCEPT !.state = state].session = x.session
             /\ [x EXCEPT !.state = state].lines = x.lines /\ [x EXCEPT !.state = state].state = state
             /\ [x EXCEPT !.state = state].shipping = x.shipping
  BY DEF Order
<1>9. PICK e : e = [base EXCEPT !.state = state]
  OBVIOUS
<1>10. /\ e \in Order /\ e.session = orders[o].session /\ e.lines = orders[o].lines
       /\ e.state = "Transferred" /\ (o \notin touched => e.shipping = orders[o].shipping)
  BY <1>6, <1>7, <1>8, <1>9
<1>11. orders' = [orders EXCEPT ![o] = e]
  BY <1>4, <1>7, <1>9
<1>12. DOMAIN orders' = DOMAIN orders /\ orders'[o] = e
  BY <1>5, <1>10, <1>11, OrderChanges DEF CartInv
<1>13. PICK read \in Row : /\ read = [row EXCEPT !.state = state] /\ read.state = "Transferred"
                           /\ read.session = row.session /\ read.shipping = row.shipping
  BY <1>7, <1>8 DEF Row
<1>14. PICK q \in Request : q = [pc |-> "closing", basket |-> b, read |-> read]
  BY DEF Request
<1>15. q.pc = "closing" /\ q.basket = b /\ q.read = read
  BY <1>14
<1>16. BasketFits(b)' /\ ReadFits(read, b)'
  BY <1>2, <1>3, <1>5, <1>10, <1>12, <1>13 DEF BasketFits, Shows, ShippingPositions, ReadFits
<1>17. Fits(q)'
  BY <1>2, <1>3, <1>5, <1>10, <1>12, <1>13, <1>15, <1>16 DEF Fits, Underway, Asking, Checked
<1>18. Taken(o)'
  BY <1>2, <1>3, <1>5, <1>16 DEF Taken, BasketFits
<1>19. e.session # NoSession /\ LinesAreOf(e.lines, e.session)
  BY <1>5, <1>10, ConstantsAssumption DEF Basket, CartInv, OrderFits
<1>20. request' = [request EXCEPT ![r] = q] /\ request[r].pc # "closing" /\ q.pc # "tagging"
  BY <1>3, <1>7, <1>13, <1>14, <1>15
<1>21. /\ touched \subseteq touched' /\ touched' \subseteq touched \cup {o}
       /\ overruled \subseteq overruled' /\ overruled' \subseteq overruled \cup {o}
       /\ confirmed' \subseteq confirmed \cup {o}
       /\ UNCHANGED <<linked, loggedIn, received, stranded, crashes>>
       /\ edits' \in 0..MaxEdits
  BY <1>3 DEF CartInv, TypeOK
<1>22. \/ o \in touched' \/ ~InTransfer(o)
       \/ e.lines = orders[o].lines /\ e.shipping = orders[o].shipping
  BY <1>3, <1>10
<1>23. q.pc = "closing" /\ q.basket.order = o
  BY <1>2, <1>15
<1>24. o \in confirmed' => o \in overruled' \/ e.state = "Transferred"
  BY <1>10
<1>25. o \in overruled' \/ ~InTransition(o) \/ e.state \in {orders[o].state, "Transferred"}
  BY <1>10
<1> QED
  BY <1>5, <1>10, <1>11, <1>17, <1>18, <1>19, <1>20, <1>21, <1>22, <1>23, <1>24, <1>25, ChangeStep

(* The order goes out of use, and only then is its transfer a success. *)
LEMMA CloseStep ==
    ASSUME CartInv, NEW r \in Requests, Close(r)
    PROVE  CartInv'
<1>1. PICK b \in Basket, row \in Row : b = request[r].basket /\ row = request[r].read
  BY RequestTyped DEF Close, Underway, Checked, CartInv
<1>2. PICK o : o = b.order
  OBVIOUS
<1>3. /\ request[r].pc = "closing" /\ confirmed' = confirmed \cup {o}
      /\ request' = [request EXCEPT ![r] = Idle]
      /\ UNCHANGED <<linked, loggedIn, received, touched, overruled, stranded, edits, crashes>>
  BY <1>1, <1>2 DEF Close, Become, history
<1>4. PICK base \in SavedOver(o, row) :
          orders' = [orders EXCEPT ![o] = [base EXCEPT !.active = FALSE]]
  BY <1>1, <1>2 DEF Close
<1>5. /\ o \in DOMAIN orders /\ BasketFits(b) /\ b \in received /\ ReadFits(row, b)
      /\ orders[o].session = b.session /\ row.state = "Transferred"
      /\ orders[o].state = "Transferred" \/ o \in overruled
  BY <1>1, <1>2, <1>3 DEF CartInv, Fits, Underway, Checked, BasketFits
<1>6. /\ base \in Order /\ base.session = orders[o].session /\ base.lines = orders[o].lines
      /\ base.state = "Transferred" \/ base.state = orders[o].state
      /\ o \notin touched => base.shipping = orders[o].shipping
  BY <1>2, <1>4, <1>5, SavedOverTyped DEF CartInv, ReadFits
<1>7. PICK active \in BOOLEAN : active = FALSE
  OBVIOUS
<1>8. /\ [base EXCEPT !.active = active] \in Order
      /\ [base EXCEPT !.active = active].session = base.session
      /\ [base EXCEPT !.active = active].lines = base.lines
      /\ [base EXCEPT !.active = active].state = base.state
      /\ [base EXCEPT !.active = active].shipping = base.shipping
      /\ [base EXCEPT !.active = active].active = active
  BY <1>6 DEF Order
<1>9. PICK e : e = [base EXCEPT !.active = active]
  OBVIOUS
<1>10. /\ e \in Order /\ e.session = orders[o].session /\ e.lines = orders[o].lines
       /\ e.state \in {orders[o].state, "Transferred"} /\ e.state = base.state
       /\ o \notin touched => e.shipping = orders[o].shipping
  BY <1>6, <1>8, <1>9
<1>11. ~e.active
  BY <1>7, <1>8, <1>9
<1>12. orders' = [orders EXCEPT ![o] = e]
  BY <1>4, <1>7, <1>9, Zenon
<1>13. DOMAIN orders' = DOMAIN orders /\ orders'[o] = e
  BY <1>5, <1>10, <1>12, OrderChanges DEF CartInv
<1>14. PICK q \in Request : q = Idle
  BY IdleFits
<1>15. Fits(q)' /\ q.pc # "tagging"
  BY <1>14 DEF Fits, Idle, Underway, Asking, Checked
<1>16. BasketFits(b)'
  BY <1>2, <1>3, <1>5, <1>10, <1>13 DEF BasketFits, Shows, ShippingPositions
<1>17. Taken(o)'
  BY <1>2, <1>3, <1>5, <1>16 DEF Taken, BasketFits
<1>18. e.session # NoSession /\ LinesAreOf(e.lines, e.session)
  BY <1>5, <1>10, ConstantsAssumption DEF Basket, CartInv, OrderFits
<1>19. request' = [request EXCEPT ![r] = q] /\ request[r].basket.order = o
  BY <1>1, <1>2, <1>3, <1>14
<1>20. /\ touched \subseteq touched' /\ touched' \subseteq touched \cup {o}
       /\ overruled \subseteq overruled' /\ overruled' \subseteq overruled \cup {o}
       /\ confirmed' \subseteq confirmed \cup {o}
       /\ UNCHANGED <<linked, loggedIn, received, stranded, crashes>>
       /\ edits' \in 0..MaxEdits
  BY <1>3 DEF CartInv, TypeOK
<1>21. \/ o \in touched' \/ ~InTransfer(o)
       \/ e.lines = orders[o].lines /\ e.shipping = orders[o].shipping
  BY <1>3, <1>10
<1>22. o \in confirmed' => o \in overruled' \/ e.state = "Transferred"
  BY <1>3, <1>5, <1>10
<1>23. o \in overruled' \/ ~InTransition(o) \/ e.state \in {orders[o].state, "Transferred"}
  BY <1>10
<1> QED
  BY <1>5, <1>10, <1>11, <1>12, <1>15, <1>17, <1>18, <1>19, <1>20, <1>21, <1>22, <1>23, ChangeStep

-----------------------------------------------------------------------------
(* The invariant *)

(* The invariant holds at the start. *)
LEMMA CartInvInit == Init => CartInv
<1> SUFFICES ASSUME Init PROVE CartInv
  OBVIOUS
<1>1. orders \in Seq(Order) /\ Len(orders) = 0 /\ DOMAIN orders = {}
  BY DEF Init
<1>2. \A r \in Requests : request[r].pc = "idle"
  BY DEF Init, Idle
<1>3. request \in [Requests -> Request]
  BY DEF Init, Request
<1>4. TypeOK
  BY <1>1, <1>2, <1>3, ConstantsAssumption DEF Init, TypeOK, InTransfer
<1>5. \A r \in Requests : Fits(request[r])
  BY <1>2 DEF Fits, Underway, Asking, Checked
<1>6. TagsAlone /\ SuccessIsTrue /\ TransferCloses
  BY <1>1, <1>2 DEF Init, TagsAlone, SuccessIsTrue, TransferCloses
<1> QED
  BY <1>1, <1>4, <1>5, <1>6 DEF CartInv, Init

(* Every step keeps the invariant. *)
LEMMA CartInvStep == CartInv /\ [Next]_vars => CartInv'
<1> SUFFICES ASSUME CartInv, [Next]_vars PROVE CartInv'
  OBVIOUS
<1>1. ASSUME NEW u \in Users, Authenticate(u) \/ LinkOrUnlink(u)
      PROVE  CartInv'
  BY <1>1, UserStep
<1>2. ASSUME NEW r \in Requests, NEW s \in Sessions, NEW u \in Users,
             QueryActiveOrder(r, s, u) \/ StartTransfer(r, s, u)
      PROVE  CartInv'
  BY <1>2, QueryActiveOrderStep, StartTransferStep
<1>3. ASSUME NEW r \in Requests, NEW s \in Sessions, NEW u \in Users \cup {Anonymous},
             StartEdit(r, s, u)
      PROVE  CartInv'
  BY <1>3, StartEditStep
<1>4. ASSUME NEW r \in Requests, Step(r)
      PROVE  CartInv'
  <2>1. CASE RefuseEdit(r) \/ PostBasket(r) \/ PostFails(r) \/ TransitionFails(r)
    BY <2>1, RefuseEditStep, PostBasketStep, PostFailsStep, TransitionFailsStep
  <2>2. CASE CheckEdit(r) \/ CheckMove(r) \/ CheckTransition(r)
    BY <2>2, CheckEditStep, CheckTransitionStep
  <2>3. CASE CreateOrder(r) \/ TagOrder(r) \/ CommitNewOrder(r)
    BY <2>3, CreateOrderStep, TagOrderStep, CommitNewOrderStep
  <2>4. CASE CommitEdit(r) \/ CheckoutOrBack(r) \/ Transition(r) \/ Close(r)
    BY <2>4, CommitEditStep, CheckoutOrBackStep, TransitionStep, CloseStep
  <2> QED
    BY <1>4, <2>1, <2>2, <2>3, <2>4 DEF Step
<1>5. ASSUME NEW r \in Requests, CutOff(r)
      PROVE  CartInv'
  BY <1>5, CutOffStep
<1>6. CASE UNCHANGED vars
  <2>1. UNCHANGED <<orders, linked, loggedIn, request, received, confirmed, touched, overruled,
                    stranded, edits, crashes>>
    BY <1>6 DEF vars, history
  <2>2. TypeOK'
    BY <2>1 DEF CartInv, TypeOK, InTransfer
  <2>3. \A r \in Requests : Fits(request[r])'
    BY <2>1 DEF CartInv, Fits, BasketFits, Shows, ShippingPositions, ReadFits
  <2>4. \A o \in DOMAIN orders' : OrderFits(o)'
    BY <2>1 DEF CartInv, OrderFits, Taken, Shows, ShippingPositions
  <2> QED
    BY <2>1, <2>2, <2>3, <2>4 DEF CartInv, TagsAlone, SuccessIsTrue, TransferCloses
<1> QED
  BY <1>1, <1>2, <1>3, <1>4, <1>5, <1>6 DEF Next

(* The invariant holds in every reachable state. *)
LEMMA CartInvariant == Spec => []CartInv
BY CartInvStep, CartInvInit, PTL DEF Spec

-----------------------------------------------------------------------------
(* Theorems *)

(* Every variable keeps its type; a request names only orders there are. *)
THEOREM TypeInvariant == Spec => []TypeOK
<1>1. CartInv => TypeOK
  BY DEF CartInv
<1> QED
  BY <1>1, CartInvariant, PTL

(* The gateway has what the shop closed, whatever edits, transfers, stale  *)
(* saves and lost answers came between: just the lines and the shipping of *)
(* the order unless they changed after a transfer had read them.           *)
THEOREM TransferredIsHandedOver == Spec => []HandedOver
<1>1. ASSUME CartInv, NEW o \in DOMAIN orders, NEW b, Shows(b, o), ShippingCostMode # "none"
      PROVE  ShippingPaid(b) = orders[o].shipping
  <2>1. orders[o].shipping \in Nat
    <3>1. orders[o] \in Order
      BY <1>1, OrderTyped DEF CartInv
    <3> QED
      BY <3>1, ConstantsAssumption DEF Order
  <2>2. b.shipping = ShippingPositions(orders[o])
    BY <1>1 DEF Shows
  <2>3. CASE b.shipping = {}
    BY <1>1, <2>1, <2>2, <2>3, ConstantsAssumption DEF ShippingPaid, ShippingPositions
  <2>4. CASE b.shipping # {}
    <3>1. b.shipping = {orders[o].shipping}
      BY <2>2, <2>4 DEF ShippingPositions
    <3>2. (CHOOSE f \in b.shipping : TRUE) \in b.shipping
      BY <2>4
    <3> QED
      BY <2>4, <3>1, <3>2 DEF ShippingPaid
  <2> QED
    BY <2>3, <2>4
<1>2. CartInv => HandedOver
  <2> SUFFICES ASSUME CartInv, NEW o \in DOMAIN orders, orders[o].state = "Transferred"
               PROVE  \E b \in received :
                          /\ b.order = o /\ b.session = orders[o].session
                          /\ o \notin touched =>
                                 /\ b.lines = orders[o].lines
                                 /\ ShippingCostMode # "none" =>
                                        ShippingPaid(b) = orders[o].shipping
    BY DEF HandedOver
  <2>1. PICK b \in received : /\ b.order = o /\ b.session = orders[o].session
                              /\ o \notin touched => Shows(b, o)
    BY DEF CartInv, OrderFits, Taken
  <2>2. o \notin touched => b.lines = orders[o].lines
    BY <2>1 DEF Shows
  <2> QED
    BY <1>1, <2>1, <2>2
<1> QED
  BY <1>2, CartInvariant, PTL

(* The carts of parallel sessions do not mix, neither in the shop nor at   *)
(* the gateway.                                                            *)
THEOREM CartsStayIsolated == Spec => []CartsAreIsolated
<1>1. CartInv => CartsAreIsolated
  BY DEF CartInv, OrderFits, LinesAreOf, CartsAreIsolated
<1> QED
  BY <1>1, CartInvariant, PTL

(* An order whose transfer answered success stays transferred, unless the  *)
(* storefront saved over it what it had read before.                       *)
THEOREM SuccessStaysTrue == Spec => []SuccessIsTrue
<1>1. CartInv => SuccessIsTrue
  BY DEF CartInv
<1> QED
  BY <1>1, CartInvariant, PTL

(* Only a transfer cut off between its two saves leaves an order that was  *)
(* transferred in use.                                                     *)
THEOREM TransfersClose == Spec => []TransferCloses
<1>1. CartInv => TransferCloses
  BY DEF CartInv
<1> QED
  BY <1>1, CartInvariant, PTL

=============================================================================
