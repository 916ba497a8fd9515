------------------------- MODULE VendureOrderProofs -------------------------
(***************************************************************************)
(* What the operations on an order preserve and return, and what its       *)
(* payments add up to, for the proofs of the payment plugins.              *)
(***************************************************************************)
EXTENDS VendureOrder, FiniteSetTheorems, TLAPS

(* An order in a paid state has been placed (orderPlacedAt is set). *)
PlacedIfPaid(o) ==
    o.state \in {"PaymentAuthorized", "PaymentSettled", "ArrangingAdditionalPayment"}
        => o.placed

PaymentRecord(Txs) == [tx : Txs, amount : Nat, state : PaymentState]

(* A transition keeps the order an order and touches neither its payments  *)
(* nor its total; the order process moves an unpaid order into a paid      *)
(* state only by way of ArrangingPayment, which places it.                 *)
LEMMA TransitionFacts ==
    ASSUME NEW Totals, NEW Txs, NEW o \in OrderRecord(Totals, Txs), NEW to \in OrderState
    PROVE  /\ Transitioned(o, to) \in OrderRecord(Totals, Txs)
           /\ Transitioned(o, to).payments = o.payments
           /\ Transitioned(o, to).state = to
           /\ Transitioned(o, to).total = o.total
           /\ o.placed => Transitioned(o, to).placed
           /\ PlacedIfPaid(o) /\ CanTransition(o, to) => PlacedIfPaid(Transitioned(o, to))
<1>1. o \in [state : OrderState, total : Totals, ready : BOOLEAN, placed : BOOLEAN,
             payments : Seq(PaymentRecord(Txs))]
  BY DEF OrderRecord, PaymentRecord
<1>2. /\ Transitioned(o, to) \in OrderRecord(Totals, Txs)
      /\ Transitioned(o, to).payments = o.payments
      /\ Transitioned(o, to).state = to
      /\ Transitioned(o, to).total = o.total
      /\ Transitioned(o, to).placed = (o.placed \/ /\ o.state = "ArrangingPayment"
                                                   /\ to \in {"PaymentAuthorized", "PaymentSettled"})
  BY <1>1 DEF Transitioned, OrderRecord, PaymentRecord
<1>3. ASSUME PlacedIfPaid(o), CanTransition(o, to)
      PROVE  PlacedIfPaid(Transitioned(o, to))
  <2>1. o.state \in OrderState /\ to \in NextStates[o.state]
    BY <1>1, <1>3 DEF CanTransition
  <2>2. to \in {"PaymentAuthorized", "PaymentSettled", "ArrangingAdditionalPayment"} =>
            o.state \in {"ArrangingPayment", "PaymentAuthorized", "PaymentSettled",
                         "ArrangingAdditionalPayment"}
    BY <2>1 DEF NextStates, OrderState
  <2>3. to = "ArrangingAdditionalPayment" => o.state # "ArrangingPayment"
    BY <2>1 DEF NextStates, OrderState
  <2> QED
    BY <1>2, <1>3, <2>2, <2>3 DEF PlacedIfPaid
<1> QED
  BY <1>2, <1>3

(* Moving on to a covered paid state changes only the state and placed. *)
LEMMA ProgressFacts ==
    ASSUME NEW Totals, NEW Txs, NEW o \in OrderRecord(Totals, Txs)
    PROVE  /\ Progressed(o) \in OrderRecord(Totals, Txs)
           /\ Progressed(o).payments = o.payments
           /\ PlacedIfPaid(o) => PlacedIfPaid(Progressed(o))
<1>1. "PaymentSettled" \in OrderState /\ "PaymentAuthorized" \in OrderState
  BY DEF OrderState
<1> QED
  BY <1>1, TransitionFacts DEF Progressed

(* Adding a payment appends it. *)
LEMMA WithPaymentFacts ==
    ASSUME NEW Totals, NEW Txs, NEW o \in OrderRecord(Totals, Txs),
           NEW p \in PaymentRecord(Txs)
    PROVE  /\ WithPayment(o, p) \in OrderRecord(Totals, Txs)
           /\ WithPayment(o, p).payments = Append(o.payments, p)
           /\ PlacedIfPaid(o) => PlacedIfPaid(WithPayment(o, p))
<1> DEFINE q == [o EXCEPT !.payments = Append(@, p)]
<1>0. o.payments \in Seq(PaymentRecord(Txs))
  BY DEF OrderRecord, PaymentRecord
<1>1. Append(o.payments, p) \in Seq(PaymentRecord(Txs))
  BY <1>0
<1>2. /\ q \in OrderRecord(Totals, Txs)
      /\ q.payments = Append(o.payments, p)
      /\ q.state = o.state /\ q.placed = o.placed
  BY <1>1 DEF OrderRecord, PaymentRecord
<1>3. PlacedIfPaid(o) => PlacedIfPaid(q)
  BY <1>2 DEF PlacedIfPaid
<1>4. WithPayment(o, p) = Progressed(q)
  BY DEF WithPayment
<1> HIDE DEF q
<1> QED
  BY <1>2, <1>3, <1>4, ProgressFacts

(* Settling a payment changes the state of that payment and of no other,   *)
LEMMA SettlingFacts ==
    ASSUME NEW Totals, NEW Txs, NEW o \in OrderRecord(Totals, Txs),
           NEW i \in DOMAIN o.payments
    PROVE  /\ Settling(o, i) \in OrderRecord(Totals, Txs)
           /\ Settling(o, i).payments = [o.payments EXCEPT ![i].state = "Settled"]
           /\ PlacedIfPaid(o) => PlacedIfPaid(Settling(o, i))
<1> DEFINE q == [o EXCEPT !.payments[i].state = "Settled"]
<1>0. o.payments \in Seq(PaymentRecord(Txs))
  BY DEF OrderRecord, PaymentRecord
<1>1. [o.payments EXCEPT ![i].state = "Settled"] \in Seq(PaymentRecord(Txs))
  <2>1. o.payments[i] \in PaymentRecord(Txs)
    BY <1>0
  <2>2. [o.payments[i] EXCEPT !.state = "Settled"] \in PaymentRecord(Txs)
    BY <2>1 DEF PaymentRecord, PaymentState
  <2> QED
    BY <1>0, <2>2
<1>2. /\ q \in OrderRecord(Totals, Txs)
      /\ q.payments = [o.payments EXCEPT ![i].state = "Settled"]
      /\ q.state = o.state /\ q.placed = o.placed
  BY <1>1 DEF OrderRecord, PaymentRecord
<1>3. PlacedIfPaid(o) => PlacedIfPaid(q)
  BY <1>2 DEF PlacedIfPaid
<1> QED
  BY <1>2, <1>3 DEF Settling

(* and moving the order afterwards changes no payment. *)
LEMMA WithSettledFacts ==
    ASSUME NEW Totals, NEW Txs, NEW o \in OrderRecord(Totals, Txs),
           NEW i \in DOMAIN o.payments
    PROVE  /\ WithSettled(o, i) \in OrderRecord(Totals, Txs)
           /\ WithSettled(o, i).payments = [o.payments EXCEPT ![i].state = "Settled"]
           /\ PlacedIfPaid(o) => PlacedIfPaid(WithSettled(o, i))
  BY SettlingFacts, ProgressFacts DEF WithSettled

-----------------------------------------------------------------------------
(* Sums.  MapThenSumSet adds up a finite set one chosen element at a time; *)
(* what it returns does not depend on the order, and can be compared term  *)
(* by term.  Each fact is shown for the smallest set that would refute it. *)

(* What the recursion inside MapThenSumSet defines.                        *)
IsSum(iter, f, S) ==
    iter = [s \in SUBSET S |->
               IF s = {} THEN 0
               ELSE f[CHOOSE x \in s : TRUE] + iter[s \ {CHOOSE x \in s : TRUE}]]

(* What f adds up to over S. *)
SumOf(f, S) == (CHOOSE iter : IsSum(iter, f, S))[S]

(* A collection of subsets of a finite set has a smallest one.             *)
LEMMA SmallestSubset ==
    ASSUME NEW S, IsFiniteSet(S), NEW Bad, Bad # {}, \A T \in Bad : T \subseteq S
    PROVE  \E T \in Bad : \A U \in Bad : U \subseteq T => U = T
<1>1. Bad \subseteq FiniteSubsetsOf(S)
  BY FS_Subset DEF FiniteSubsetsOf
<1>2. PICK T \in Bad : \A U \in Bad : <<U, T>> \notin StrictSubsetOrdering(S)
  BY <1>1, WFMin, FS_StrictSubsetOrderingWellFounded
<1>3. \A U \in Bad : U \subseteq T => U = T
  BY <1>2 DEF StrictSubsetOrdering
<1> QED
  BY <1>3

(* The element the recursion takes out is one of the set.                  *)
LEMMA ChosenIsIn == \A s : s # {} => (CHOOSE x \in s : TRUE) \in s
  OBVIOUS

(* Two such recursions agree where both are defined.                       *)
LEMMA SumsAgree ==
    ASSUME NEW S, NEW T, T \subseteq S, IsFiniteSet(T), NEW f,
           NEW g, IsSum(g, f, S), NEW h, IsSum(h, f, T)
    PROVE  g[T] = h[T]
<1> DEFINE Bad == {s \in SUBSET T : g[s] # h[s]}
<1>1. SUFFICES ASSUME Bad # {}
               PROVE  FALSE
  OBVIOUS
<1>2. PICK s \in Bad : \A u \in Bad : u \subseteq s => u = s
  <2>1. \A u \in Bad : u \subseteq T
    OBVIOUS
  <2> HIDE DEF Bad
  <2> QED
    BY <1>1, <2>1, SmallestSubset
<1>3. /\ s = {} => g[s] = 0 /\ h[s] = 0
      /\ s # {} => /\ g[s] = f[CHOOSE x \in s : TRUE] + g[s \ {CHOOSE x \in s : TRUE}]
                   /\ h[s] = f[CHOOSE x \in s : TRUE] + h[s \ {CHOOSE x \in s : TRUE}]
  BY DEF IsSum
<1>4. s # {} => g[s \ {CHOOSE x \in s : TRUE}] = h[s \ {CHOOSE x \in s : TRUE}]
  BY <1>2, ChosenIsIn
<1> QED
  BY <1>3, <1>4

(* There is such a recursion on every finite set.                          *)
LEMMA SumExists ==
    ASSUME NEW S, IsFiniteSet(S), NEW f
    PROVE  \E iter : IsSum(iter, f, S)
<1> DEFINE Bad == {s \in SUBSET S : ~\E iter : IsSum(iter, f, s)}
<1>1. SUFFICES ASSUME Bad # {}
               PROVE  FALSE
  OBVIOUS
<1>2. PICK s \in Bad : \A u \in Bad : u \subseteq s => u = s
  <2>1. \A u \in Bad : u \subseteq S
    OBVIOUS
  <2> HIDE DEF Bad
  <2> QED
    BY <1>1, <2>1, SmallestSubset
<1>3. \A u \in SUBSET s : IsFiniteSet(u)
  BY FS_Subset
<1>4. \A u \in SUBSET s : u # s => IsSum(CHOOSE iter : IsSum(iter, f, u), f, u)
  BY <1>2
<1> DEFINE Rest(t) == t \ {CHOOSE x \in t : TRUE}
           iter == [t \in SUBSET s |-> IF t = {} THEN 0
                                       ELSE f[CHOOSE x \in t : TRUE] + SumOf(f, Rest(t))]
<1>5. ASSUME NEW u \in SUBSET s, u # s
      PROVE  iter[u] = SumOf(f, u)
  <2> DEFINE h == CHOOSE i : IsSum(i, f, u)
  <2>1. IsSum(h, f, u)
    BY <1>4, <1>5
  <2>2. /\ u = {} => h[u] = 0
        /\ u # {} => h[u] = f[CHOOSE x \in u : TRUE] + h[Rest(u)]
    <3> HIDE DEF h
    <3> QED
      BY <2>1 DEF IsSum
  <2>3. u # {} => h[Rest(u)] = SumOf(f, Rest(u))
    <3>1. SUFFICES ASSUME u # {}
                   PROVE  h[Rest(u)] = SumOf(f, Rest(u))
      OBVIOUS
    <3> DEFINE r == Rest(u)
               k == CHOOSE i : IsSum(i, f, r)
    <3>2. r \subseteq u /\ r \in SUBSET s /\ r # s /\ IsFiniteSet(r)
      BY <1>3, <1>5
    <3>3. IsSum(k, f, r)
      <4> HIDE DEF r
      <4> QED
        BY <1>4, <3>2
    <3>4. h[r] = k[r]
      <4> HIDE DEF h, k, r
      <4> QED
        BY <2>1, <3>2, <3>3, SumsAgree
    <3> QED
      BY <3>4 DEF SumOf
  <2>4. SumOf(f, u) = h[u]
    BY DEF SumOf
  <2>5. iter[u] = IF u = {} THEN 0 ELSE f[CHOOSE x \in u : TRUE] + SumOf(f, Rest(u))
    OBVIOUS
  <2> HIDE DEF h, iter, Rest
  <2> QED
    BY <2>2, <2>3, <2>4, <2>5
<1>6. IsSum(iter, f, s)
  <2>1. \A t \in SUBSET s : t # {} => Rest(t) \in SUBSET s /\ Rest(t) # s
    BY ChosenIsIn
  <2>2. \A t \in SUBSET s : t # {} => iter[Rest(t)] = SumOf(f, Rest(t))
    <3> HIDE DEF iter, Rest
    <3> QED
      BY <1>5, <2>1
  <2>3. \A t \in SUBSET s : iter[t] = IF t = {} THEN 0
                                     ELSE f[CHOOSE x \in t : TRUE] + SumOf(f, Rest(t))
    OBVIOUS
  <2>4. iter = [t \in SUBSET s |-> iter[t]]
    OBVIOUS
  <2> HIDE DEF iter
  <2>5. \A t \in SUBSET s : iter[t] = IF t = {} THEN 0
                                     ELSE f[CHOOSE x \in t : TRUE] + iter[Rest(t)]
    BY <2>2, <2>3
  <2> QED
    BY <2>4, <2>5 DEF IsSum
<1> QED
  BY <1>2, <1>6

(* Any such recursion returns the sum.                                     *)
LEMMA SumsAreSums ==
    ASSUME NEW S, IsFiniteSet(S), NEW f, NEW iter, IsSum(iter, f, S)
    PROVE  iter[S] = SumOf(f, S)
<1> DEFINE a == CHOOSE i : IsSum(i, f, S)
<1>1. IsSum(a, f, S)
  OBVIOUS
<1>2. SumOf(f, S) = a[S]
  BY DEF SumOf
<1> HIDE DEF a
<1> QED
  BY <1>1, <1>2, SumsAgree

(* A sum depends on the terms of its elements alone.                       *)
LEMMA SumsOfSameTerms ==
    ASSUME NEW S, IsFiniteSet(S), NEW f, NEW g, \A x \in S : f[x] = g[x]
    PROVE  SumOf(f, S) = SumOf(g, S)
<1>1. PICK iter : IsSum(iter, f, S)
  BY SumExists
<1>2. \A s \in SUBSET S : s # {} => f[CHOOSE x \in s : TRUE] = g[CHOOSE x \in s : TRUE]
  BY ChosenIsIn
<1>3. IsSum(iter, g, S)
  BY <1>1, <1>2 DEF IsSum
<1> QED
  BY <1>1, <1>3, SumsAreSums

(* Nothing adds up to zero; otherwise some element is added to the rest.   *)
LEMMA SumEquation ==
    ASSUME NEW S, IsFiniteSet(S), NEW f
    PROVE  /\ S = {} => SumOf(f, S) = 0
           /\ S # {} => \E x \in S : SumOf(f, S) = f[x] + SumOf(f, S \ {x})
<1> DEFINE g == CHOOSE iter : IsSum(iter, f, S)
<1>1. IsSum(g, f, S)
  BY SumExists
<1>2. SumOf(f, S) = g[S]
  BY DEF SumOf
<1> HIDE DEF g
<1>3. S = {} => g[S] = 0
  BY <1>1 DEF IsSum
<1>4. ASSUME S # {}
      PROVE  \E x \in S : SumOf(f, S) = f[x] + SumOf(f, S \ {x})
  <2> DEFINE x == CHOOSE x \in S : TRUE
             T == S \ {x}
             h == CHOOSE iter : IsSum(iter, f, T)
  <2>1. x \in S
    BY <1>4
  <2>2. g[S] = f[x] + g[T]
    BY <1>1, <1>4 DEF IsSum
  <2>3. T \subseteq S /\ IsFiniteSet(T)
    BY FS_Subset
  <2>4. IsSum(h, f, T)
    <3> HIDE DEF T
    <3> QED
      BY <2>3, SumExists
  <2>5. g[T] = h[T]
    <3> HIDE DEF T, h
    <3> QED
      BY <1>1, <2>3, <2>4, SumsAgree
  <2>6. SumOf(f, T) = h[T]
    BY DEF SumOf
  <2> QED
    BY <1>2, <2>1, <2>2, <2>5, <2>6
<1> QED
  BY <1>2, <1>3, <1>4

(* A sum of numbers is a number.                                           *)
LEMMA SumIsNatural ==
    ASSUME NEW S, IsFiniteSet(S), NEW f, \A x \in S : f[x] \in Nat
    PROVE  SumOf(f, S) \in Nat
<1> DEFINE Bad == {T \in SUBSET S : SumOf(f, T) \notin Nat}
<1>1. SUFFICES ASSUME Bad # {}
               PROVE  FALSE
  OBVIOUS
<1>2. PICK T \in Bad : \A U \in Bad : U \subseteq T => U = T
  <2>1. \A u \in Bad : u \subseteq S
    OBVIOUS
  <2> HIDE DEF Bad
  <2> QED
    BY <1>1, <2>1, SmallestSubset
<1>3. IsFiniteSet(T)
  BY FS_Subset
<1>4. T # {}
  BY <1>3, SumEquation
<1>5. PICK x \in T : SumOf(f, T) = f[x] + SumOf(f, T \ {x})
  BY <1>3, <1>4, SumEquation
<1>6. SumOf(f, T \ {x}) \in Nat
  BY <1>2
<1> QED
  BY <1>5, <1>6

(* Any element can be taken out first.                                     *)
LEMMA SumRemove ==
    ASSUME NEW S, IsFiniteSet(S), NEW f, \A x \in S : f[x] \in Nat, NEW y \in S
    PROVE  SumOf(f, S) = f[y] + SumOf(f, S \ {y})
<1> DEFINE Bad == {T \in SUBSET S : \E z \in T : SumOf(f, T) # f[z] + SumOf(f, T \ {z})}
<1>1. SUFFICES ASSUME Bad # {}
               PROVE  FALSE
  OBVIOUS
<1>2. PICK T \in Bad : \A U \in Bad : U \subseteq T => U = T
  <2>1. \A u \in Bad : u \subseteq S
    OBVIOUS
  <2> HIDE DEF Bad
  <2> QED
    BY <1>1, <2>1, SmallestSubset
<1>3. IsFiniteSet(T) /\ \A U \in SUBSET T : IsFiniteSet(U)
  BY FS_Subset
<1>4. PICK z \in T : SumOf(f, T) # f[z] + SumOf(f, T \ {z})
  OBVIOUS
<1>5. PICK x \in T : SumOf(f, T) = f[x] + SumOf(f, T \ {x})
  BY <1>3, SumEquation
<1>6. x # z
  BY <1>4, <1>5
<1>7. SumOf(f, T \ {x}) = f[z] + SumOf(f, (T \ {x}) \ {z})
  <2>1. T \ {x} \notin Bad
    BY <1>2
  <2> QED
    BY <1>6, <2>1
<1>8. SumOf(f, T \ {z}) = f[x] + SumOf(f, (T \ {z}) \ {x})
  <2>1. T \ {z} \notin Bad
    BY <1>2
  <2> QED
    BY <1>6, <2>1
<1>9. (T \ {z}) \ {x} = (T \ {x}) \ {z}
  OBVIOUS
<1>10. SumOf(f, (T \ {x}) \ {z}) \in Nat
  <2> DEFINE U == (T \ {x}) \ {z}
  <2>1. IsFiniteSet(U) /\ \A v \in U : f[v] \in Nat
    BY <1>3
  <2> HIDE DEF U
  <2>2. SumOf(f, U) \in Nat
    BY <2>1, SumIsNatural
  <2> QED
    BY <2>2 DEF U
<1>11. f[x] \in Nat /\ f[z] \in Nat
  OBVIOUS
<1> QED
  BY <1>4, <1>5, <1>7, <1>8, <1>9, <1>10, <1>11

(* A sum whose terms, but for zeros, are different terms of another sum is *)
(* no greater than that one: h says which term is which.                   *)
LEMMA SumOfPart ==
    ASSUME NEW S, IsFiniteSet(S), NEW f, \A x \in S : f[x] \in Nat,
           NEW R, IsFiniteSet(R), NEW g, \A x \in R : g[x] \in Nat,
           NEW h, \A x \in S : f[x] # 0 => h[x] \in R /\ f[x] = g[h[x]],
           \A x, y \in S : h[x] = h[y] => x = y
    PROVE  SumOf(f, S) <= SumOf(g, R)
<1> DEFINE Into(T, U) == \A x \in T : f[x] # 0 => h[x] \in U
           Bad == {T \in SUBSET S :
                      \E U \in SUBSET R : Into(T, U) /\ ~(SumOf(f, T) <= SumOf(g, U))}
<1>1. SUFFICES ASSUME Bad # {}
               PROVE  FALSE
  <2>1. S \notin Bad => SumOf(f, S) <= SumOf(g, R)
    OBVIOUS
  <2> QED
    BY <2>1
<1>2. PICK T \in Bad : \A U \in Bad : U \subseteq T => U = T
  <2>1. \A u \in Bad : u \subseteq S
    OBVIOUS
  <2> HIDE DEF Bad
  <2> QED
    BY <1>1, <2>1, SmallestSubset
<1>3. PICK U \in SUBSET R : Into(T, U) /\ ~(SumOf(f, T) <= SumOf(g, U))
  OBVIOUS
<1>4. IsFiniteSet(T) /\ IsFiniteSet(U)
  BY FS_Subset
<1>5. SumOf(g, U) \in Nat
  BY <1>4, SumIsNatural
<1>6. T # {}
  <2>1. T = {} => SumOf(f, T) = 0
    BY <1>4, SumEquation
  <2> QED
    BY <1>3, <1>5, <2>1
<1>7. PICK x \in T : SumOf(f, T) = f[x] + SumOf(f, T \ {x})
  BY <1>4, <1>6, SumEquation
<1>8. \A V \in SUBSET R : Into(T \ {x}, V) => SumOf(f, T \ {x}) <= SumOf(g, V)
  <2>1. T \ {x} \notin Bad
    BY <1>2
  <2> QED
    BY <2>1
<1>9. SumOf(f, T \ {x}) \in Nat
  <2> DEFINE V == T \ {x}
  <2>1. IsFiniteSet(V) /\ \A v \in V : f[v] \in Nat
    BY <1>4, FS_Subset
  <2> HIDE DEF V
  <2>2. SumOf(f, V) \in Nat
    BY <2>1, SumIsNatural
  <2> QED
    BY <2>2 DEF V
<1>10. CASE f[x] = 0
  <2>1. SumOf(f, T \ {x}) <= SumOf(g, U)
    BY <1>3, <1>8
  <2> QED
    BY <1>3, <1>7, <1>9, <1>10, <2>1
<1>11. CASE f[x] # 0
  <2>1. h[x] \in U /\ f[x] = g[h[x]]
    BY <1>3, <1>11
  <2>2. Into(T \ {x}, U \ {h[x]})
    BY <1>3
  <2>3. SumOf(f, T \ {x}) <= SumOf(g, U \ {h[x]})
    BY <1>8, <2>2
  <2>4. SumOf(g, U) = g[h[x]] + SumOf(g, U \ {h[x]})
    BY <1>4, <2>1, SumRemove
  <2>5. SumOf(g, U \ {h[x]}) \in Nat
    <3> DEFINE V == U \ {h[x]}
    <3>1. IsFiniteSet(V) /\ \A v \in V : g[v] \in Nat
      BY <1>4, FS_Subset
    <3> HIDE DEF V
    <3>2. SumOf(g, V) \in Nat
      BY <3>1, SumIsNatural
    <3> QED
      BY <3>2 DEF V
  <2>6. f[x] \in Nat
    OBVIOUS
  <2> QED
    BY <1>3, <1>7, <1>9, <2>1, <2>3, <2>4, <2>5, <2>6
<1> QED
  BY <1>10, <1>11

-----------------------------------------------------------------------------
(* What the payments of an order add up to. *)

Amounts(o) == [i \in DOMAIN o.payments |-> o.payments[i].amount]

PaymentsIn(o, states) == {i \in DOMAIN o.payments : o.payments[i].state \in states}

(* totalCoveredByPayments is the sum of the amounts in the given states.   *)
LEMMA CoveredIsSum ==
    ASSUME NEW o, NEW states, IsFiniteSet(DOMAIN o.payments)
    PROVE  CoveredBy(o, states) = SumOf(Amounts(o), PaymentsIn(o, states))
<1> DEFINE S == PaymentsIn(o, states)
           iter == CHOOSE h : h = [s \in SUBSET S |->
                       IF s = {} THEN 0
                       ELSE o.payments[CHOOSE x \in s : TRUE].amount
                                + h[s \ {CHOOSE x \in s : TRUE}]]
<1>1. CoveredBy(o, states) = iter[S]
  BY Zenon DEF CoveredBy, MapThenSumSet, MapThenFoldSet, PaymentsIn
<1>2. IsFiniteSet(S) /\ \A x \in S : Amounts(o)[x] = o.payments[x].amount
  BY FS_Subset DEF PaymentsIn, Amounts
<1> HIDE DEF S
<1>3. \A s \in SUBSET S : s # {} =>
          Amounts(o)[CHOOSE x \in s : TRUE] = o.payments[CHOOSE x \in s : TRUE].amount
  BY <1>2, ChosenIsIn
<1>4. PICK g : IsSum(g, Amounts(o), S)
  BY <1>2, SumExists
<1>5. g = [s \in SUBSET S |->
              IF s = {} THEN 0
              ELSE o.payments[CHOOSE x \in s : TRUE].amount + g[s \ {CHOOSE x \in s : TRUE}]]
  BY <1>3, <1>4 DEF IsSum
<1>6. iter = [s \in SUBSET S |->
                 IF s = {} THEN 0
                 ELSE o.payments[CHOOSE x \in s : TRUE].amount
                          + iter[s \ {CHOOSE x \in s : TRUE}]]
  BY <1>5
<1> HIDE DEF iter
<1>7. IsSum(iter, Amounts(o), S)
  BY <1>3, <1>6 DEF IsSum
<1>8. iter[S] = SumOf(Amounts(o), S)
  BY <1>2, <1>7, SumsAreSums
<1> QED
  BY <1>1, <1>8 DEF S

(* The positions of an order's payments.                                   *)
LEMMA PaymentsTyped ==
    ASSUME NEW Totals, NEW Txs, NEW o \in OrderRecord(Totals, Txs)
    PROVE  /\ IsFiniteSet(DOMAIN o.payments)
           /\ \A i \in DOMAIN o.payments :
                  o.payments[i] \in PaymentRecord(Txs) /\ Amounts(o)[i] \in Nat
<1>1. o.payments \in Seq(PaymentRecord(Txs))
  BY DEF OrderRecord, PaymentRecord
<1>2. DOMAIN o.payments = 1..Len(o.payments) /\ Len(o.payments) \in Nat
  BY <1>1
<1>3. IsFiniteSet(DOMAIN o.payments)
  BY <1>2, FS_Interval
<1>4. \A i \in DOMAIN o.payments : o.payments[i] \in PaymentRecord(Txs)
  BY <1>1
<1> QED
  BY <1>3, <1>4 DEF PaymentRecord, Amounts

(* What covers an order is a number.                                       *)
LEMMA CoveredIsNatural ==
    ASSUME NEW Totals, NEW Txs, NEW o \in OrderRecord(Totals, Txs), NEW states
    PROVE  CoveredBy(o, states) \in Nat
<1> DEFINE S == PaymentsIn(o, states)
           f == Amounts(o)
<1>1. IsFiniteSet(DOMAIN o.payments) /\ \A i \in DOMAIN o.payments : f[i] \in Nat
  BY PaymentsTyped
<1>2. IsFiniteSet(S) /\ \A i \in S : f[i] \in Nat
  BY <1>1, FS_Subset DEF PaymentsIn
<1>3. CoveredBy(o, states) = SumOf(f, S)
  BY <1>1, CoveredIsSum
<1> HIDE DEF S, f
<1> QED
  BY <1>2, <1>3, SumIsNatural

(* Orders with the same payments are covered alike.                        *)
LEMMA CoveredAlike ==
    ASSUME NEW o, NEW p, o.payments = p.payments, IsFiniteSet(DOMAIN o.payments), NEW states
    PROVE  CoveredBy(o, states) = CoveredBy(p, states)
<1>1. /\ CoveredBy(o, states) = SumOf(Amounts(o), PaymentsIn(o, states))
      /\ CoveredBy(p, states) = SumOf(Amounts(p), PaymentsIn(p, states))
  BY CoveredIsSum
<1>2. Amounts(o) = Amounts(p) /\ PaymentsIn(o, states) = PaymentsIn(p, states)
  BY DEF Amounts, PaymentsIn
<1> QED
  BY <1>1, <1>2

(* An order in PaymentSettled is covered by settled payments.              *)
CoveredIfSettled(o) ==
    o.state = "PaymentSettled" => CoveredBy(o, {"Settled"}) >= o.total

(* The order process lets an order into PaymentSettled only when it is.    *)
LEMMA TransitionCovers ==
    ASSUME NEW Totals, NEW Txs, NEW o \in OrderRecord(Totals, Txs), NEW to \in OrderState,
           CanTransition(o, to)
    PROVE  CoveredIfSettled(Transitioned(o, to))
<1> DEFINE t == Transitioned(o, to)
<1>1. t.payments = o.payments /\ t.state = to /\ t.total = o.total
  BY TransitionFacts
<1>2. IsFiniteSet(DOMAIN o.payments)
  BY PaymentsTyped
<1> HIDE DEF t
<1>3. CoveredBy(t, {"Settled"}) = CoveredBy(o, {"Settled"})
  BY <1>1, <1>2, CoveredAlike
<1>4. to = "PaymentSettled" => CoveredBy(o, {"Settled"}) >= o.total
  BY DEF CanTransition
<1> QED
  BY <1>1, <1>3, <1>4 DEF CoveredIfSettled, t

(* So does moving on after a booking.                                      *)
LEMMA ProgressCovers ==
    ASSUME NEW Totals, NEW Txs, NEW o \in OrderRecord(Totals, Txs), CoveredIfSettled(o)
    PROVE  CoveredIfSettled(Progressed(o))
<1>1. "PaymentSettled" \in OrderState /\ "PaymentAuthorized" \in OrderState
  BY DEF OrderState
<1> QED
  BY <1>1, TransitionCovers DEF Progressed

(* A payment is added while the order is being arranged.                   *)
LEMMA WithPaymentCovers ==
    ASSUME NEW Totals, NEW Txs, NEW o \in OrderRecord(Totals, Txs), CanAddPayment(o),
           NEW p \in PaymentRecord(Txs)
    PROVE  CoveredIfSettled(WithPayment(o, p))
<1> DEFINE q == [o EXCEPT !.payments = Append(@, p)]
<1>0. o.payments \in Seq(PaymentRecord(Txs))
  BY DEF OrderRecord, PaymentRecord
<1>1. Append(o.payments, p) \in Seq(PaymentRecord(Txs))
  BY <1>0
<1>2. q \in OrderRecord(Totals, Txs) /\ q.state = o.state
  BY <1>1 DEF OrderRecord, PaymentRecord
<1>3. CoveredIfSettled(q)
  BY <1>2 DEF CoveredIfSettled, CanAddPayment, ArrangingStates
<1>4. WithPayment(o, p) = Progressed(q)
  BY DEF WithPayment
<1> HIDE DEF q
<1> QED
  BY <1>2, <1>3, <1>4, ProgressCovers

(* Settling a payment covers the order no less than before.                *)
LEMMA SettlingCovers ==
    ASSUME NEW Totals, Totals \subseteq Nat, NEW Txs, NEW o \in OrderRecord(Totals, Txs),
           NEW i \in DOMAIN o.payments, CoveredIfSettled(o)
    PROVE  CoveredIfSettled(Settling(o, i))
<1> DEFINE q == [o EXCEPT !.payments[i].state = "Settled"]
           S == PaymentsIn(o, {"Settled"})
           R == PaymentsIn(q, {"Settled"})
           f == Amounts(o)
           g == Amounts(q)
<1>0. /\ o.payments \in Seq(PaymentRecord(Txs))
      /\ o \in [state : OrderState, total : Totals, ready : BOOLEAN, placed : BOOLEAN,
                payments : Seq(PaymentRecord(Txs))]
  BY DEF OrderRecord, PaymentRecord
<1>1. [o.payments EXCEPT ![i].state = "Settled"] \in Seq(PaymentRecord(Txs))
  <2>1. o.payments[i] \in PaymentRecord(Txs)
    BY <1>0
  <2>2. [o.payments[i] EXCEPT !.state = "Settled"] \in PaymentRecord(Txs)
    BY <2>1 DEF PaymentRecord, PaymentState
  <2> QED
    BY <1>0, <2>2
<1>2. /\ q \in OrderRecord(Totals, Txs)
      /\ q.payments = [o.payments EXCEPT ![i].state = "Settled"]
      /\ q.state = o.state /\ q.total = o.total
  BY <1>0, <1>1 DEF OrderRecord, PaymentRecord
<1>3. Settling(o, i) = q
  BY DEF Settling
<1> HIDE DEF q
<1>4. /\ IsFiniteSet(DOMAIN o.payments) /\ \A j \in DOMAIN o.payments : f[j] \in Nat
      /\ IsFiniteSet(DOMAIN q.payments) /\ \A j \in DOMAIN q.payments : g[j] \in Nat
      /\ \A j \in DOMAIN o.payments : o.payments[j] \in PaymentRecord(Txs)
  BY <1>2, PaymentsTyped
<1>5. /\ DOMAIN q.payments = DOMAIN o.payments
      /\ \A j \in DOMAIN o.payments :
             /\ q.payments[j].amount = o.payments[j].amount
             /\ o.payments[j].state = "Settled" => q.payments[j].state = "Settled"
  BY <1>2, <1>4 DEF PaymentRecord
<1>6. S \subseteq R /\ \A j \in S : f[j] = g[j]
  BY <1>5 DEF PaymentsIn, Amounts
<1>7. IsFiniteSet(S) /\ IsFiniteSet(R) /\ (\A j \in S : f[j] \in Nat) /\ \A j \in R : g[j] \in Nat
  BY <1>4, FS_Subset DEF PaymentsIn
<1>8. /\ CoveredBy(o, {"Settled"}) = SumOf(f, S)
      /\ CoveredBy(q, {"Settled"}) = SumOf(g, R)
  BY <1>4, CoveredIsSum
<1>9. SumOf(f, S) <= SumOf(g, R)
  <2> DEFINE h == [j \in S |-> j]
  <2>1. /\ \A j \in S : f[j] # 0 => h[j] \in R /\ f[j] = g[h[j]]
        /\ \A j, k \in S : h[j] = h[k] => j = k
    BY <1>6
  <2> HIDE DEF S, R, f, g, h
  <2> QED
    BY <1>7, <2>1, SumOfPart
<1>10. CoveredBy(o, {"Settled"}) \in Nat /\ CoveredBy(q, {"Settled"}) \in Nat /\ o.total \in Nat
  BY <1>0, <1>2, CoveredIsNatural
<1> HIDE DEF S, R, f, g
<1>11. CoveredIfSettled(q)
  BY <1>2, <1>8, <1>9, <1>10 DEF CoveredIfSettled
<1> QED
  BY <1>3, <1>11

(* So does settling it and moving the order on.                            *)
LEMMA WithSettledCovers ==
    ASSUME NEW Totals, Totals \subseteq Nat, NEW Txs, NEW o \in OrderRecord(Totals, Txs),
           NEW i \in DOMAIN o.payments, CoveredIfSettled(o)
    PROVE  CoveredIfSettled(WithSettled(o, i))
  BY SettlingFacts, SettlingCovers, ProgressCovers DEF WithSettled

(* What a provider took, as [p |-> amount] over the payments it was paid,  *)
(* covers a settled order each of whose payments was recorded once: every  *)
(* settled record that is not zero is a different payment the provider     *)
(* took in that amount.                                                    *)
LEMMA SettledIsTaken ==
    ASSUME NEW Totals, Totals \subseteq Nat, NEW Txs, NEW o \in OrderRecord(Totals, Txs),
           CoveredIfSettled(o), o.state = "PaymentSettled",
           \A i, j \in DOMAIN o.payments : o.payments[i].tx = o.payments[j].tx => i = j,
           NEW R, IsFiniteSet(R), NEW taken, \A p \in R : taken[p] \in Nat,
           \A i \in DOMAIN o.payments :
               o.payments[i].state = "Settled" /\ o.payments[i].amount # 0 =>
                   /\ o.payments[i].tx \in R
                   /\ o.payments[i].amount = taken[o.payments[i].tx]
    PROVE  SumOf(taken, R) >= o.total
<1> DEFINE S == PaymentsIn(o, {"Settled"})
           f == Amounts(o)
           h == [i \in DOMAIN o.payments |-> o.payments[i].tx]
<1>1. IsFiniteSet(DOMAIN o.payments) /\ \A i \in DOMAIN o.payments : f[i] \in Nat
  BY PaymentsTyped
<1>2. /\ IsFiniteSet(S) /\ \A i \in S : f[i] \in Nat
      /\ \A i \in S : f[i] # 0 => h[i] \in R /\ f[i] = taken[h[i]]
      /\ \A i, j \in S : h[i] = h[j] => i = j
  BY <1>1, FS_Subset DEF PaymentsIn, Amounts
<1>3. CoveredBy(o, {"Settled"}) = SumOf(f, S)
  BY <1>1, CoveredIsSum
<1>4. o.total \in Nat
  BY DEF OrderRecord
<1> HIDE DEF S, f, h
<1>5. SumOf(f, S) <= SumOf(taken, R)
  BY <1>2, SumOfPart
<1>6. SumOf(f, S) \in Nat /\ SumOf(taken, R) \in Nat
  BY <1>2, SumIsNatural
<1>7. SumOf(f, S) >= o.total
  BY <1>3 DEF CoveredIfSettled
<1> QED
  BY <1>4, <1>5, <1>6, <1>7
=============================================================================
