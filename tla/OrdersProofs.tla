---------------------------- MODULE OrdersProofs ----------------------------
(***************************************************************************)
(* Proofs about the order life cycle, for any number of orders, variants   *)
(* and admin edits.  The inductive invariant is the type invariant with    *)
(* the three invariants that relate an order's columns to one another;     *)
(* each of the three needs only its own half and the types.  The ledger    *)
(* needs besides that nothing is counted of an order before it is placed.  *)
(***************************************************************************)
EXTENDS Orders, TotalsProofs, TLAPS

LEMMA TypeInit == Init => TypeOK
  BY InitStockAssumption, MaxQtyAssumption
     DEF Init, TypeOK, Status, PayStatus, Method, ReturnStatus, Age, NoItems

\* A decision leads to a return status, and none leads out of "refunded".
LEMMA Transitions ==
  ASSUME NEW r \in ReturnStatus \cup {"none"}
  PROVE  /\ AllowedTransitions(r) \subseteq ReturnStatus
         /\ r = "refunded" => AllowedTransitions(r) = {}
  BY DEF AllowedTransitions, ReturnStatus

LEMMA TypeStep == TypeOK /\ [Next]_vars => TypeOK'
<1> SUFFICES ASSUME TypeOK, [Next]_vars
             PROVE  TypeOK'
  OBVIOUS
<1> USE DEF TypeOK, shop, order, clock, provider, ghost
<1>1. CASE UNCHANGED vars
  BY <1>1 DEF vars
<1>2. ASSUME NEW o \in Orders, NEW b \in Baskets, NEW m \in Method, PlaceOrder(o, b, m)
      PROVE  TypeOK'
  <2>1. b \in [Variants -> 0 .. MaxQty]
    BY DEF Baskets
  <2>2. ASSUME NEW v \in Variants
        PROVE  stock[v] - b[v] \in Nat
    <3>1. b[v] \in Nat /\ stock[v] \in Nat
      BY <2>1, MaxQtyAssumption
    <3>2. b[v] > 0 => stock[v] >= b[v]
      BY <1>2 DEF PlaceOrder, CanTake
    <3> QED
      BY <3>1, <3>2
  <2>3. stock' \in [Variants -> Nat]
    BY <1>2, <2>2 DEF PlaceOrder
  <2>4. InitialStatus(m) \in Status
    BY DEF InitialStatus, Status
  <2> QED
    BY <1>2, <2>1, <2>3, <2>4 DEF PlaceOrder, RecordStatus
<1>3. ASSUME NEW o \in Orders, AttachRazorpayOrderId(o)
      PROVE  TypeOK'
  BY <1>3 DEF AttachRazorpayOrderId
<1>4. ASSUME NEW o \in Orders, RazorpayCallFails(o)
      PROVE  TypeOK'
  BY <1>4 DEF RazorpayCallFails
<1>5. ASSUME NEW o \in Orders, ProviderCaptures(o)
      PROVE  TypeOK'
  BY <1>5 DEF ProviderCaptures
<1>6. ASSUME NEW o \in Orders, ProviderDeclines(o)
      PROVE  TypeOK'
  BY <1>6 DEF ProviderDeclines
<1>7. ASSUME NEW o \in Orders, MarkOrderPaid(o)
      PROVE  TypeOK'
  BY <1>7 DEF MarkOrderPaid, RecordStatus, Status, PayStatus
<1>8. ASSUME NEW o \in Orders, MarkPaymentFailed(o)
      PROVE  TypeOK'
  BY <1>8 DEF MarkPaymentFailed, PayStatus
<1>9. ASSUME NEW o \in Orders
      PROVE  RestoreStock(o) => stock' \in [Variants -> Nat]
  BY <1>9, MaxQtyAssumption DEF RestoreStock
<1>10. ASSUME NEW o \in Orders, CancelOrderByCustomer(o)
       PROVE  TypeOK'
  BY <1>9, <1>10 DEF CancelOrderByCustomer, RecordStatus, Status
<1>11. CASE FindStaleOrders
  BY <1>11 DEF FindStaleOrders
<1>12. ASSUME NEW o \in Orders, CancelStaleOrder(o)
       PROVE  TypeOK'
  <2>1. CASE StillStale(o)
    <3>1. /\ RestoreStock(o)
          /\ status' = [status EXCEPT ![o] = "cancelled"]
          /\ pay' = [pay EXCEPT ![o] = "failed"]
          /\ lastTo' = [lastTo EXCEPT ![o] = "cancelled"]
          /\ candidates' = candidates \ {o}
      BY <1>12, <2>1 DEF CancelStaleOrder, RecordStatus
    <3>2. stock' \in [Variants -> Nat]
      BY <1>9, <3>1
    <3> QED
      BY <1>12, <3>1, <3>2 DEF CancelStaleOrder, Status, PayStatus
  <2>2. CASE ~StillStale(o)
    BY <1>12, <2>2 DEF CancelStaleOrder
  <2> QED
    BY <2>1, <2>2
<1>13. ASSUME NEW o \in Orders, StaleOrderFails(o)
       PROVE  TypeOK'
  BY <1>13 DEF StaleOrderFails
<1>14. ASSUME NEW o \in Orders, NEW s \in Status, UpdateOrderStatus(o, s)
       PROVE  TypeOK'
  <2>1. drift' \in [Orders -> Int]
    BY <1>14 DEF UpdateOrderStatus
  <2>2. moves' \in Nat
    BY <1>14 DEF UpdateOrderStatus, AdminMoves
  <2> QED
    BY <1>14, <2>1, <2>2 DEF UpdateOrderStatus, RecordStatus
<1>15. ASSUME NEW v \in Variants, NEW n \in 0 .. MaxStock, SetVariantStock(v, n)
       PROVE  TypeOK'
  BY <1>15, MaxStockAssumption DEF SetVariantStock, AdminMoves
<1>16. ASSUME NEW v \in Variants, SetVariantActive(v)
       PROVE  TypeOK'
  BY <1>16 DEF SetVariantActive, AdminMoves
<1>17. ASSUME NEW o \in Orders, NEW w \in Windows, CreateReturnRequest(o, w)
       PROVE  TypeOK'
  BY <1>17 DEF CreateReturnRequest, ReturnStatus
<1>18. ASSUME NEW o \in Orders, NEW s \in ReturnStatus, DecideReturn(o, s)
       PROVE  TypeOK'
  BY <1>18 DEF DecideReturn, PayStatus
<1>19. ASSUME NEW o \in Orders, BecomeOverdue(o)
       PROVE  TypeOK'
  BY <1>19 DEF BecomeOverdue
<1>20. ASSUME NEW o \in Orders, DeliveryAges(o)
       PROVE  TypeOK'
  <2>1. age[o] \in 0 .. 2
    BY DEF Age
  <2>2. age[o] < 2
    BY <1>20 DEF DeliveryAges
  <2>3. age[o] + 1 \in Age
    BY ONLY <2>1, <2>2 DEF Age
  <2>4. age' \in [Orders -> Age]
    BY <1>20, <2>3 DEF DeliveryAges
  <2>5. UNCHANGED <<shop, order, lastTo, overdue, provider, candidates, ghost>>
    BY <1>20 DEF DeliveryAges
  <2> QED
    BY <2>4, <2>5
<1> HIDE DEF TypeOK
<1> QED
  BY <1>1, <1>2, <1>3, <1>4, <1>5, <1>6, <1>7, <1>8, <1>10, <1>11, <1>12, <1>13,
     <1>14, <1>15, <1>16, <1>17, <1>18, <1>19, <1>20 DEF Next

\* The columns keep their types; in particular stock_qty never goes below zero,
\* so no interleaving of checkouts and edits oversells a variant.
THEOREM TypeCorrect == Spec => []TypeOK
  BY TypeInit, TypeStep, PTL DEF Spec

(***************************************************************************)
(* The invariants.                                                         *)
(***************************************************************************)

IInv == TypeOK /\ RecordedPaymentStays /\ TimelineTracksStatus /\ RefundTrail

LEMMA PaymentStep == TypeOK /\ RecordedPaymentStays /\ [Next]_vars => RecordedPaymentStays'
<1> SUFFICES ASSUME TypeOK, RecordedPaymentStays, [Next]_vars
             PROVE  RecordedPaymentStays'
  OBVIOUS
<1> USE DEF TypeOK, RecordedPaymentStays, shop, order, clock, provider, ghost
<1>1. CASE UNCHANGED <<recorded, pay, captured>>
  BY <1>1
<1>2. ASSUME NEW o \in Orders, ProviderCaptures(o)
      PROVE  RecordedPaymentStays'
  BY <1>2 DEF ProviderCaptures
<1>3. ASSUME NEW o \in Orders, MarkOrderPaid(o)
      PROVE  RecordedPaymentStays'
  BY <1>3 DEF MarkOrderPaid
<1>4. ASSUME NEW o \in Orders, MarkPaymentFailed(o)
      PROVE  RecordedPaymentStays'
  BY <1>4 DEF MarkPaymentFailed, CanFail
<1>5. ASSUME NEW o \in Orders, CancelStaleOrder(o)
      PROVE  RecordedPaymentStays'
  BY <1>5 DEF CancelStaleOrder, StillStale, Unpaid
<1>6. ASSUME NEW o \in Orders, NEW s \in ReturnStatus, DecideReturn(o, s)
      PROVE  RecordedPaymentStays'
  BY <1>6 DEF DecideReturn
<1>7. \/ UNCHANGED <<recorded, pay, captured>>
      \/ \E o \in Orders : ProviderCaptures(o) \/ MarkOrderPaid(o) \/ MarkPaymentFailed(o) \/ CancelStaleOrder(o)
      \/ \E o \in Orders, s \in ReturnStatus : DecideReturn(o, s)
  BY DEF Next, vars, PlaceOrder, AttachRazorpayOrderId, RazorpayCallFails, ProviderDeclines,
         CancelOrderByCustomer, FindStaleOrders, StaleOrderFails, UpdateOrderStatus,
         SetVariantStock, SetVariantActive, CreateReturnRequest, BecomeOverdue, DeliveryAges
<1> HIDE DEF TypeOK, RecordedPaymentStays
<1> QED
  BY <1>1, <1>2, <1>3, <1>4, <1>5, <1>6, <1>7

LEMMA TimelineStep ==
  TypeOK /\ RecordedPaymentStays /\ TimelineTracksStatus /\ [Next]_vars => TimelineTracksStatus'
<1> SUFFICES ASSUME TypeOK, RecordedPaymentStays, TimelineTracksStatus, [Next]_vars
             PROVE  TimelineTracksStatus'
  OBVIOUS
<1> USE DEF TypeOK, TimelineTracksStatus, RecordStatus, shop, order, clock, provider, ghost
<1>1. CASE UNCHANGED <<recorded, status, lastTo>>
  BY <1>1
<1>2. ASSUME NEW o \in Orders, NEW b \in Baskets, NEW m \in Method, PlaceOrder(o, b, m)
      PROVE  TimelineTracksStatus'
  BY <1>2 DEF PlaceOrder
<1>3. ASSUME NEW o \in Orders, MarkOrderPaid(o)
      PROVE  TimelineTracksStatus'
  BY <1>3 DEF MarkOrderPaid
<1>4. ASSUME NEW o \in Orders, CancelOrderByCustomer(o)
      PROVE  TimelineTracksStatus'
  BY <1>4 DEF CancelOrderByCustomer
<1>5. ASSUME NEW o \in Orders, CancelStaleOrder(o)
      PROVE  TimelineTracksStatus'
  <2>1. CASE StillStale(o)
    BY <1>5, <2>1 DEF CancelStaleOrder
  <2>2. CASE ~StillStale(o)
    BY <1>5, <2>2 DEF CancelStaleOrder
  <2> QED
    BY <2>1, <2>2
<1>6. ASSUME NEW o \in Orders, NEW s \in Status, UpdateOrderStatus(o, s)
      PROVE  TimelineTracksStatus'
  BY <1>6 DEF UpdateOrderStatus
<1>7. \/ UNCHANGED <<recorded, status, lastTo>>
      \/ \E o \in Orders, b \in Baskets, m \in Method : PlaceOrder(o, b, m)
      \/ \E o \in Orders : MarkOrderPaid(o) \/ CancelOrderByCustomer(o) \/ CancelStaleOrder(o)
      \/ \E o \in Orders, s \in Status : UpdateOrderStatus(o, s)
  BY DEF Next, vars, AttachRazorpayOrderId, RazorpayCallFails, ProviderCaptures, ProviderDeclines,
         MarkPaymentFailed, FindStaleOrders, StaleOrderFails, SetVariantStock, SetVariantActive,
         CreateReturnRequest, DecideReturn, BecomeOverdue, DeliveryAges
<1> HIDE DEF TypeOK, TimelineTracksStatus, RecordStatus
<1> QED
  BY <1>1, <1>2, <1>3, <1>4, <1>5, <1>6, <1>7

LEMMA RefundStep == TypeOK /\ RefundTrail /\ [Next]_vars => RefundTrail'
<1> SUFFICES ASSUME TypeOK, RefundTrail, [Next]_vars
             PROVE  RefundTrail'
  OBVIOUS
<1> USE DEF TypeOK, RefundTrail, Placed, shop, order, clock, provider, ghost
<1>1. CASE UNCHANGED <<pay, ret, delivered, status>>
  BY <1>1
<1>2. ASSUME NEW o \in Orders, NEW b \in Baskets, NEW m \in Method, PlaceOrder(o, b, m)
      PROVE  RefundTrail'
  BY <1>2 DEF PlaceOrder, Absent
<1>3. ASSUME NEW o \in Orders, MarkOrderPaid(o)
      PROVE  RefundTrail'
  BY <1>3 DEF MarkOrderPaid
<1>4. ASSUME NEW o \in Orders, MarkPaymentFailed(o)
      PROVE  RefundTrail'
  BY <1>4 DEF MarkPaymentFailed
<1>5. ASSUME NEW o \in Orders, CancelOrderByCustomer(o)
      PROVE  RefundTrail'
  BY <1>5 DEF CancelOrderByCustomer
<1>6. ASSUME NEW o \in Orders, CancelStaleOrder(o)
      PROVE  RefundTrail'
  BY <1>6 DEF CancelStaleOrder
<1>7. ASSUME NEW o \in Orders, NEW s \in Status, UpdateOrderStatus(o, s)
      PROVE  RefundTrail'
  BY <1>7 DEF UpdateOrderStatus, Status
<1>8. ASSUME NEW o \in Orders, NEW w \in Windows, CreateReturnRequest(o, w)
      PROVE  RefundTrail'
  BY <1>8 DEF CreateReturnRequest
<1>9. ASSUME NEW o \in Orders, NEW s \in ReturnStatus, DecideReturn(o, s)
      PROVE  RefundTrail'
  <2>1. ret[o] # "refunded"
    BY <1>9, Transitions DEF DecideReturn
  <2> QED
    BY <1>9, <2>1 DEF DecideReturn, ReturnStatus
<1>10. \/ UNCHANGED <<pay, ret, delivered, status>>
       \/ \E o \in Orders, b \in Baskets, m \in Method : PlaceOrder(o, b, m)
       \/ \E o \in Orders : \/ MarkOrderPaid(o) \/ MarkPaymentFailed(o)
                            \/ CancelOrderByCustomer(o) \/ CancelStaleOrder(o)
       \/ \E o \in Orders, s \in Status : UpdateOrderStatus(o, s)
       \/ \E o \in Orders, w \in Windows : CreateReturnRequest(o, w)
       \/ \E o \in Orders, s \in ReturnStatus : DecideReturn(o, s)
  BY DEF Next, vars, AttachRazorpayOrderId, RazorpayCallFails, ProviderCaptures, ProviderDeclines,
         FindStaleOrders, StaleOrderFails, SetVariantStock, SetVariantActive, BecomeOverdue, DeliveryAges
<1> HIDE DEF TypeOK, RefundTrail, Placed
<1> QED
  BY <1>1, <1>2, <1>3, <1>4, <1>5, <1>6, <1>7, <1>8, <1>9, <1>10

LEMMA Inductive == /\ Init => IInv
                   /\ IInv /\ [Next]_vars => IInv'
<1>1. Init => IInv
  BY TypeInit DEF Init, IInv, RecordedPaymentStays, TimelineTracksStatus, RefundTrail, Placed
<1> QED
  BY <1>1, TypeStep, PaymentStep, TimelineStep, RefundStep DEF IInv

\* A payment the shop has recorded stays recorded, whatever webhooks, sweeps and
\* admin edits follow (markOrderPaid, markPaymentFailed, cancelStaleOrders).
THEOREM PaymentsStayRecorded == Spec => []RecordedPaymentStays
  BY Inductive, PTL DEF Spec, IInv

\* The history follows the status except where a capture overtook a later status.
THEOREM TimelineFollows == Spec => []TimelineTracksStatus
  BY Inductive, PTL DEF Spec, IInv

\* Refunds only behind refunded returns, returns only behind deliveries.
THEOREM RefundsLeaveATrail == Spec => []RefundTrail
  BY Inductive, PTL DEF Spec, IInv

\* No interleaving of the sweep, the customer and the webhooks puts a paid
\* order's units back on the shelf.
THEOREM PaidIsNotReleased == Spec => NeverReleasePaid
<1> DEFINE Safe == \A o \in Orders :
                     pay[o] = "paid" /\ status[o] # "cancelled" /\ status'[o] = "cancelled"
                       => stock' = stock
<1>1. TypeOK /\ [Next]_vars => [Safe]_vars
  <2> SUFFICES ASSUME TypeOK, [Next]_vars, NEW p \in Orders,
                      pay[p] = "paid", status[p] # "cancelled", status'[p] = "cancelled"
               PROVE  stock' = stock
    OBVIOUS
  <2> USE DEF TypeOK, shop, order, clock, provider, ghost
  <2>1. ASSUME NEW o \in Orders, NEW b \in Baskets, NEW m \in Method, PlaceOrder(o, b, m)
        PROVE  FALSE
    BY <2>1 DEF PlaceOrder, InitialStatus
  <2>2. ASSUME NEW o \in Orders, CancelOrderByCustomer(o)
        PROVE  FALSE
    BY <2>2 DEF CancelOrderByCustomer
  <2>3. ASSUME NEW o \in Orders, CancelStaleOrder(o)
        PROVE  stock' = stock
    BY <2>3 DEF CancelStaleOrder, StillStale, Unpaid
  <2>4. ASSUME NEW v \in Variants, NEW n \in 0 .. MaxStock, SetVariantStock(v, n)
        PROVE  FALSE
    BY <2>4 DEF SetVariantStock
  <2>5. \/ stock' = stock
        \/ \E o \in Orders, b \in Baskets, m \in Method : PlaceOrder(o, b, m)
        \/ \E o \in Orders : CancelOrderByCustomer(o) \/ CancelStaleOrder(o)
        \/ \E v \in Variants, n \in 0 .. MaxStock : SetVariantStock(v, n)
    BY DEF Next, vars, AttachRazorpayOrderId, RazorpayCallFails, ProviderCaptures, ProviderDeclines,
           MarkOrderPaid, MarkPaymentFailed, FindStaleOrders, StaleOrderFails, UpdateOrderStatus,
           SetVariantActive, CreateReturnRequest, DecideReturn, BecomeOverdue, DeliveryAges
  <2> QED
    BY <2>1, <2>2, <2>3, <2>4, <2>5
<1> QED
  BY <1>1, TypeCorrect, PTL DEF Spec, NeverReleasePaid

(***************************************************************************)
(* The ledger.                                                             *)
(***************************************************************************)

\* What order o takes from the shelf of variant v.
Entry(o, v) == Held(o) * items[o][v]

\* The admin has not changed the status of an order that is not there.
NothingCounted == \A o \in Orders : Absent(o) => drift[o] = 0

LedgerInv == NothingCounted /\ StockLedger

LEMMA OneMore ==
  ASSUME NEW h \in Int, NEW q \in Int
  PROVE  (h + 1) * q = h * q + q /\ h * q \in Int /\ 0 * q = 0 /\ 1 * q = q
  OBVIOUS

LEMMA EntryFacts ==
  ASSUME TypeOK, NEW o \in Orders, NEW v \in Variants
  PROVE  /\ Held(o) = (IF o \in Live THEN 1 ELSE 0) + drift[o]
         /\ drift[o] \in Int /\ Held(o) \in Int /\ items[o][v] \in Int /\ Entry(o, v) \in Int
<1>1. drift[o] \in Int /\ items[o][v] \in Int
  BY MaxQtyAssumption DEF TypeOK
<1>2. Held(o) = (IF o \in Live THEN 1 ELSE 0) + drift[o]
  BY DEF Held
<1>3. Held(o) \in Int
  BY <1>1, <1>2
<1> QED
  BY <1>1, <1>2, <1>3, OneMore DEF Entry

\* The entry of one order changes, and so does the total.
LEMMA EntryChange ==
  ASSUME TypeOK, TypeOK', NEW o \in Orders, NEW v \in Variants,
         \A p \in Orders \ {o} : status'[p] = status[p] /\ drift'[p] = drift[p] /\ items'[p] = items[p]
  PROVE  LET total == Total([p \in Orders |-> Held(p) * items[p][v]]) IN
           total \in Int /\ total' = total - Entry(o, v) + Entry(o, v)'
<1>1. ASSUME NEW p \in Orders
      PROVE  Entry(p, v) \in Int /\ Entry(p, v)' \in Int
  <2>1. /\ drift[p] \in Int /\ items[p][v] \in Int /\ drift'[p] \in Int /\ items'[p][v] \in Int
    BY MaxQtyAssumption DEF TypeOK
  <2>2. Held(p) \in Int /\ Held(p)' \in Int
    BY <2>1 DEF Held
  <2> QED
    BY <2>1, <2>2, OneMore DEF Entry
<1>2. ASSUME NEW p \in Orders \ {o}
      PROVE  Entry(p, v)' = Entry(p, v)
  BY <1>2 DEF Entry, Held, Live
<1> DEFINE f == [p \in Orders |-> Entry(p, v)]
           g == [p \in Orders |-> Entry(p, v)']
<1>3. f \in [Orders -> Int] /\ g \in [Orders -> Int] /\ \A p \in Orders \ {o} : g[p] = f[p]
  BY <1>1, <1>2
<1>4. f[o] = Entry(o, v) /\ g[o] = Entry(o, v)'
  OBVIOUS
<1>5. Total(f) \in Int /\ Total(g) = Total(f) - f[o] + g[o]
  BY <1>3, OrdersAssumption, TotalChange
<1>6. /\ f = [p \in Orders |-> Held(p) * items[p][v]]
      /\ g = [p \in Orders |-> Held(p)' * items'[p][v]]
  BY DEF Entry
<1> QED
  BY <1>4, <1>5, <1>6

\* One transaction moves units between the shelf and one order.
LEMMA MoveKeepsLedger ==
  ASSUME TypeOK, TypeOK', LedgerInv, NEW o \in Orders, base' = base,
         \A p \in Orders \ {o} : status'[p] = status[p] /\ drift'[p] = drift[p] /\ items'[p] = items[p],
         \A v \in Variants : stock'[v] - stock[v] = Entry(o, v) - Entry(o, v)'
  PROVE  StockLedger'
<1> SUFFICES ASSUME NEW v \in Variants
             PROVE  stock'[v] + Total([p \in Orders |-> Held(p) * items[p][v]])' = base[v]
  BY DEF StockLedger
<1> DEFINE total == Total([p \in Orders |-> Held(p) * items[p][v]])
<1>1. /\ stock[v] \in Int /\ stock'[v] \in Int /\ base[v] \in Int
      /\ stock[v] + total = base[v] /\ stock'[v] - stock[v] = Entry(o, v) - Entry(o, v)'
  BY DEF TypeOK, LedgerInv, StockLedger
<1>2. total \in Int /\ total' = total - Entry(o, v) + Entry(o, v)'
  BY EntryChange
<1>3. Entry(o, v) \in Int /\ Entry(o, v)' \in Int
  <2>1. items'[o][v] \in Int /\ drift'[o] \in Int
    BY MaxQtyAssumption DEF TypeOK
  <2>2. Held(o)' \in Int
    BY <2>1 DEF Held
  <2> QED
    BY <2>1, <2>2, EntryFacts, OneMore DEF Entry
<1>4. stock'[v] + total' = base[v]
  <2> HIDE DEF total
  <2> QED
    BY <1>1, <1>2, <1>3
<1> QED
  BY <1>4

\* The units of a live order go back on the shelf as it is called off.
LEMMA RestoreKeepsLedger ==
  ASSUME TypeOK, TypeOK', LedgerInv, NEW o \in Orders, o \in Live, RestoreStock(o),
         status' = [status EXCEPT ![o] = "cancelled"], UNCHANGED <<drift, items, base>>
  PROVE  StockLedger'
<1>1. \A p \in Orders \ {o} : status'[p] = status[p] /\ drift'[p] = drift[p] /\ items'[p] = items[p]
  BY DEF TypeOK
<1>2. ASSUME NEW v \in Variants
      PROVE  stock'[v] - stock[v] = Entry(o, v) - Entry(o, v)'
  <2>1. Held(o) = drift[o] + 1 /\ Held(o)' = drift[o] /\ drift[o] \in Int /\ items[o][v] \in Int
    <3>1. status'[o] = "cancelled"
      BY DEF TypeOK
    <3> QED
      BY <3>1, EntryFacts DEF Held, Live
  <2>2. Entry(o, v) = (drift[o] + 1) * items[o][v] /\ Entry(o, v)' = drift[o] * items[o][v]
    BY <2>1 DEF Entry
  <2>3. /\ (drift[o] + 1) * items[o][v] = drift[o] * items[o][v] + items[o][v]
        /\ drift[o] * items[o][v] \in Int
    BY <2>1, OneMore
  <2>4. stock'[v] = stock[v] + items[o][v] /\ stock[v] \in Int
    BY DEF RestoreStock, TypeOK
  <2> QED
    BY <2>1, <2>2, <2>3, <2>4
<1> QED
  BY <1>1, <1>2, MoveKeepsLedger

LEMMA LedgerStep == TypeOK /\ TypeOK' /\ LedgerInv /\ [Next]_vars => LedgerInv'
<1> SUFFICES ASSUME TypeOK, TypeOK', LedgerInv, [Next]_vars
             PROVE  LedgerInv'
  OBVIOUS
<1> USE DEF shop, order, clock, provider, ghost
<1>1. ASSUME UNCHANGED <<stock, base, items, drift>>, Live' = Live
      PROVE  StockLedger'
  BY <1>1 DEF LedgerInv, StockLedger, Held
<1>2. ASSUME UNCHANGED drift, \A o \in Orders : Placed(o) => Placed(o)'
      PROVE  NothingCounted'
  BY <1>2 DEF LedgerInv, NothingCounted, Absent, Placed
<1>3. ASSUME NEW o \in Orders, NEW b \in Baskets, NEW m \in Method, PlaceOrder(o, b, m)
      PROVE  LedgerInv'
  <2>1. /\ status[o] = "absent" /\ status'[o] \in {"confirmed", "pending"}
        /\ items'[o] = b /\ UNCHANGED <<drift, base>>
        /\ \A p \in Orders \ {o} : status'[p] = status[p] /\ drift'[p] = drift[p] /\ items'[p] = items[p]
    BY <1>3 DEF PlaceOrder, InitialStatus, Absent, TypeOK
  <2>2. ASSUME NEW v \in Variants
        PROVE  stock'[v] - stock[v] = Entry(o, v) - Entry(o, v)'
    <3>1. Held(o) = 0 /\ Held(o)' = 1
      BY <2>1 DEF LedgerInv, NothingCounted, Absent, Held, Live
    <3>2. items[o][v] \in Int /\ b[v] \in Int
      BY MaxQtyAssumption DEF TypeOK, Baskets
    <3>3. Entry(o, v) = 0 /\ Entry(o, v)' = b[v]
      BY <2>1, <3>1, <3>2, OneMore DEF Entry
    <3>4. stock'[v] = stock[v] - b[v] /\ stock[v] \in Int
      BY <1>3 DEF PlaceOrder, TypeOK
    <3> QED
      BY <3>2, <3>3, <3>4
  <2>3. StockLedger'
    BY <2>1, <2>2, MoveKeepsLedger
  <2>4. NothingCounted'
    BY <1>2, <2>1 DEF Placed
  <2> QED
    BY <2>3, <2>4 DEF LedgerInv
<1>4. ASSUME NEW o \in Orders, CancelOrderByCustomer(o)
      PROVE  LedgerInv'
  <2>1. /\ o \in Live /\ RestoreStock(o) /\ status' = [status EXCEPT ![o] = "cancelled"]
        /\ UNCHANGED <<drift, items, base>>
    BY <1>4 DEF CancelOrderByCustomer, CustomerCancellable, Live
  <2>2. NothingCounted'
    BY <1>2, <2>1 DEF Placed, TypeOK
  <2> QED
    BY <2>1, <2>2, RestoreKeepsLedger DEF LedgerInv
<1>5. ASSUME NEW o \in Orders, CancelStaleOrder(o)
      PROVE  LedgerInv'
  <2>1. CASE StillStale(o)
    <3>1. /\ o \in Live /\ RestoreStock(o) /\ status' = [status EXCEPT ![o] = "cancelled"]
          /\ UNCHANGED <<drift, items, base>>
      BY <1>5, <2>1 DEF CancelStaleOrder, StillStale, Unpaid, Live
    <3>2. NothingCounted'
      BY <1>2, <3>1 DEF Placed, TypeOK
    <3> QED
      BY <3>1, <3>2, RestoreKeepsLedger DEF LedgerInv
  <2>2. CASE ~StillStale(o)
    <3>1. UNCHANGED <<stock, status, items, drift, base>>
      BY <1>5, <2>2 DEF CancelStaleOrder
    <3> QED
      BY <1>1, <1>2, <3>1 DEF Live, Placed, LedgerInv
  <2> QED
    BY <2>1, <2>2
<1>6. ASSUME NEW o \in Orders, MarkOrderPaid(o)
      PROVE  LedgerInv'
  <2>1. /\ UNCHANGED <<stock, base, items, drift>>
        /\ status' = [status EXCEPT ![o] = IF @ = "pending" THEN "confirmed" ELSE @]
    BY <1>6 DEF MarkOrderPaid
  <2>2. Live' = Live /\ \A p \in Orders : Placed(p) => Placed(p)'
    BY <2>1 DEF Live, Placed, TypeOK
  <2> QED
    BY <1>1, <1>2, <2>1, <2>2 DEF LedgerInv
<1>7. ASSUME NEW o \in Orders, NEW s \in Status, UpdateOrderStatus(o, s)
      PROVE  LedgerInv'
  <2>1. /\ status[o] # "absent" /\ status'[o] = s /\ s # "absent" /\ UNCHANGED <<stock, items, base>>
        /\ \A p \in Orders \ {o} : status'[p] = status[p] /\ drift'[p] = drift[p]
        /\ drift[o] \in Int
        /\ drift'[o] = CASE status[o] # "cancelled" /\ s = "cancelled" -> drift[o] + 1
                         [] status[o] = "cancelled" /\ s # "cancelled" -> drift[o] - 1
                         [] OTHER -> drift[o]
    BY <1>7 DEF UpdateOrderStatus, Placed, TypeOK, Status
  <2>2. Held(o)' = Held(o)
    BY <2>1 DEF Held, Live
  <2>3. \A p \in Orders : Held(p)' = Held(p)
    BY <2>1, <2>2 DEF Held, Live
  <2>4. StockLedger'
    BY <2>1, <2>3 DEF LedgerInv, StockLedger
  <2>5. NothingCounted'
    BY <2>1 DEF LedgerInv, NothingCounted, Absent
  <2> QED
    BY <2>4, <2>5 DEF LedgerInv
<1>8. ASSUME NEW w \in Variants, NEW n \in 0 .. MaxStock, SetVariantStock(w, n)
      PROVE  LedgerInv'
  <2>1. UNCHANGED <<status, items, drift>>
    BY <1>8 DEF SetVariantStock
  <2>2. ASSUME NEW v \in Variants
        PROVE  stock'[v] + Total([p \in Orders |-> Held(p) * items[p][v]])' = base'[v]
    <3> DEFINE f == [p \in Orders |-> Held(p) * items[p][v]]
    <3>1. \A p \in Orders : Held(p) * items[p][v] \in Int
      BY EntryFacts DEF Entry
    <3>2. f \in [Orders -> Int]
      BY <3>1
    <3>3. Total(f) \in Int
      BY <3>2, OrdersAssumption, TotalIsInt
    <3>4. f' = f
      BY <2>1 DEF Held, Live
    <3>5. stock[v] + Total(f) = base[v]
      BY DEF LedgerInv, StockLedger
    <3>6. IF w = v THEN stock'[v] = n /\ base'[v] = base[v] + (n - stock[v])
                   ELSE stock'[v] = stock[v] /\ base'[v] = base[v]
      BY <1>8 DEF SetVariantStock, TypeOK
    <3>7. n \in Int /\ stock[v] \in Int /\ base[v] \in Int
      BY MaxStockAssumption DEF TypeOK
    <3>8. Total(f') = Total(f)
      BY <3>4
    <3> HIDE DEF f
    <3>9. stock'[v] + Total(f) = base'[v]
      BY <3>3, <3>5, <3>6, <3>7
    <3> QED
      BY <3>8, <3>9 DEF f
  <2>3. StockLedger'
    BY <2>2 DEF StockLedger
  <2> QED
    BY <1>2, <2>1, <2>3 DEF LedgerInv, Placed
<1>9. ASSUME UNCHANGED <<stock, base, items, drift, status>>
      PROVE  LedgerInv'
  BY <1>1, <1>2, <1>9 DEF LedgerInv, Live, Placed
<1>10. \/ UNCHANGED <<stock, base, items, drift, status>>
       \/ \E o \in Orders, b \in Baskets, m \in Method : PlaceOrder(o, b, m)
       \/ \E o \in Orders : CancelOrderByCustomer(o) \/ CancelStaleOrder(o) \/ MarkOrderPaid(o)
       \/ \E o \in Orders, s \in Status : UpdateOrderStatus(o, s)
       \/ \E w \in Variants, n \in 0 .. MaxStock : SetVariantStock(w, n)
  BY DEF Next, vars, AttachRazorpayOrderId, RazorpayCallFails, ProviderCaptures, ProviderDeclines,
         MarkPaymentFailed, FindStaleOrders, StaleOrderFails, SetVariantActive,
         CreateReturnRequest, DecideReturn, BecomeOverdue, DeliveryAges
<1> QED
  BY <1>3, <1>4, <1>5, <1>6, <1>7, <1>8, <1>9, <1>10

LEMMA LedgerInit == Init => LedgerInv
<1> SUFFICES ASSUME Init
             PROVE  LedgerInv
  OBVIOUS
<1>1. NothingCounted
  BY DEF Init, NothingCounted
<1>2. ASSUME NEW v \in Variants
      PROVE  stock[v] + Total([o \in Orders |-> Held(o) * items[o][v]]) = base[v]
  <2>1. \A o \in Orders : Held(o) = 0 /\ items[o][v] = 0
    BY DEF Init, Held, Live, NoItems
  <2> DEFINE f == [o \in Orders |-> Held(o) * items[o][v]]
  <2>2. \A o \in Orders : Held(o) * items[o][v] = 0
    BY <2>1
  <2>3. f \in [Orders -> Int] /\ \A o \in Orders : f[o] = 0
    BY <2>2
  <2>4. Total(f) = 0
    BY <2>3, TotalOfNothing
  <2> QED
    BY <2>4, InitStockAssumption DEF Init
<1> QED
  BY <1>1, <1>2 DEF LedgerInv, StockLedger

\* The shelf and the orders account for every unit, whatever the checkout, the
\* customers, the sweep, the webhooks and the returns do in whatever order; only the
\* admin's status changes lose or invent units, and as many as drift says.
THEOREM StockIsAccountedFor == Spec => []StockLedger
<1>1. LedgerInv => StockLedger
  BY DEF LedgerInv
<1> QED
  BY <1>1, LedgerInit, LedgerStep, TypeCorrect, PTL DEF Spec

\* What the comment of cancelOrderByCustomer says does hold as long as the admin's
\* status changes have freed and revived every order equally often.
THEOREM OneWayWithoutDrift == Spec => []((\A o \in Orders : drift[o] = 0) => OneWayStockComesBack)
<1> DEFINE Still == \A o \in Orders : drift[o] = 0
<1>1. TypeOK /\ LedgerInv => (Still => OneWayStockComesBack)
  <2> SUFFICES ASSUME TypeOK, LedgerInv, Still, NEW v \in Variants
               PROVE  stock[v] + Total([o \in Orders |-> IF o \in Live THEN items[o][v] ELSE 0]) = base[v]
    BY DEF OneWayStockComesBack
  <2>1. ASSUME NEW o \in Orders
        PROVE  Held(o) * items[o][v] = IF o \in Live THEN items[o][v] ELSE 0
    <3>1. Held(o) = (IF o \in Live THEN 1 ELSE 0) /\ items[o][v] \in Int
      BY EntryFacts
    <3> QED
      BY <3>1, OneMore
  <2>2. [o \in Orders |-> Held(o) * items[o][v]] = [o \in Orders |-> IF o \in Live THEN items[o][v] ELSE 0]
    BY <2>1
  <2> QED
    BY <2>2 DEF LedgerInv, StockLedger
<1> QED
  BY <1>1, LedgerInit, LedgerStep, TypeCorrect, PTL DEF Spec
=============================================================================
