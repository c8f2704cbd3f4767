------------------------------- MODULE Orders -------------------------------
(***************************************************************************)
(* The life of an order in the shop's database, from the checkout          *)
(* transaction that takes the stock to the return that refunds it.         *)
(*                                                                         *)
(* Every writer is a transaction that takes the order's row with SELECT .. *)
(* FOR UPDATE (or a single guarded UPDATE) before it decides, so here one  *)
(* transaction is one step; the module Checkout opens the transactions up  *)
(* into statements and row locks.  What is NOT under one lock stays apart: *)
(* the stale-order job finds its candidates in one step and cancels each   *)
(* in a later one, the checkout attaches the payment provider's id after   *)
(* the order has committed, and the provider's webhooks arrive late, out   *)
(* of order and more than once.                                            *)
(***************************************************************************)
EXTENDS Integers, FiniteSets, Totals

CONSTANTS
  Orders,         \* the order ids a behaviour may use
  Variants,       \* product_variants ids
  MaxQty,         \* most units of one variant in an order
  InitStock,      \* stock_qty of each variant at the start
  MaxStock,       \* highest figure an admin types into the stock field
  MaxAdminMoves   \* bound on the admin's status changes and stock edits

ASSUME OrdersAssumption        == IsFiniteSet(Orders)
ASSUME MaxQtyAssumption        == MaxQty \in Nat \ {0}
ASSUME InitStockAssumption     == InitStock \in [Variants -> Nat]
ASSUME MaxStockAssumption      == MaxStock \in Nat
ASSUME MaxAdminMovesAssumption == MaxAdminMoves \in Nat

Status    == {"pending", "confirmed", "packed", "shipped", "delivered", "cancelled"}
PayStatus == {"pending", "paid", "failed", "refunded"}
Method    == {"cod", "razorpay"}

\* CUSTOMER_CANCELLABLE: what a customer may still call off.
CustomerCancellable == {"pending", "confirmed"}

ReturnStatus == {"requested", "approved", "received", "refunded", "rejected"}

\* Fault: a refunded return can still be walked back.
AllowedTransitionsReopened(from) ==
  CASE from = "requested" -> {"approved", "rejected"}
    [] from = "approved"  -> {"received", "rejected"}
    [] from = "received"  -> {"refunded", "rejected"}
    [] from = "refunded"  -> {"rejected"}
    [] OTHER              -> {}

\* TRANSITIONS: the decisions an owner may take on a return, from where it is.
AllowedTransitions(from) ==
  CASE from = "requested" -> {"approved", "rejected"}
    [] from = "approved"  -> {"received", "rejected"}
    [] from = "received"  -> {"refunded", "rejected"}
    [] OTHER              -> {}

\* Hours since delivery, as far as RETURN_REASONS tells them apart: up to 48
\* hours, up to seven days, later.  A reason's window is the last age it allows.
Age        == 0 .. 2
DamageAge  == 0        \* damaged, wrong item, missing item: 48 hours
OtherAge   == 1        \* every other reason: seven days
Windows    == {DamageAge, OtherAge}

\* A basket's quantities; the checkout schema refuses an empty one.
Baskets == {b \in [Variants -> 0 .. MaxQty] : \E v \in Variants : b[v] > 0}
NoItems == [v \in Variants |-> 0]

VARIABLES
  stock,      \* product_variants.stock_qty
  onSale,     \* variants that are active, with an active product
  status,     \* orders.status, "absent" before the row exists
  method,     \* orders.payment_method
  pay,        \* orders.payment_status
  items,      \* order_items: units of each variant
  rzp,        \* orders.razorpay_order_id: "none", "creating", "attached", "lost"
  recorded,   \* orders.razorpay_payment_id is set
  delivered,  \* orders.delivered_at is set
  age,        \* time since delivered_at
  ret,        \* return_requests.status, "none" without a row
  lastTo,     \* to_status of the newest order_status_history row of an order's own status
  captured,   \* the provider has captured a payment for the order
  attempt,    \* the provider has seen a payment attempt fail
  overdue,    \* created_at is more than 48 hours ago
  candidates, \* ids the stale-order job has selected and not yet looked at
  base,       \* history: stock at the start plus the admin's stock edits
  drift,      \* history: how often the admin's status changes freed (+1) or revived (-1) an order without moving its stock
  moves       \* admin edits so far

shop     == <<stock, onSale>>
order    == <<status, method, pay, items, rzp, recorded, delivered, ret>>
clock    == <<age, overdue>>
provider == <<captured, attempt>>
ghost    == <<base, drift, moves>>
vars     == <<shop, order, lastTo, clock, provider, candidates, ghost>>

Absent(o) == status[o] = "absent"
Placed(o) == status[o] # "absent"

\* Orders whose units are off the shelf and not called off.
Live == {o \in Orders : status[o] \notin {"absent", "cancelled"}}

TypeOK ==
  /\ stock \in [Variants -> Nat]
  /\ onSale \in SUBSET Variants
  /\ status \in [Orders -> Status \cup {"absent"}]
  /\ method \in [Orders -> Method]
  /\ pay \in [Orders -> PayStatus]
  /\ items \in [Orders -> [Variants -> 0 .. MaxQty]]
  /\ rzp \in [Orders -> {"none", "creating", "attached", "lost"}]
  /\ recorded \in [Orders -> BOOLEAN]
  /\ delivered \in [Orders -> BOOLEAN]
  /\ age \in [Orders -> Age]
  /\ ret \in [Orders -> ReturnStatus \cup {"none"}]
  /\ lastTo \in [Orders -> Status \cup {"absent"}]
  /\ captured \in [Orders -> BOOLEAN]
  /\ attempt \in [Orders -> BOOLEAN]
  /\ overdue \in [Orders -> BOOLEAN]
  /\ candidates \in SUBSET Orders
  /\ base \in [Variants -> Int]
  /\ drift \in [Orders -> Int]
  /\ moves \in Nat

Init ==
  /\ stock = InitStock
  /\ onSale = Variants
  /\ status = [o \in Orders |-> "absent"]
  /\ method = [o \in Orders |-> "cod"]
  /\ pay = [o \in Orders |-> "pending"]
  /\ items = [o \in Orders |-> NoItems]
  /\ rzp = [o \in Orders |-> "none"]
  /\ recorded = [o \in Orders |-> FALSE]
  /\ delivered = [o \in Orders |-> FALSE]
  /\ age = [o \in Orders |-> 0]
  /\ ret = [o \in Orders |-> "none"]
  /\ lastTo = [o \in Orders |-> "absent"]
  /\ captured = [o \in Orders |-> FALSE]
  /\ attempt = [o \in Orders |-> FALSE]
  /\ overdue = [o \in Orders |-> FALSE]
  /\ candidates = {}
  /\ base = InitStock
  /\ drift = [o \in Orders |-> 0]
  /\ moves = 0

\* Fault: only an order's first row is written.
RecordFirstStatus(o, to) ==
  lastTo' = IF lastTo[o] = "absent" THEN [lastTo EXCEPT ![o] = to] ELSE lastTo

\* recordStatus: one more row of the order's history.
RecordStatus(o, to) == lastTo' = [lastTo EXCEPT ![o] = to]

(***************************************************************************)
(* The checkout.                                                           *)
(***************************************************************************)

\* Fault: the decrement has lost its stock_qty >= ? guard.
OnSaleOnly(b) == \A v \in Variants : b[v] > 0 => v \in onSale

\* Every line's variant is on sale and its guarded decrement finds the units.
CanTake(b) == \A v \in Variants : b[v] > 0 => v \in onSale /\ stock[v] >= b[v]

InitialStatus(m) == IF m = "cod" THEN "confirmed" ELSE "pending"

\* createOrder: the stock is taken and the order written, or nothing is.  Cash on delivery is confirmed on
\* placement; an online order waits for its payment, and the route goes on to
\* ask the provider for an order of its own.
PlaceOrder(o, b, m) ==
  /\ Absent(o)
  /\ CanTake(b)
  /\ stock' = [v \in Variants |-> stock[v] - b[v]]
  /\ items' = [items EXCEPT ![o] = b]
  /\ method' = [method EXCEPT ![o] = m]
  /\ status' = [status EXCEPT ![o] = InitialStatus(m)]
  /\ RecordStatus(o, InitialStatus(m))
  /\ rzp' = [rzp EXCEPT ![o] = IF m = "cod" THEN "none" ELSE "creating"]
  /\ UNCHANGED <<onSale, pay, recorded, delivered, ret, clock, provider, candidates, ghost>>

\* createRazorpayOrder answered: attachRazorpayOrderId writes the id, whatever
\* has happened to the order since, and only then does the browser learn it.
AttachRazorpayOrderId(o) ==
  /\ rzp[o] = "creating"
  /\ rzp' = [rzp EXCEPT ![o] = "attached"]
  /\ UNCHANGED <<shop, status, method, pay, items, recorded, delivered, ret,
                 lastTo, clock, provider, candidates, ghost>>

\* createRazorpayOrder threw, or the server stopped: the order stays, unpayable.
RazorpayCallFails(o) ==
  /\ rzp[o] = "creating"
  /\ rzp' = [rzp EXCEPT ![o] = "lost"]
  /\ UNCHANGED <<shop, status, method, pay, items, recorded, delivered, ret,
                 lastTo, clock, provider, candidates, ghost>>

(***************************************************************************)
(* The payment provider and its webhooks.  An event that has happened may  *)
(* be delivered at any later time, any number of times, in any order.      *)
(***************************************************************************)

\* The provider captures at most one payment for an order; it neither knows nor
\* asks whether the shop has cancelled it meanwhile.
ProviderCaptures(o) ==
  /\ rzp[o] = "attached" /\ ~captured[o]
  /\ captured' = [captured EXCEPT ![o] = TRUE]
  /\ UNCHANGED <<shop, order, lastTo, clock, attempt, candidates, ghost>>

\* An attempt fails; the customer may still try again.
ProviderDeclines(o) ==
  /\ rzp[o] = "attached" /\ ~captured[o] /\ ~attempt[o]
  /\ attempt' = [attempt EXCEPT ![o] = TRUE]
  /\ UNCHANGED <<shop, order, lastTo, clock, captured, candidates, ghost>>

\* markOrderPaid, on payment.captured or order.paid.  The UPDATE is guarded by
\* payment_status <> 'paid'; its history row says "confirmed" whatever the
\* order's status is.
MarkOrderPaid(o) ==
  /\ captured[o]
  /\ pay[o] # "paid"
  /\ pay' = [pay EXCEPT ![o] = "paid"]
  /\ recorded' = [recorded EXCEPT ![o] = TRUE]
  /\ status' = [status EXCEPT ![o] = IF @ = "pending" THEN "confirmed" ELSE @]
  /\ RecordStatus(o, "confirmed")
  /\ UNCHANGED <<shop, method, items, rzp, delivered, ret, clock, provider, candidates, ghost>>

\* Fault: any payment not already failed can fail.
CanFailUnlessFailed(o) == pay[o] # "failed"

\* Only a pending payment can fail.
CanFail(o) == pay[o] = "pending"

\* markPaymentFailed, on payment.failed.
MarkPaymentFailed(o) ==
  /\ attempt[o]
  /\ CanFail(o)
  /\ pay' = [pay EXCEPT ![o] = "failed"]
  /\ UNCHANGED <<shop, status, method, items, rzp, recorded, delivered, ret,
                 lastTo, clock, provider, candidates, ghost>>

(***************************************************************************)
(* Calling an order off.                                                   *)
(***************************************************************************)

\* The order's units go back on the shelf, in the transaction that cancels it.
RestoreStock(o) == stock' = [v \in Variants |-> stock[v] + items[o][v]]

\* cancelOrderByCustomer, for the customer whose verified email is the order's.
CancelOrderByCustomer(o) ==
  /\ status[o] \in CustomerCancellable
  /\ pay[o] # "paid"
  /\ RestoreStock(o)
  /\ status' = [status EXCEPT ![o] = "cancelled"]
  /\ RecordStatus(o, "cancelled")
  /\ UNCHANGED <<onSale, method, pay, items, rzp, recorded, delivered, ret,
                 clock, provider, candidates, ghost>>

Unpaid(o) == status[o] = "pending" /\ pay[o] = "pending"

\* Fault: only orders with a provider's id are looked at.
StaleOnline(o) == Unpaid(o) /\ overdue[o] /\ rzp[o] = "attached"

\* Unpaid for more than 48 hours.
Stale(o) == Unpaid(o) /\ overdue[o]

\* cancelStaleOrders, first statement: the candidates, read without a lock.
FindStaleOrders ==
  /\ candidates = {}
  /\ candidates' = {o \in Orders : Stale(o)}
  /\ candidates' # {}
  /\ UNCHANGED <<shop, order, lastTo, clock, provider, ghost>>

\* Fault: the re-check looks at the payment only.
StillUnpaid(o) == pay[o] = "pending"

\* Fault: the re-check looks at the status only, and takes a confirmed order too.
StillOpen(o) == status[o] \in CustomerCancellable

\* The re-check under the row's lock.
StillStale(o) == Unpaid(o)

\* One candidate's transaction: it re-checks under the row's lock and cancels,
\* or leaves an order alone that has been paid or changed meanwhile.
CancelStaleOrder(o) ==
  /\ o \in candidates
  /\ candidates' = candidates \ {o}
  /\ IF StillStale(o)
     THEN /\ RestoreStock(o)
          /\ status' = [status EXCEPT ![o] = "cancelled"]
          /\ pay' = [pay EXCEPT ![o] = "failed"]
          /\ RecordStatus(o, "cancelled")
     ELSE UNCHANGED <<stock, status, pay, lastTo>>
  /\ UNCHANGED <<onSale, method, items, rzp, recorded, delivered, ret, clock, provider, ghost>>

\* A candidate's transaction fails (a deadlock, a lost connection, a stopped
\* server): it rolls back, and the sweep goes on to the next.
StaleOrderFails(o) ==
  /\ o \in candidates
  /\ candidates' = candidates \ {o}
  /\ UNCHANGED <<shop, order, lastTo, clock, provider, ghost>>

(***************************************************************************)
(* The admin console.                                                      *)
(***************************************************************************)

AdminMoves == moves < MaxAdminMoves /\ moves' = moves + 1

\* updateOrderStatus: any status to any other, or the same one again with a new
\* tracking id.  delivered_at is stamped once; no stock moves.
UpdateOrderStatus(o, s) ==
  /\ AdminMoves
  /\ Placed(o)
  /\ status' = [status EXCEPT ![o] = s]
  /\ RecordStatus(o, s)
  /\ delivered' = [delivered EXCEPT ![o] = @ \/ s = "delivered"]
  /\ drift' = [drift EXCEPT ![o] =
                 CASE status[o] # "cancelled" /\ s = "cancelled" -> @ + 1
                   [] status[o] = "cancelled" /\ s # "cancelled" -> @ - 1
                   [] OTHER -> @]
  /\ UNCHANGED <<shop, method, pay, items, rzp, recorded, ret, clock, provider, candidates, base>>

\* setVariantStock: an absolute figure, floored at zero.
SetVariantStock(v, n) ==
  /\ AdminMoves
  /\ stock' = [stock EXCEPT ![v] = n]
  /\ base' = [base EXCEPT ![v] = @ + (n - stock[v])]
  /\ UNCHANGED <<onSale, order, lastTo, clock, provider, candidates, drift>>

\* A variant, or its product, is taken off sale or put back.
SetVariantActive(v) ==
  /\ AdminMoves
  /\ onSale' = IF v \in onSale THEN onSale \ {v} ELSE onSale \cup {v}
  /\ UNCHANGED <<stock, order, lastTo, clock, provider, candidates, base, drift>>

(***************************************************************************)
(* Returns.                                                                *)
(***************************************************************************)

\* createReturnRequest: the order reads "delivered", is inside the reason's
\* window, and has no return yet (uq_return_order).
CreateReturnRequest(o, w) ==
  /\ status[o] = "delivered" /\ delivered[o]
  /\ age[o] <= w
  /\ ret[o] = "none"
  /\ ret' = [ret EXCEPT ![o] = "requested"]
  /\ UNCHANGED <<shop, status, method, pay, items, rzp, recorded, delivered,
                 lastTo, clock, provider, candidates, ghost>>

\* decideReturn: a refund marks the order's payment in the same transaction.
DecideReturn(o, s) ==
  /\ ret[o] # "none"
  /\ s \in AllowedTransitions(ret[o])
  /\ ret' = [ret EXCEPT ![o] = s]
  /\ pay' = [pay EXCEPT ![o] = IF s = "refunded" THEN "refunded" ELSE @]
  /\ UNCHANGED <<shop, status, method, items, rzp, recorded, delivered,
                 lastTo, clock, provider, candidates, ghost>>

(***************************************************************************)
(* Time.                                                                   *)
(***************************************************************************)

BecomeOverdue(o) ==
  /\ Placed(o) /\ ~overdue[o]
  /\ overdue' = [overdue EXCEPT ![o] = TRUE]
  /\ UNCHANGED <<shop, order, lastTo, age, provider, candidates, ghost>>

DeliveryAges(o) ==
  /\ delivered[o] /\ age[o] < 2
  /\ age' = [age EXCEPT ![o] = @ + 1]
  /\ UNCHANGED <<shop, order, lastTo, overdue, provider, candidates, ghost>>

Next ==
  \/ \E o \in Orders, b \in Baskets, m \in Method : PlaceOrder(o, b, m)
  \/ \E o \in Orders : AttachRazorpayOrderId(o)
  \/ \E o \in Orders : RazorpayCallFails(o)
  \/ \E o \in Orders : ProviderCaptures(o)
  \/ \E o \in Orders : ProviderDeclines(o)
  \/ \E o \in Orders : MarkOrderPaid(o)
  \/ \E o \in Orders : MarkPaymentFailed(o)
  \/ \E o \in Orders : CancelOrderByCustomer(o)
  \/ FindStaleOrders
  \/ \E o \in Orders : CancelStaleOrder(o)
  \/ \E o \in Orders : StaleOrderFails(o)
  \/ \E o \in Orders, s \in Status : UpdateOrderStatus(o, s)
  \/ \E v \in Variants, n \in 0 .. MaxStock : SetVariantStock(v, n)
  \/ \E v \in Variants : SetVariantActive(v)
  \/ \E o \in Orders, w \in Windows : CreateReturnRequest(o, w)
  \/ \E o \in Orders, s \in ReturnStatus : DecideReturn(o, s)
  \/ \E o \in Orders : BecomeOverdue(o)
  \/ \E o \in Orders : DeliveryAges(o)

Spec == Init /\ [][Next]_vars

\* Time passes; the provider redelivers a webhook until it is answered; the cron
\* container runs the sweep every night, and the database does not fail a
\* candidate's transaction for ever.
Fairness ==
  /\ WF_vars(FindStaleOrders)
  /\ \A o \in Orders :
       /\ WF_vars(BecomeOverdue(o))
       /\ WF_vars(MarkOrderPaid(o))
       /\ WF_vars(CancelStaleOrder(o) \/ StaleOrderFails(o))
       /\ SF_vars(CancelStaleOrder(o))

FairSpec == Spec /\ Fairness

(***************************************************************************)
(* What must hold.                                                         *)
(***************************************************************************)

\* Units an order keeps off the shelf: its own while it is live, corrected for
\* the admin's status changes, which move no stock.
Held(o) == (IF o \in Live THEN 1 ELSE 0) + drift[o]

\* The shelf and the orders account for every unit: stock_qty is what the shop
\* put in, less what the live orders hold.  No interleaving of the checkout, the
\* customer's cancellation, the stale-order sweep and the webhooks loses a unit
\* or returns one twice; only the admin's status changes can, by what drift counts.
StockLedger ==
  \A v \in Variants :
    stock[v] + Total([o \in Orders |-> Held(o) * items[o][v]]) = base[v]

\* Money the shop has recorded stays recorded: once a webhook has stored a payment
\* id, no late payment.failed, no sweep and no admin leaves the order unpaid, and
\* an order reads "paid" only with a captured payment behind it.
RecordedPaymentStays ==
  \A o \in Orders :
    /\ recorded[o] => pay[o] \in {"paid", "refunded"} /\ captured[o]
    /\ pay[o] = "paid" => recorded[o]

\* The newest row of an order's history names its status (recordStatus and the
\* inline inserts), except where markOrderPaid wrote "confirmed" over an order
\* that had already moved on; it never drifts in any other way.
TimelineTracksStatus ==
  \A o \in Orders : lastTo[o] # status[o] => lastTo[o] = "confirmed" /\ recorded[o]

\* A payment reads "refunded" only behind a return the owner has refunded, and a
\* return exists only for an order that was once delivered, whatever statuses the
\* admin gives the order afterwards (decideReturn, createReturnRequest).
RefundTrail ==
  \A o \in Orders :
    /\ pay[o] = "refunded" => ret[o] = "refunded"
    /\ ret[o] # "none" => delivered[o] /\ Placed(o)

\* No step puts the units of an order back on the shelf while its payment is
\* recorded as paid: the sweep's candidates may be paid for between the query
\* that finds them and the transaction that cancels them.
NeverReleasePaid ==
  [][\A o \in Orders :
       pay[o] = "paid" /\ status[o] # "cancelled" /\ status'[o] = "cancelled"
         => stock' = stock]_vars

\* An online order nobody pays for does not hold its units for ever: the sweep
\* releases it, unless the customer, a webhook or the admin moves it first, or one of
\* its payment attempts has failed: the query for candidates passes over those.
UnpaidIsReleased ==
  \A o \in Orders : Unpaid(o) ~> status[o] # "pending" \/ (pay[o] = "failed" /\ attempt[o])

(***************************************************************************)
(* What comments in the code say, and the code does not do.                 *)
(***************************************************************************)

\* "There is one way an order is cancelled and one way stock comes back"
\* (cancelOrderByCustomer): every unit is either on the shelf or in a live order.
OneWayStockComesBack ==
  \A v \in Variants :
    stock[v] + Total([o \in Orders |-> IF o \in Live THEN items[o][v] ELSE 0]) = base[v]

LeftUnpaid(o) == status[o] = "pending" /\ pay[o] \in {"pending", "failed"}

\* "Cancels orders left unpaid for more than 48 hours and puts their stock back"
\* (cancelStaleOrders): with a failed attempt or without, unpaid is unpaid.
LeftUnpaidIsReleased ==
  \A o \in Orders : LeftUnpaid(o) ~> ~LeftUnpaid(o)
=============================================================================
