----------------------------- MODULE ShopLedger -----------------------------
(***************************************************************************)
(* What checkout promises about the shop's books: an order is written with *)
(* its stock and its coupon taken, or nothing is; an order is called off   *)
(* once, and its units come back; each in one indivisible step.            *)
(***************************************************************************)
EXTENDS Integers, FiniteSets, Totals

CONSTANTS
  Requests,      \* checkout requests; an order's id is minted per request
  Keys,          \* idempotency keys browsers send
  Customers,     \* e-mail addresses
  LastId,        \* highest product_variants id given out
  Variants,      \* product_variants ids
  Products,      \* products ids
  ProductOf,     \* product_variants.product_id
  Carts,         \* what a request may ask for: who, qty per variant, lines, coupon, online
  InitStock,     \* stock_qty of each variant at the start
  MaxStock,      \* highest figure an admin types
  GlobalLimit,   \* coupons.global_limit of the one coupon
  PerCustomer    \* coupons.per_customer_limit

VARIABLES
  stock,      \* product_variants.stock_qty
  active,     \* variants with product_variants.is_active
  published,  \* products with products.is_active
  orders,     \* the orders table, by id
  couponOn,   \* coupons.is_active
  timesUsed,  \* coupons.times_used
  base        \* history: stock at the start plus the admin's stock edits

vars == <<stock, active, published, orders, couponOn, timesUsed, base>>

NoOrder == [status |-> "absent"]

\* online: the payment provider's order id is attached.
Order == [status : {"live", "cancelled"}, key : Keys, cart : Carts, attached : BOOLEAN]

NewOrder(k, c) == [status |-> "live", key |-> k, cart |-> c, attached |-> FALSE]

Placed == {r \in Requests : orders[r] # NoOrder}
Live   == {r \in Placed : orders[r].status = "live"}

\* coupon_redemptions: one row per order that carried the coupon, cancelled or not.
Redeemed       == {r \in Placed : orders[r].cart.coupon}
RedeemedBy(c)  == {r \in Redeemed : orders[r].cart.who = c}

TypeOK ==
  /\ stock \in [Variants -> Nat]
  /\ active \in SUBSET Variants
  /\ published \in SUBSET Products
  /\ orders \in [Requests -> Order \cup {NoOrder}]
  /\ couponOn \in BOOLEAN
  /\ timesUsed \in Nat
  /\ base \in [Variants -> Int]

Init ==
  /\ stock = InitStock
  /\ active = Variants
  /\ published = Products
  /\ orders = [r \in Requests |-> NoOrder]
  /\ couponOn = TRUE
  /\ timesUsed = 0
  /\ base = InitStock

\* Fault: no unique index on the key.
KeyUnchecked(k) == TRUE

KeyIsNew(k) == \A r \in Placed : orders[r].key # k

OnSale(v) == v \in active /\ ProductOf[v] \in published

\* Fault: the UPDATE has lost its stock_qty >= ?.
CanTakeUnguarded(c) == \A v \in Variants : c.qty[v] > 0 => OnSale(v)

CanTake(c) == \A v \in Variants : c.qty[v] > 0 => OnSale(v) /\ stock[v] >= c.qty[v]

CouponHolds(c) ==
  c.coupon => couponOn /\ timesUsed < GlobalLimit /\ Cardinality(RedeemedBy(c.who)) < PerCustomer

Place(r, k, c) ==
  /\ orders[r] = NoOrder
  /\ KeyIsNew(k) /\ CanTake(c) /\ CouponHolds(c)
  /\ stock' = [v \in Variants |-> stock[v] - c.qty[v]]
  /\ orders' = [orders EXCEPT ![r] = NewOrder(k, c)]
  /\ timesUsed' = IF c.coupon THEN timesUsed + 1 ELSE timesUsed
  /\ UNCHANGED <<active, published, couponOn, base>>

Cancel(r) ==
  /\ r \in Live
  /\ stock' = [v \in Variants |-> stock[v] + orders[r].cart.qty[v]]
  /\ orders' = [orders EXCEPT ![r].status = "cancelled"]
  /\ UNCHANGED <<active, published, couponOn, timesUsed, base>>

Attach(r) ==
  /\ r \in Placed
  /\ orders' = [orders EXCEPT ![r].attached = TRUE]
  /\ UNCHANGED <<stock, active, published, couponOn, timesUsed, base>>

SetStock(v, n) ==
  /\ stock' = [stock EXCEPT ![v] = n]
  /\ base' = [base EXCEPT ![v] = @ + n - stock[v]]
  /\ UNCHANGED <<active, published, orders, couponOn, timesUsed>>

ActiveOf(p) == {v \in active : ProductOf[v] = p}

\* The last active variant of a published product is not archived.
SetActive(v) ==
  /\ OnSale(v) => ActiveOf(ProductOf[v]) # {v}
  /\ active' = IF v \in active THEN active \ {v} ELSE active \cup {v}
  /\ UNCHANGED <<stock, published, orders, couponOn, timesUsed, base>>

\* A product with nothing to sell is not published.
SetPublished(p) ==
  /\ p \notin published => ActiveOf(p) # {}
  /\ published' = IF p \in published THEN published \ {p} ELSE published \cup {p}
  /\ UNCHANGED <<stock, active, orders, couponOn, timesUsed, base>>

SetCoupon ==
  /\ couponOn' = ~couponOn
  /\ UNCHANGED <<stock, active, published, orders, timesUsed, base>>

Next ==
  \/ \E r \in Requests, k \in Keys, c \in Carts : Place(r, k, c)
  \/ \E r \in Requests : Cancel(r) \/ Attach(r)
  \/ \E v \in Variants, n \in 0 .. MaxStock : SetStock(v, n)
  \/ \E v \in Variants : SetActive(v)
  \/ \E p \in Products : SetPublished(p)
  \/ SetCoupon

Spec == Init /\ [][Next]_vars

\* Units of variant v in r's order, if it has one that is live.
Held(r, v) == IF r \in Live THEN orders[r].cart.qty[v] ELSE 0

\* Every unit is on the shelf or in a live order: the stock figure and the orders
\* always add up to what the admin has put in.
StockBalanced ==
  \A v \in Variants : stock[v] + Total([r \in Requests |-> Held(r, v)]) = base[v]

\* However often a request is repeated, its key stands for at most one order.
OneOrderPerKey ==
  \A r, s \in Placed : orders[r].key = orders[s].key => r = s

\* The counter is the number of redemptions, and neither cap is ever passed.
CouponWithinLimits ==
  /\ timesUsed = Cardinality(Redeemed)
  /\ timesUsed <= GlobalLimit
  /\ \A c \in Customers : Cardinality(RedeemedBy(c)) <= PerCustomer
=============================================================================
