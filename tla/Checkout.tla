------------------------------ MODULE Checkout ------------------------------
(***************************************************************************)
(* POST /api/checkout and the transactions it competes with, statement by  *)
(* statement.  A checkout locks its variants with their products, in the   *)
(* order in which the optimizer walks them, then the coupon, the customer  *)
(* and the entry of its key in the unique index; a cancellation            *)
(* (the customer's or the stale-order job's) locks the order's row, then   *)
(* the variants in the order of the order's lines.  Row locks are held to  *)
(* the end of the transaction; InnoDB breaks a cycle of waiting            *)
(* transactions by rolling one of them back.  What a transaction has       *)
(* written and not committed no other one sees, so it is applied here when *)
(* the transaction commits.  The single-statement writers of the admin     *)
(* console take one lock and are one step.                                 *)
(***************************************************************************)
EXTENDS ShopLedger, FiniteSets, Sequences

CONSTANTS
  Cancellers,   \* cancellations in progress at once
  Edited,       \* variants and products the admin edits meanwhile: a bound
  Plans,        \* ways to execute the checkout's SELECT .. JOIN .. FOR UPDATE
  Traffic,      \* which keys, bodies and plans may come together: a bound
  Nobody        \* the owner of a lock that is free

ASSUME NobodyAssumption == Nobody \notin Requests \cup Cancellers

ASSUME DistinctAssumption == Requests \cap Cancellers = {}

ASSUME VariantsAssumption == LastId \in Nat /\ Variants \subseteq 1 .. LastId

ASSUME ProductsAssumption == ProductOf \in [Variants -> Products]

\* first: the table the join begins with; rank: the order in which it meets the
\* variants.  One that begins with products meets all of a product's together.
ASSUME PlansAssumption ==
  \A p \in Plans :
    /\ p.first \in {"variant", "product"}
    /\ p.rank \in [Variants -> 1 .. LastId]
    /\ \A v, w \in Variants : p.rank[v] = p.rank[w] => v = w
    /\ p.first = "product" =>
         \A u, v, w \in Variants :
           p.rank[u] < p.rank[v] /\ p.rank[v] < p.rank[w] /\ ProductOf[u] = ProductOf[w]
             => ProductOf[v] = ProductOf[u]

ASSUME TrafficAssumption ==
  Traffic \subseteq [key : [Requests -> Keys], cart : [Requests -> Carts], plan : [Requests -> Plans]]

ASSUME RequestsAssumption == IsFiniteSet(Requests)

ASSUME CartsAssumption ==
  \A c \in Carts :
    /\ c.who \in Customers /\ c.coupon \in BOOLEAN /\ c.online \in BOOLEAN
    /\ c.qty \in [Variants -> Nat]
    /\ c.lines \in Seq(Variants)
    /\ \A v \in Variants : c.qty[v] > 0 <=> \E i \in DOMAIN c.lines : c.lines[i] = v

ASSUME InitStockAssumption == InitStock \in [Variants -> Nat]

ASSUME LimitsAssumption == MaxStock \in Nat /\ GlobalLimit \in Nat /\ PerCustomer \in Nat

Txns == Requests \cup Cancellers

\* What a transaction may hold: a row of a table or an entry of a unique index.
VariantRow(v)  == <<"variant", v>>
ProductRow(p)  == <<"product", p>>
CouponRow      == <<"coupon", 0>>
CustomerRow(c) == <<"customer", c>>
KeyEntry(k)    == <<"key", k>>
OrderRow(r)    == <<"order", r>>

Rows == {VariantRow(v) : v \in Variants} \cup {ProductRow(p) : p \in Products} \cup {CouponRow}
          \cup {CustomerRow(c) : c \in Customers} \cup {KeyEntry(k) : k \in Keys}
          \cup {OrderRow(r) : r \in Requests}

VARIABLES
  pc,      \* where each transaction is
  key,     \* a request's Idempotency-Key header
  cart,    \* its validated body
  plan,    \* how the optimizer will execute its join
  target,  \* the order a cancellation is for
  owner,   \* who holds the lock on each row
  answer   \* status of the response; "lost" when none reaches the browser

ledger  == <<stock, active, published, orders, couponOn, timesUsed, base>>
request == <<key, cart, plan>>
allVars == <<ledger, pc, request, target, owner, answer>>

InTransaction == {"variants", "coupon", "customer", "insert", "commit"}
AfterCommit   == {"replay", "provider", "attach"}
Cancelling    == {"order", "restore"}
Answers       == {"none", "201", "200", "409", "500", "503", "lost"}

CheckoutTypeOK ==
  /\ TypeOK
  /\ pc \in [Txns -> {"new", "idle", "done"} \cup InTransaction \cup AfterCommit \cup Cancelling]
  /\ key \in [Requests -> Keys]
  /\ cart \in [Requests -> Carts]
  /\ plan \in [Requests -> Plans]
  /\ target \in [Cancellers -> Requests \cup {Nobody}]
  /\ owner \in [Rows -> Txns \cup {Nobody}]
  /\ answer \in [Requests -> Answers]

CheckoutInit ==
  /\ Init
  /\ pc = [t \in Txns |-> IF t \in Requests THEN "new" ELSE "idle"]
  /\ \E t \in Traffic : key = t.key /\ cart = t.cart /\ plan = t.plan
  /\ target = [c \in Cancellers |-> Nobody]
  /\ owner = [x \in Rows |-> Nobody]
  /\ answer = [r \in Requests |-> "none"]

Goto(t, label) == pc' = [pc EXCEPT ![t] = label]

Free(x) == owner[x] = Nobody

Acquire(t, x) ==
  /\ Free(x)
  /\ owner' = [owner EXCEPT ![x] = t]

\* Fault: the coupon's row stays locked.
ReleaseButCoupon(t) ==
  owner' = [x \in Rows |-> IF owner[x] = t /\ x # CouponRow THEN Nobody ELSE owner[x]]

\* Commit, rollback and a broken connection all release what was locked.
Release(t) == owner' = [x \in Rows |-> IF owner[x] = t THEN Nobody ELSE owner[x]]

Answer(r, a) == answer' = [answer EXCEPT ![r] = a]

(***************************************************************************)
(* The checkout request.                                                   *)
(***************************************************************************)

\* The variants of the cart.
InCart(r) == {v \in Variants : cart[r].qty[v] > 0}

\* A line of the join's result is locked in both tables.
Holds(r, v) == owner[VariantRow(v)] = r /\ owner[ProductRow(ProductOf[v])] = r

HoldsRows(r) == \A v \in InCart(r) : Holds(r, v)

\* Fault: one SELECT per line, in the cart's order.
NextVariantOfLines(r, v) ==
  /\ v \in InCart(r) /\ ~Holds(r, v)
  /\ \E i \in DOMAIN cart[r].lines :
       /\ cart[r].lines[i] = v
       /\ \A j \in DOMAIN cart[r].lines : j < i => Holds(r, cart[r].lines[j])

Earlier(r, v) == {w \in InCart(r) : plan[r].rank[w] < plan[r].rank[v]}

\* SELECT .. FROM product_variants v JOIN products p .. WHERE v.id IN (..) FOR UPDATE.
NextVariant(r, v) ==
  /\ v \in InCart(r) /\ ~Holds(r, v)
  /\ \A w \in Earlier(r, v) : Holds(r, w)

\* Of the two rows of a line, the one the join comes to first, then the other.
NextRow(r, v) ==
  LET product == ProductRow(ProductOf[v])
      first   == IF plan[r].first = "product" THEN product ELSE VariantRow(v)
      second  == IF plan[r].first = "product" THEN VariantRow(v) ELSE product
  IN IF owner[first] = r THEN second ELSE first

\* The request is valid; its transaction begins.
Receive(r) ==
  /\ pc[r] = "new"
  /\ Goto(r, "variants")
  /\ UNCHANGED <<ledger, request, target, owner, answer>>

LockRow(r) ==
  /\ pc[r] = "variants"
  /\ \E v \in Variants : NextVariant(r, v) /\ Acquire(r, NextRow(r, v))
  /\ UNCHANGED <<ledger, pc, request, target, answer>>

\* Every guarded UPDATE .. WHERE stock_qty >= ? has found its units.
TakeStock(r) ==
  /\ pc[r] = "variants" /\ HoldsRows(r)
  /\ CanTake(cart[r])
  /\ Goto(r, IF cart[r].coupon THEN "coupon" ELSE "customer")
  /\ UNCHANGED <<ledger, request, target, owner, answer>>

\* UnknownVariantError or InsufficientStockError: roll back, 409.
RefuseStock(r) ==
  /\ pc[r] = "variants" /\ HoldsRows(r)
  /\ ~CanTake(cart[r])
  /\ Release(r) /\ Goto(r, "done") /\ Answer(r, "409")
  /\ UNCHANGED <<ledger, request, target>>

\* Fault: previewCoupon's plain SELECT.
ReadCoupon(r) == Free(CouponRow) /\ UNCHANGED owner

\* SELECT .. FROM coupons WHERE code = ? FOR UPDATE.
LockCoupon(r) == Acquire(r, CouponRow)

\* claimCouponTx: lock the coupon's row, then evaluate it and count the customer's
\* redemptions.
ClaimCoupon(r) ==
  /\ pc[r] = "coupon"
  /\ CouponHolds(cart[r])
  /\ LockCoupon(r)
  /\ Goto(r, "customer")
  /\ UNCHANGED <<ledger, request, target, answer>>

\* CouponRefusedError: roll back, 409.
RefuseCoupon(r) ==
  /\ pc[r] = "coupon" /\ Free(CouponRow)
  /\ ~CouponHolds(cart[r])
  /\ Release(r) /\ Goto(r, "done") /\ Answer(r, "409")
  /\ UNCHANGED <<ledger, request, target>>

\* upsertCustomerTx.
UpsertCustomer(r) ==
  /\ pc[r] = "customer"
  /\ Acquire(r, CustomerRow(cart[r].who))
  /\ Goto(r, "insert")
  /\ UNCHANGED <<ledger, request, target, answer>>

\* INSERT INTO orders and what follows it up to the commit.
InsertOrder(r) ==
  /\ pc[r] = "insert"
  /\ KeyIsNew(key[r])
  /\ Acquire(r, KeyEntry(key[r]))
  /\ Goto(r, "commit")
  /\ UNCHANGED <<ledger, request, target, answer>>

\* ER_DUP_ENTRY on uq_orders_idempotency: roll back, then look the order up.
Duplicate(r) ==
  /\ pc[r] = "insert" /\ Free(KeyEntry(key[r]))
  /\ ~KeyIsNew(key[r])
  /\ Release(r) /\ Goto(r, "replay")
  /\ UNCHANGED <<ledger, request, target, answer>>

\* What becomes visible of the transaction when it commits.
Write(r) ==
  /\ stock' = [v \in Variants |-> stock[v] - cart[r].qty[v]]
  /\ orders' = [orders EXCEPT ![r] = NewOrder(key[r], cart[r])]
  /\ timesUsed' = IF cart[r].coupon THEN timesUsed + 1 ELSE timesUsed
  /\ UNCHANGED <<active, published, couponOn, base>>

\* COD answers here; an online order needs an order id of the provider's first.
Commit(r) ==
  /\ pc[r] = "commit"
  /\ Write(r) /\ Release(r)
  /\ IF cart[r].online THEN Goto(r, "provider") /\ UNCHANGED answer
                       ELSE Goto(r, "done") /\ Answer(r, "201")
  /\ UNCHANGED <<request, target>>

\* The commit happens, its acknowledgement is lost: the handler sees an error.
CommitUnacknowledged(r) ==
  /\ pc[r] = "commit"
  /\ Write(r) /\ Release(r)
  /\ Goto(r, "done")
  /\ \E a \in {"500", "503", "lost"} : Answer(r, a)
  /\ UNCHANGED <<request, target>>

\* getOrderByIdempotencyKey: the order that was created the first time.
Replay(r) ==
  /\ pc[r] = "replay"
  /\ IF KeyIsNew(key[r]) THEN Answer(r, "500") ELSE Answer(r, "200")
  /\ Goto(r, "done")
  /\ UNCHANGED <<ledger, request, target, owner>>

\* Fault: the browser is answered while the UPDATE is still to come.
ProviderAnswersEarly(r) ==
  /\ pc[r] = "provider"
  /\ Goto(r, "attach") /\ Answer(r, "201")
  /\ UNCHANGED <<ledger, request, target, owner>>

\* createRazorpayOrder has answered.
ProviderAnswers(r) ==
  /\ pc[r] = "provider"
  /\ Goto(r, "attach")
  /\ UNCHANGED <<ledger, request, target, owner, answer>>

\* attachRazorpayOrderId: one UPDATE by id, outside any transaction.
AttachRazorpayOrderId(r) ==
  /\ pc[r] = "attach" /\ Free(OrderRow(r))
  /\ Attach(r)
  /\ Goto(r, "done") /\ Answer(r, "201")
  /\ UNCHANGED <<request, target, owner>>

\* A statement, the connection, the provider or the server fails.  Before the
\* commit nothing of the transaction remains; the reply is 503 for the error codes
\* of isDbDown, 500 for any other, none when the server stops.
Fail(r) ==
  /\ pc[r] \in InTransaction \cup AfterCommit
  /\ Release(r) /\ Goto(r, "done")
  /\ \E a \in {"500", "503", "lost"} : Answer(r, a)
  /\ UNCHANGED <<ledger, request, target>>

(***************************************************************************)
(* Cancellations: cancelOrderByCustomer and the body of cancelStaleOrders. *)
(***************************************************************************)

\* A cancellation is over, one way or the other.
Forget(c) ==
  /\ pc' = [pc EXCEPT ![c] = "idle"]
  /\ target' = [target EXCEPT ![c] = Nobody]

\* The customer names an order, or the job's query has listed it: it is unpaid and
\* in the table, but may be cancelled by now.
BeginCancel(c, r) ==
  /\ pc[c] = "idle" /\ r \in Placed
  /\ target' = [target EXCEPT ![c] = r]
  /\ Goto(c, "order")
  /\ UNCHANGED <<ledger, request, owner, answer>>

\* Fault: only the order's existence is checked under its lock.
StillPlaced(c) == target[c] \in Placed

StillLive(c) == target[c] \in Live

LockOrder(c) ==
  /\ pc[c] = "order"
  /\ StillLive(c)
  /\ Acquire(c, OrderRow(target[c]))
  /\ Goto(c, "restore")
  /\ UNCHANGED <<ledger, request, target, answer>>

\* Already cancelled: roll back.
NothingToCancel(c) ==
  /\ pc[c] = "order" /\ Free(OrderRow(target[c]))
  /\ ~StillLive(c)
  /\ Forget(c)
  /\ UNCHANGED <<ledger, request, owner, answer>>

LinesOf(c) == orders[target[c]].cart.lines

\* One UPDATE per line, in the order the lines were written.
NextLine(c, i) ==
  /\ i \in DOMAIN LinesOf(c)
  /\ owner[VariantRow(LinesOf(c)[i])] # c
  /\ \A j \in DOMAIN LinesOf(c) : j < i => owner[VariantRow(LinesOf(c)[j])] = c

RestoreLine(c) ==
  /\ pc[c] = "restore"
  /\ \E i \in DOMAIN LinesOf(c) : NextLine(c, i) /\ Acquire(c, VariantRow(LinesOf(c)[i]))
  /\ UNCHANGED <<ledger, pc, request, target, answer>>

CommitCancel(c) ==
  /\ pc[c] = "restore"
  /\ \A i \in DOMAIN LinesOf(c) : owner[VariantRow(LinesOf(c)[i])] = c
  /\ stock' = [v \in Variants |-> stock[v] + orders[target[c]].cart.qty[v]]
  /\ orders' = [orders EXCEPT ![target[c]].status = "cancelled"]
  /\ Release(c) /\ Forget(c)
  /\ UNCHANGED <<active, published, couponOn, timesUsed, base, request, answer>>

\* The job logs and goes on to the next order; the customer is answered 503.
FailCancel(c) ==
  /\ pc[c] \in Cancelling
  /\ Release(c) /\ Forget(c)
  /\ UNCHANGED <<ledger, request, answer>>

(***************************************************************************)
(* InnoDB: waiting transactions and deadlocks.                             *)
(***************************************************************************)

\* The rows a transaction is waiting for, at most one.
Wanted(t) ==
  CASE pc[t] = "variants" -> {NextRow(t, v) : v \in {w \in Variants : NextVariant(t, w)}}
    [] pc[t] = "coupon"   -> {CouponRow}
    [] pc[t] = "customer" -> {CustomerRow(cart[t].who)}
    [] pc[t] = "insert"   -> {KeyEntry(key[t])}
    [] pc[t] = "order"    -> {OrderRow(target[t])}
    [] pc[t] = "restore"  -> {VariantRow(LinesOf(t)[i]) : i \in {j \in DOMAIN LinesOf(t) : NextLine(t, j)}}
    [] OTHER              -> {}

WaitsFor(t, u) == t # u /\ \E x \in Wanted(t) : owner[x] = u

Waiting == {t \in Txns : \E u \in Txns : WaitsFor(t, u)}

\* Circles: every member waits for another and is waited for.
Deadlocked(S) ==
  /\ S # {}
  /\ \A t \in S : \E u \in S : WaitsFor(t, u)
  /\ \A t \in S : \E u \in S : WaitsFor(u, t)

\* ER_LOCK_DEADLOCK: InnoDB rolls a member of the cycle back; that is no code of
\* isDbDown, so a checkout answers 500.
Victim(t) ==
  /\ t \in Waiting
  /\ \E S \in SUBSET Waiting : t \in S /\ Deadlocked(S)
  /\ Release(t)
  /\ \/ t \in Requests /\ Goto(t, "done") /\ Answer(t, "500") /\ UNCHANGED target
     \/ t \in Cancellers /\ Forget(t) /\ UNCHANGED answer
  /\ UNCHANGED <<ledger, request>>

(***************************************************************************)
(* The admin console.                                                      *)
(***************************************************************************)

\* setVariantStock.
SetVariantStock(v, n) ==
  /\ Free(VariantRow(v))
  /\ SetStock(v, n)
  /\ UNCHANGED <<pc, request, target, owner, answer>>

\* setVariantActive locks the variant and its product, too.  It is one step here, so
\* that the desk itself is never in a circle.
SetVariantActive(v) ==
  /\ Free(VariantRow(v)) /\ Free(ProductRow(ProductOf[v]))
  /\ SetActive(v)
  /\ UNCHANGED <<pc, request, target, owner, answer>>

\* setProductActive.
SetProductActive(p) ==
  /\ Free(ProductRow(p))
  /\ SetPublished(p)
  /\ UNCHANGED <<pc, request, target, owner, answer>>

\* setCouponActive.
SetCouponActive ==
  /\ Free(CouponRow)
  /\ SetCoupon
  /\ UNCHANGED <<pc, request, target, owner, answer>>

\* What a handler does next when nothing fails.
Advance(r) ==
  \/ LockRow(r) \/ TakeStock(r) \/ RefuseStock(r)
  \/ ClaimCoupon(r) \/ RefuseCoupon(r)
  \/ UpsertCustomer(r) \/ InsertOrder(r) \/ Duplicate(r)
  \/ Commit(r) \/ Replay(r) \/ ProviderAnswers(r) \/ AttachRazorpayOrderId(r)

AdvanceCancel(c) ==
  LockOrder(c) \/ NothingToCancel(c) \/ RestoreLine(c) \/ CommitCancel(c)

CheckoutNext ==
  \/ \E r \in Requests : Receive(r) \/ Advance(r) \/ CommitUnacknowledged(r) \/ Fail(r)
  \/ \E c \in Cancellers, r \in Requests : BeginCancel(c, r)
  \/ \E c \in Cancellers : AdvanceCancel(c) \/ FailCancel(c)
  \/ \E t \in Txns : Victim(t)
  \/ \E v \in Variants \cap Edited, n \in 0 .. MaxStock : SetVariantStock(v, n)
  \/ \E v \in Variants \cap Edited : SetVariantActive(v)
  \/ \E p \in Products \cap Edited : SetProductActive(p)
  \/ SetCouponActive

\* Whatever has begun goes on; a row lock is granted in order of arrival, so who
\* waits for one is not passed over for ever; InnoDB looks for deadlocks.  Failures
\* and the admin's edits need not happen.
Fairness ==
  /\ \A r \in Requests : SF_allVars(Advance(r))
  /\ \A c \in Cancellers : SF_allVars(AdvanceCancel(c))
  /\ WF_allVars(\E t \in Txns : Victim(t))

CheckoutSpec == CheckoutInit /\ [][CheckoutNext]_allVars

FairSpec == CheckoutSpec /\ Fairness

\* Statement by statement, under locks, failures and deadlocks, the books change
\* only as ShopLedger says: in whole orders, cancellations and edits.
ImplementsLedger == Spec

\* Requests that sell two variants of one product between them.
ShareProduct(r, s) ==
  \E v \in InCart(r), w \in InCart(s) : v # w /\ ProductOf[v] = ProductOf[w]

\* How far createOrder's "two of them cannot deadlock against each other" is right.  No
\* checkout waits in a circle for the coupon, the customer or the key; for variants and
\* products, only where two walk them in different orders, or a walk that takes the
\* variants first meets a product by two of its variants.
CirclesNeedCrossedWalks ==
  \A S \in SUBSET Requests : Deadlocked(S) =>
    /\ \A r \in S : pc[r] = "variants"
    /\ \E r, s \in S : plan[r] # plan[s] \/ (plan[r].first = "variant" /\ ShareProduct(r, s))

\* What the browser is told is so: an order it is told of exists under the key it
\* sent, with its payment order attached if it is to be paid online, so that a
\* webhook can find it; after a refusal the request has left no order.
AnswersAreTrue ==
  \A r \in Requests :
    /\ answer[r] = "201" => /\ r \in Placed /\ orders[r].key = key[r]
                          /\ (cart[r].online => orders[r].attached)
    /\ answer[r] = "200" => \E s \in Placed : orders[s].key = key[r]
    /\ answer[r] = "409" => r \notin Placed

\* Every request comes to an end, through lock queues and deadlocks.
EveryRequestEnds == \A r \in Requests : pc[r] = "variants" ~> pc[r] = "done"
=============================================================================
