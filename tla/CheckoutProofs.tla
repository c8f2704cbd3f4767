--------------------------- MODULE CheckoutProofs ---------------------------
(***************************************************************************)
(* The checkout's transactions implement the ledger.  The argument is the  *)
(* usual one for two-phase locking: what a transaction has checked about a *)
(* row it holds stays true until it commits, because whoever wants to      *)
(* change that row has to hold it.  Ok(r) says what a request has checked  *)
(* and holds at each statement, CancelOk(c) the same of a cancellation;    *)
(* Keeps(t) says that a step of t takes nothing away from another          *)
(* transaction, Stable(u) that it changes nothing under u's locks.         *)
(***************************************************************************)
EXTENDS Checkout, TotalsProofs, FiniteSetTheorems, WellFoundedInduction, NaturalsInduction, TLAPS

LEMMA RowFacts ==
  /\ \A v, w \in Variants : VariantRow(v) = VariantRow(w) => v = w
  /\ \A c, d \in Customers : CustomerRow(c) = CustomerRow(d) => c = d
  /\ \A j, k \in Keys : KeyEntry(j) = KeyEntry(k) => j = k
  /\ \A r, s \in Requests : OrderRow(r) = OrderRow(s) => r = s
  /\ \A p, q \in Products : ProductRow(p) = ProductRow(q) => p = q
  /\ \A v \in Variants, p \in Products : VariantRow(v) # ProductRow(p)
  /\ \A p \in Products : ProductRow(p) # CouponRow
  /\ \A p \in Products, c \in Customers : ProductRow(p) # CustomerRow(c)
  /\ \A p \in Products, k \in Keys : ProductRow(p) # KeyEntry(k)
  /\ \A p \in Products, r \in Requests : ProductRow(p) # OrderRow(r)
  /\ \A v \in Variants : VariantRow(v) # CouponRow
  /\ \A v \in Variants, c \in Customers : VariantRow(v) # CustomerRow(c)
  /\ \A v \in Variants, k \in Keys : VariantRow(v) # KeyEntry(k)
  /\ \A v \in Variants, r \in Requests : VariantRow(v) # OrderRow(r)
  /\ \A c \in Customers : CouponRow # CustomerRow(c)
  /\ \A k \in Keys : CouponRow # KeyEntry(k)
  /\ \A r \in Requests : CouponRow # OrderRow(r)
  /\ \A c \in Customers, k \in Keys : CustomerRow(c) # KeyEntry(k)
  /\ \A c \in Customers, r \in Requests : CustomerRow(c) # OrderRow(r)
  /\ \A k \in Keys, r \in Requests : KeyEntry(k) # OrderRow(r)
  BY DEF VariantRow, ProductRow, CouponRow, CustomerRow, KeyEntry, OrderRow

LEMMA RowsAreRows ==
  /\ \A v \in Variants : VariantRow(v) \in Rows
  /\ \A p \in Products : ProductRow(p) \in Rows
  /\ \A v \in Variants : ProductOf[v] \in Products /\ ProductRow(ProductOf[v]) \in Rows
  /\ CouponRow \in Rows
  /\ \A c \in Customers : CustomerRow(c) \in Rows
  /\ \A k \in Keys : KeyEntry(k) \in Rows
  /\ \A r \in Requests : OrderRow(r) \in Rows
  BY ProductsAssumption DEF Rows

\* The statements at which a request holds its rows, and has taken the units.
HasTaken   == {"coupon", "customer", "insert", "commit"}
HasClaimed == {"customer", "insert", "commit"}

\* The join has come as far as v: it holds every line before it.
Reached(r, v) == v \in InCart(r) /\ \A w \in Earlier(r, v) : Holds(r, w)

\* Every row of the join that r holds is of a line it has come to, and the row that the
\* plan takes first came first.
WalkOk(r) ==
  /\ \A v \in Variants : owner[VariantRow(v)] = r =>
       /\ pc[r] \in InTransaction /\ Reached(r, v)
       /\ plan[r].first = "product" => owner[ProductRow(ProductOf[v])] = r
  /\ \A p \in Products : owner[ProductRow(p)] = r =>
       /\ pc[r] \in InTransaction
       /\ \E v \in Variants :
            /\ ProductOf[v] = p /\ Reached(r, v)
            /\ plan[r].first = "variant" => owner[VariantRow(v)] = r

\* What request r holds, what it has checked under those locks, and whether its
\* order is in the table.
Ok(r) ==
  /\ pc[r] \in {"new", "done"} \cup InTransaction \cup AfterCommit
  /\ WalkOk(r)
  /\ owner[CouponRow] = r => pc[r] \in HasClaimed
  /\ \A c \in Customers : owner[CustomerRow(c)] = r => pc[r] \in {"insert", "commit"}
  /\ \A k \in Keys : owner[KeyEntry(k)] = r => pc[r] = "commit"
  /\ pc[r] \in HasTaken => HoldsRows(r) /\ CanTake(cart[r])
  /\ pc[r] \in HasClaimed /\ cart[r].coupon => owner[CouponRow] = r /\ CouponHolds(cart[r])
  /\ pc[r] = "commit" => owner[KeyEntry(key[r])] = r /\ KeyIsNew(key[r])
  /\ pc[r] \in {"new"} \cup InTransaction => r \notin Placed
  /\ pc[r] \in {"provider", "attach"} => r \in Placed

\* What cancellation c holds and has checked.
CancelOk(c) ==
  /\ pc[c] \in {"idle"} \cup Cancelling
  /\ pc[c] \in Cancelling => target[c] \in Placed
  /\ pc[c] = "restore" => target[c] \in Live /\ owner[OrderRow(target[c])] = c

IInv ==
  /\ CheckoutTypeOK
  /\ \A r \in Requests : Ok(r)
  /\ \A c \in Cancellers : CancelOk(c)

\* A step of t leaves every other transaction where it is, with the locks it holds.
Keeps(t) ==
  \A u \in Txns \ {t} :
    /\ pc'[u] = pc[u]
    /\ \A x \in Rows : owner'[x] = u <=> owner[x] = u

\* Nothing that request u has locked is changed by the step.
Stable(u) ==
  /\ cart'[u] = cart[u] /\ key'[u] = key[u] /\ plan'[u] = plan[u]
  /\ u \in Placed' <=> u \in Placed
  /\ \A v \in Variants : owner[VariantRow(v)] = u =>
       stock'[v] = stock[v] /\ (v \in active' <=> v \in active)
  /\ \A p \in Products : owner[ProductRow(p)] = u => (p \in published' <=> p \in published)
  /\ owner[CouponRow] = u =>
       /\ couponOn' = couponOn /\ timesUsed' = timesUsed
       /\ \A c \in Customers : RedeemedBy(c)' = RedeemedBy(c)
  /\ \A k \in Keys : owner[KeyEntry(k)] = u => (KeyIsNew(k) => KeyIsNew(k)')

StableCancel(c) ==
  /\ target'[c] = target[c]
  /\ pc[c] \in Cancelling => target[c] \in Placed'
  /\ pc[c] = "restore" => target[c] \in Live'

LEMMA CartFacts ==
  ASSUME CheckoutTypeOK, NEW r \in Requests
  PROVE  /\ cart[r] \in Carts /\ key[r] \in Keys
         /\ cart[r].who \in Customers
         /\ cart[r].qty \in [Variants -> Nat]
         /\ InCart(r) \subseteq Variants
         /\ plan[r] \in Plans
  BY CartsAssumption DEF CheckoutTypeOK, InCart

LEMMA OthersOk ==
  ASSUME IInv, NEW t, Keeps(t), NEW r \in Requests, r # t, Stable(r)
  PROVE  Ok(r)'
<1>1. /\ pc'[r] = pc[r] /\ cart'[r] = cart[r] /\ key'[r] = key[r] /\ plan'[r] = plan[r]
      /\ \A x \in Rows : owner'[x] = r <=> owner[x] = r
  BY DEF Keeps, Stable, Txns
<1>2. InCart(r)' = InCart(r)
  BY <1>1 DEF InCart
<1>3. Ok(r) /\ CheckoutTypeOK
  BY DEF IInv
<1>4. /\ cart[r].who \in Customers /\ key[r] \in Keys /\ InCart(r) \subseteq Variants
      /\ cart[r].qty \in [Variants -> Nat]
  BY <1>3, CartFacts
<1>5. /\ pc'[r] \in {"new", "done"} \cup InTransaction \cup AfterCommit
      /\ owner'[CouponRow] = r => pc'[r] \in HasClaimed
      /\ \A c \in Customers : owner'[CustomerRow(c)] = r => pc'[r] \in {"insert", "commit"}
      /\ \A k \in Keys : owner'[KeyEntry(k)] = r => pc'[r] = "commit"
  BY <1>1, <1>3, RowsAreRows DEF Ok
<1>6. /\ \A v \in Variants : Holds(r, v)' <=> Holds(r, v)
      /\ \A v \in Variants : owner'[VariantRow(v)] = r <=> owner[VariantRow(v)] = r
      /\ \A p \in Products : owner'[ProductRow(p)] = r <=> owner[ProductRow(p)] = r
  BY <1>1, RowsAreRows DEF Holds
<1>11. ASSUME NEW v \in Variants
       PROVE  Reached(r, v)' <=> Reached(r, v)
  <2>1. Earlier(r, v)' = Earlier(r, v) /\ Earlier(r, v) \subseteq Variants
    BY <1>1, <1>2, <1>4 DEF Earlier
  <2> QED
    BY <2>1, <1>2, <1>6 DEF Reached
<1>12. WalkOk(r)'
  <2>1. WalkOk(r)
    BY <1>3 DEF Ok
  <2> QED
    BY <2>1, <1>1, <1>6, <1>11, RowsAreRows DEF WalkOk
<1>7. pc'[r] \in HasTaken => HoldsRows(r)' /\ CanTake(cart[r])'
  <2>1. SUFFICES ASSUME pc[r] \in HasTaken
                 PROVE  HoldsRows(r)' /\ CanTake(cart[r])'
    BY <1>1
  <2>2. HoldsRows(r) /\ CanTake(cart[r])
    BY <2>1, <1>3 DEF Ok
  <2>3. HoldsRows(r)'
    BY <2>2, <1>2, <1>4, <1>6 DEF HoldsRows
  <2>4. \A v \in InCart(r) : stock'[v] = stock[v] /\ (OnSale(v)' <=> OnSale(v))
    BY <2>2, <1>4, RowsAreRows DEF HoldsRows, Holds, Stable, OnSale
  <2>5. CanTake(cart[r])'
    BY <2>2, <2>4, <1>1 DEF CanTake, InCart
  <2> QED
    BY <2>3, <2>5
<1>8. pc'[r] \in HasClaimed /\ cart'[r].coupon => owner'[CouponRow] = r /\ CouponHolds(cart[r])'
  <2>1. SUFFICES ASSUME pc[r] \in HasClaimed, cart[r].coupon
                 PROVE  owner'[CouponRow] = r /\ CouponHolds(cart[r])'
    BY <1>1
  <2>2. owner[CouponRow] = r /\ CouponHolds(cart[r])
    BY <2>1, <1>3 DEF Ok
  <2>3. couponOn' = couponOn /\ timesUsed' = timesUsed /\ RedeemedBy(cart[r].who)' = RedeemedBy(cart[r].who)
    BY <2>2, <1>1, <1>4 DEF Stable
  <2> QED
    BY <2>2, <2>3, <1>1, RowsAreRows DEF CouponHolds
<1>9. pc'[r] = "commit" => owner'[KeyEntry(key'[r])] = r /\ KeyIsNew(key[r])'
  BY <1>1, <1>3, <1>4, RowsAreRows DEF Ok, Stable
<1>10. /\ pc'[r] \in {"new"} \cup InTransaction => r \notin Placed'
       /\ pc'[r] \in {"provider", "attach"} => r \in Placed'
  BY <1>1, <1>3 DEF Ok, Stable
<1> QED
  BY <1>1, <1>2, <1>5, <1>7, <1>8, <1>9, <1>10, <1>12 DEF Ok

LEMMA OthersCancelOk ==
  ASSUME IInv, NEW t, Keeps(t), NEW c \in Cancellers, c # t, StableCancel(c)
  PROVE  CancelOk(c)'
<1>1. /\ pc'[c] = pc[c] /\ target'[c] = target[c]
      /\ \A x \in Rows : owner'[x] = c <=> owner[x] = c
  BY DEF Keeps, StableCancel, Txns
<1>2. CancelOk(c) /\ (pc[c] \in Cancelling => target[c] \in Requests)
  BY DEF IInv, CancelOk, Placed
<1> QED
  BY <1>1, <1>2, RowsAreRows DEF CancelOk, StableCancel, Cancelling

LEMMA AcquireKeeps ==
  ASSUME CheckoutTypeOK, NEW t \in Txns, NEW x \in Rows, Acquire(t, x),
         \A u \in Txns \ {t} : pc'[u] = pc[u]
  PROVE  /\ Keeps(t)
         /\ owner' \in [Rows -> Txns \cup {Nobody}]
         /\ owner'[x] = t
         /\ \A y \in Rows \ {x} : owner'[y] = owner[y]
  BY NobodyAssumption DEF CheckoutTypeOK, Acquire, Free, Keeps, Txns

LEMMA ReleaseKeeps ==
  ASSUME CheckoutTypeOK, NEW t \in Txns, Release(t),
         \A u \in Txns \ {t} : pc'[u] = pc[u]
  PROVE  /\ Keeps(t)
         /\ owner' \in [Rows -> Txns \cup {Nobody}]
         /\ \A x \in Rows : owner'[x] # t
  BY NobodyAssumption DEF CheckoutTypeOK, Release, Keeps, Txns

LEMMA UnchangedKeeps ==
  ASSUME CheckoutTypeOK, NEW t \in Txns, owner' = owner,
         \A u \in Txns \ {t} : pc'[u] = pc[u]
  PROVE  Keeps(t) /\ owner' \in [Rows -> Txns \cup {Nobody}]
  BY DEF CheckoutTypeOK, Keeps

LEMMA GotoFacts ==
  ASSUME CheckoutTypeOK, NEW t \in Txns, NEW l, Goto(t, l)
  PROVE  pc'[t] = l /\ \A u \in Txns \ {t} : pc'[u] = pc[u]
  BY DEF CheckoutTypeOK, Goto

\* What happens to the books and the requests in a step that leaves both alone.
LEMMA QuietStep ==
  ASSUME IInv, UNCHANGED <<ledger, request>>
  PROVE  /\ TypeOK'
         /\ \A u \in Requests : Stable(u)
         /\ \A c \in Cancellers : target'[c] = target[c] => StableCancel(c)
         /\ Placed' = Placed /\ Live' = Live
         /\ \A r \in Requests : InCart(r)' = InCart(r)
<1>1. TypeOK'
  BY DEF IInv, CheckoutTypeOK, TypeOK, ledger
<1>2. Placed' = Placed /\ Live' = Live
  BY DEF ledger, Placed, Live
<1>3. \A c \in Customers : RedeemedBy(c)' = RedeemedBy(c)
  BY <1>2 DEF ledger, RedeemedBy, Redeemed
<1>4. \A k \in Keys : KeyIsNew(k)' <=> KeyIsNew(k)
  BY <1>2 DEF ledger, KeyIsNew
<1>5. \A u \in Requests : Stable(u)
  BY <1>2, <1>3, <1>4 DEF Stable, ledger, request
<1>6. \A c \in Cancellers : target'[c] = target[c] => StableCancel(c)
  BY <1>2 DEF StableCancel, IInv, CancelOk
<1>7. \A r \in Requests : InCart(r)' = InCart(r)
  BY DEF InCart, request
<1> QED
  BY <1>1, <1>2, <1>5, <1>6, <1>7

LEMMA RequestStep ==
  ASSUME IInv, NEW r \in Requests, Keeps(r), CheckoutTypeOK', Ok(r)',
         \A u \in Requests \ {r} : Stable(u),
         \A c \in Cancellers : StableCancel(c)
  PROVE  IInv'
  BY OthersOk, OthersCancelOk, DistinctAssumption DEF IInv

LEMMA CancelStep ==
  ASSUME IInv, NEW c \in Cancellers, Keeps(c), CheckoutTypeOK', CancelOk(c)',
         \A u \in Requests : Stable(u),
         \A d \in Cancellers \ {c} : StableCancel(d)
  PROVE  IInv'
  BY OthersOk, OthersCancelOk, DistinctAssumption DEF IInv

\* A request that has let go of everything and is past its commit, or will never
\* reach it.
LEMMA ReleasedOk ==
  ASSUME NEW r \in Requests,
         \A x \in Rows : owner'[x] # r,
         pc'[r] \in {"done", "replay", "provider"},
         pc'[r] = "provider" => r \in Placed'
  PROVE  Ok(r)'
  BY RowsAreRows DEF Ok, WalkOk, InTransaction, AfterCommit, HasTaken, HasClaimed

\* A step within the transaction that takes no row of the join, nor gives one back.
LEMMA WalkStays ==
  ASSUME IInv, NEW r \in Requests, UNCHANGED request, pc'[r] \in InTransaction,
         \A v \in Variants : owner'[VariantRow(v)] = owner[VariantRow(v)],
         \A p \in Products : owner'[ProductRow(p)] = owner[ProductRow(p)]
  PROVE  WalkOk(r)' /\ (HoldsRows(r) => HoldsRows(r)')
<1>1. WalkOk(r) /\ plan' = plan /\ cart' = cart
  BY DEF IInv, Ok, request
<1>2. InCart(r)' = InCart(r) /\ InCart(r) \subseteq Variants
  BY <1>1 DEF InCart
<1>3. \A v \in Variants : Holds(r, v)' <=> Holds(r, v)
  BY RowsAreRows DEF Holds
<1>4. ASSUME NEW v \in Variants
      PROVE  Reached(r, v)' <=> Reached(r, v)
  <2>1. Earlier(r, v)' = Earlier(r, v) /\ Earlier(r, v) \subseteq Variants
    BY <1>1, <1>2 DEF Earlier
  <2> QED
    BY <2>1, <1>2, <1>3 DEF Reached
<1>5. HoldsRows(r) => HoldsRows(r)'
  BY <1>2, <1>3 DEF HoldsRows
<1>6. WalkOk(r)'
  BY <1>1, <1>4, RowsAreRows DEF WalkOk
<1> QED
  BY <1>5, <1>6

\* Steps of a request that change neither the books nor the requests.
QuietRequest(r) ==
  \/ Receive(r) \/ LockRow(r) \/ TakeStock(r) \/ RefuseStock(r)
  \/ ClaimCoupon(r) \/ RefuseCoupon(r) \/ UpsertCustomer(r) \/ InsertOrder(r) \/ Duplicate(r)
  \/ Replay(r) \/ ProviderAnswers(r) \/ Fail(r)

LEMMA QuietRequestKeeps ==
  ASSUME IInv, NEW r \in Requests, QuietRequest(r), Keeps(r), Ok(r)',
         owner' \in [Rows -> Txns \cup {Nobody}]
  PROVE  IInv'
<1>1. UNCHANGED <<ledger, request, target>>
  BY DEF QuietRequest, Receive, LockRow, TakeStock, RefuseStock, ClaimCoupon, RefuseCoupon,
         UpsertCustomer, InsertOrder, Duplicate, Replay, ProviderAnswers, Fail
<1>2. pc' \in [Txns -> {"new", "idle", "done"} \cup InTransaction \cup AfterCommit \cup Cancelling]
  BY DEF QuietRequest, Receive, LockRow, TakeStock, RefuseStock, ClaimCoupon, RefuseCoupon,
         UpsertCustomer, InsertOrder, Duplicate, Replay, ProviderAnswers, Fail,
         Goto, IInv, CheckoutTypeOK, InTransaction, AfterCommit
<1>3. answer' \in [Requests -> Answers]
  BY DEF QuietRequest, Receive, LockRow, TakeStock, RefuseStock, ClaimCoupon, RefuseCoupon,
         UpsertCustomer, InsertOrder, Duplicate, Replay, ProviderAnswers, Fail,
         Answer, Answers, IInv, CheckoutTypeOK
<1>4. CheckoutTypeOK'
  BY <1>1, <1>2, <1>3, QuietStep DEF CheckoutTypeOK, IInv, request
<1> QED
  BY <1>1, <1>4, QuietStep, RequestStep

LEMMA ReceiveKeeps ==
  ASSUME IInv, NEW r \in Requests, Receive(r)
  PROVE  IInv'
<1>1. /\ pc[r] = "new" /\ Goto(r, "variants") /\ owner' = owner
      /\ UNCHANGED <<ledger, request>> /\ CheckoutTypeOK /\ Ok(r) /\ r \in Txns
  BY DEF Receive, IInv, Txns
<1>2. Keeps(r) /\ owner' \in [Rows -> Txns \cup {Nobody}] /\ pc'[r] = "variants"
  BY <1>1, GotoFacts, UnchangedKeeps
<1>3. Placed' = Placed /\ InCart(r)' = InCart(r)
  BY <1>1, QuietStep
<1>4. WalkOk(r)'
  BY <1>1, <1>2, WalkStays DEF InTransaction
<1>5. Ok(r)'
  BY <1>1, <1>2, <1>3, <1>4 DEF Ok, InTransaction, AfterCommit, HasTaken, HasClaimed
<1> QED
  BY <1>2, <1>5, QuietRequestKeeps DEF QuietRequest

LEMMA LockRowKeeps ==
  ASSUME IInv, NEW r \in Requests, LockRow(r)
  PROVE  IInv'
<1>1. /\ pc[r] = "variants" /\ pc' = pc
      /\ UNCHANGED <<ledger, request>> /\ CheckoutTypeOK /\ Ok(r) /\ r \in Txns
  BY DEF LockRow, IInv, Txns
<1>2. PICK line \in Variants : NextVariant(r, line) /\ Acquire(r, NextRow(r, line))
  BY DEF LockRow
<1> DEFINE x == NextRow(r, line)
<1>3. /\ Reached(r, line) /\ plan[r].first \in {"variant", "product"}
      /\ x \in {VariantRow(line), ProductRow(ProductOf[line])} /\ x \in Rows
      /\ x = VariantRow(line) /\ plan[r].first = "product" => owner[ProductRow(ProductOf[line])] = r
      /\ x = ProductRow(ProductOf[line]) /\ plan[r].first = "variant" => owner[VariantRow(line)] = r
  BY <1>1, <1>2, CartFacts, PlansAssumption, RowFacts, RowsAreRows DEF NextVariant, NextRow, Reached, Holds
<1> HIDE DEF x
<1>4. /\ Keeps(r) /\ owner' \in [Rows -> Txns \cup {Nobody}]
      /\ owner'[x] = r
      /\ \A y \in Rows \ {x} : owner'[y] = owner[y]
      /\ \A y \in Rows : owner[y] = r => owner'[y] = r
  <2>1. Acquire(r, x)
    BY <1>2 DEF x
  <2> QED
    BY <2>1, <1>1, <1>3, AcquireKeeps
<1>5. Placed' = Placed /\ InCart(r)' = InCart(r) /\ InCart(r) \subseteq Variants /\ plan' = plan
  BY <1>1, QuietStep, CartFacts DEF request
<1>6. ASSUME NEW w \in Variants, Reached(r, w)
      PROVE  Reached(r, w)'
  <2>1. Earlier(r, w)' = Earlier(r, w) /\ Earlier(r, w) \subseteq Variants
    BY <1>5 DEF Earlier
  <2>2. \A u \in Variants : Holds(r, u) => Holds(r, u)'
    BY <1>4, RowsAreRows DEF Holds
  <2> QED
    BY <2>1, <2>2, <1>5, <1>6 DEF Reached
<1>7. ASSUME NEW w \in Variants, owner'[VariantRow(w)] = r
      PROVE  Reached(r, w)' /\ (plan'[r].first = "product" => owner'[ProductRow(ProductOf[w])] = r)
  <2>1. CASE owner[VariantRow(w)] = r
    <3>1. Reached(r, w) /\ (plan[r].first = "product" => owner[ProductRow(ProductOf[w])] = r)
      BY <2>1, <1>1 DEF Ok, WalkOk
    <3> QED
      BY <3>1, <1>4, <1>5, <1>6, RowsAreRows
  <2>2. CASE owner[VariantRow(w)] # r
    <3>1. w = line /\ x = VariantRow(line)
      BY <2>2, <1>3, <1>4, <1>7, RowFacts, RowsAreRows
    <3> QED
      BY <3>1, <1>3, <1>4, <1>5, <1>6, RowsAreRows
  <2> QED
    BY <2>1, <2>2
<1>8. ASSUME NEW p \in Products, owner'[ProductRow(p)] = r
      PROVE  \E w \in Variants :
               /\ ProductOf[w] = p /\ Reached(r, w)'
               /\ plan'[r].first = "variant" => owner'[VariantRow(w)] = r
  <2>1. CASE owner[ProductRow(p)] = r
    <3>1. PICK w \in Variants :
            /\ ProductOf[w] = p /\ Reached(r, w)
            /\ plan[r].first = "variant" => owner[VariantRow(w)] = r
      BY <2>1, <1>1 DEF Ok, WalkOk
    <3> QED
      BY <3>1, <1>4, <1>5, <1>6, RowsAreRows
  <2>2. CASE owner[ProductRow(p)] # r
    <3>1. ProductOf[line] = p /\ x = ProductRow(ProductOf[line])
      BY <2>2, <1>3, <1>4, <1>8, RowFacts, RowsAreRows
    <3> QED
      BY <3>1, <1>3, <1>4, <1>5, <1>6, RowsAreRows
  <2> QED
    BY <2>1, <2>2
<1>9. WalkOk(r)'
  <2>1. pc'[r] \in InTransaction
    BY <1>1 DEF InTransaction
  <2> QED
    BY <2>1, <1>7, <1>8 DEF WalkOk
<1>10. /\ owner'[CouponRow] # r
       /\ \A c \in Customers : owner'[CustomerRow(c)] # r
       /\ \A k \in Keys : owner'[KeyEntry(k)] # r
  <2>1. x # CouponRow /\ (\A c \in Customers : x # CustomerRow(c)) /\ \A k \in Keys : x # KeyEntry(k)
    BY <1>3, RowFacts, RowsAreRows
  <2> QED
    BY <2>1, <1>1, <1>4, RowsAreRows DEF Ok, HasClaimed
<1>11. Ok(r)'
  BY <1>1, <1>5, <1>9, <1>10 DEF Ok, InTransaction, AfterCommit, HasTaken, HasClaimed
<1> QED
  BY <1>4, <1>11, QuietRequestKeeps DEF QuietRequest

LEMMA TakeStockKeeps ==
  ASSUME IInv, NEW r \in Requests, TakeStock(r)
  PROVE  IInv'
<1>1. /\ pc[r] = "variants" /\ owner' = owner /\ HoldsRows(r) /\ CanTake(cart[r])
      /\ Goto(r, IF cart[r].coupon THEN "coupon" ELSE "customer")
      /\ UNCHANGED <<ledger, request>> /\ CheckoutTypeOK /\ Ok(r) /\ r \in Txns
  BY DEF TakeStock, IInv, Txns
<1>2. /\ Keeps(r) /\ owner' \in [Rows -> Txns \cup {Nobody}]
      /\ pc'[r] = IF cart[r].coupon THEN "coupon" ELSE "customer"
  BY <1>1, GotoFacts, UnchangedKeeps
<1>3. Placed' = Placed /\ InCart(r)' = InCart(r)
  BY <1>1, QuietStep
<1>4. WalkOk(r)' /\ HoldsRows(r)' /\ CanTake(cart[r])'
  <2>1. pc'[r] \in InTransaction
    BY <1>2 DEF InTransaction
  <2>2. CanTake(cart[r])'
    BY <1>1 DEF CanTake, OnSale, ledger, request
  <2> QED
    BY <1>1, <2>1, <2>2, WalkStays
<1>5. Ok(r)'
  <2>1. CASE cart[r].coupon
    BY <2>1, <1>1, <1>2, <1>3, <1>4 DEF Ok, InTransaction, AfterCommit, HasTaken, HasClaimed
  <2>2. CASE ~cart[r].coupon
    <3>1. ~cart'[r].coupon
      BY <2>2, <1>1 DEF request
    <3> QED
      BY <3>1, <2>2, <1>1, <1>2, <1>3, <1>4 DEF Ok, InTransaction, AfterCommit, HasTaken, HasClaimed
  <2> QED
    BY <2>1, <2>2
<1> QED
  BY <1>2, <1>5, QuietRequestKeeps DEF QuietRequest

LEMMA ClaimCouponKeeps ==
  ASSUME IInv, NEW r \in Requests, ClaimCoupon(r)
  PROVE  IInv'
<1>1. /\ pc[r] = "coupon" /\ CouponHolds(cart[r]) /\ Acquire(r, CouponRow)
      /\ Goto(r, "customer")
      /\ UNCHANGED <<ledger, request>> /\ CheckoutTypeOK /\ Ok(r) /\ r \in Txns
  BY DEF ClaimCoupon, LockCoupon, IInv, Txns
<1>2. /\ Keeps(r) /\ owner' \in [Rows -> Txns \cup {Nobody}] /\ pc'[r] = "customer"
      /\ owner'[CouponRow] = r
      /\ \A y \in Rows \ {CouponRow} : owner'[y] = owner[y]
  BY <1>1, GotoFacts, AcquireKeeps, RowsAreRows
<1>3. Placed' = Placed /\ InCart(r)' = InCart(r) /\ InCart(r) \subseteq Variants
  BY <1>1, QuietStep, CartFacts
<1>4. /\ \A v \in Variants : owner'[VariantRow(v)] = owner[VariantRow(v)]
      /\ \A p \in Products : owner'[ProductRow(p)] = owner[ProductRow(p)]
      /\ \A c \in Customers : owner'[CustomerRow(c)] = owner[CustomerRow(c)]
      /\ \A k \in Keys : owner'[KeyEntry(k)] = owner[KeyEntry(k)]
  BY <1>2, RowFacts, RowsAreRows
<1>5. WalkOk(r)' /\ HoldsRows(r)' /\ CanTake(cart[r])'
  <2>1. HoldsRows(r) /\ CanTake(cart[r]) /\ pc'[r] \in InTransaction
    BY <1>1, <1>2 DEF Ok, HasTaken, InTransaction
  <2>2. CanTake(cart[r])'
    BY <1>1, <2>1 DEF CanTake, OnSale, ledger, request
  <2> QED
    BY <1>1, <1>4, <2>1, <2>2, WalkStays
<1>6. CouponHolds(cart[r])'
  BY <1>1, <1>3 DEF CouponHolds, RedeemedBy, Redeemed, ledger, request
<1>7. Ok(r)'
  BY <1>1, <1>2, <1>3, <1>4, <1>5, <1>6 DEF Ok, InTransaction, AfterCommit, HasTaken, HasClaimed
<1> QED
  BY <1>2, <1>7, QuietRequestKeeps DEF QuietRequest

LEMMA UpsertCustomerKeeps ==
  ASSUME IInv, NEW r \in Requests, UpsertCustomer(r)
  PROVE  IInv'
<1>1. /\ pc[r] = "customer" /\ Acquire(r, CustomerRow(cart[r].who))
      /\ Goto(r, "insert")
      /\ UNCHANGED <<ledger, request>> /\ CheckoutTypeOK /\ Ok(r) /\ r \in Txns
      /\ cart[r].who \in Customers
  BY CartFacts DEF UpsertCustomer, IInv, Txns
<1> DEFINE x == CustomerRow(cart[r].who)
<1>2. /\ Keeps(r) /\ owner' \in [Rows -> Txns \cup {Nobody}] /\ pc'[r] = "insert"
      /\ \A y \in Rows \ {x} : owner'[y] = owner[y]
  BY <1>1, GotoFacts, AcquireKeeps, RowsAreRows
<1>3. Placed' = Placed /\ InCart(r)' = InCart(r) /\ InCart(r) \subseteq Variants
  BY <1>1, QuietStep, CartFacts
<1>4. /\ \A v \in Variants : owner'[VariantRow(v)] = owner[VariantRow(v)]
      /\ \A p \in Products : owner'[ProductRow(p)] = owner[ProductRow(p)]
      /\ owner'[CouponRow] = owner[CouponRow]
      /\ \A k \in Keys : owner'[KeyEntry(k)] = owner[KeyEntry(k)]
  BY <1>1, <1>2, RowFacts, RowsAreRows
<1>5. WalkOk(r)' /\ HoldsRows(r)' /\ CanTake(cart[r])'
  <2>1. HoldsRows(r) /\ CanTake(cart[r]) /\ pc'[r] \in InTransaction
    BY <1>1, <1>2 DEF Ok, HasTaken, InTransaction
  <2>2. CanTake(cart[r])'
    BY <1>1, <2>1 DEF CanTake, OnSale, ledger, request
  <2> QED
    BY <1>1, <1>4, <2>1, <2>2, WalkStays
<1>6. cart'[r].coupon => owner'[CouponRow] = r /\ CouponHolds(cart[r])'
  BY <1>1, <1>3, <1>4 DEF Ok, HasClaimed, CouponHolds, RedeemedBy, Redeemed, ledger, request
<1>7. Ok(r)'
  BY <1>1, <1>2, <1>3, <1>4, <1>5, <1>6 DEF Ok, InTransaction, AfterCommit, HasTaken, HasClaimed
<1> QED
  BY <1>2, <1>7, QuietRequestKeeps DEF QuietRequest

LEMMA InsertOrderKeeps ==
  ASSUME IInv, NEW r \in Requests, InsertOrder(r)
  PROVE  IInv'
<1>1. /\ pc[r] = "insert" /\ KeyIsNew(key[r]) /\ Acquire(r, KeyEntry(key[r]))
      /\ Goto(r, "commit")
      /\ UNCHANGED <<ledger, request>> /\ CheckoutTypeOK /\ Ok(r) /\ r \in Txns
      /\ key[r] \in Keys
  BY CartFacts DEF InsertOrder, IInv, Txns
<1> DEFINE x == KeyEntry(key[r])
<1>2. /\ Keeps(r) /\ owner' \in [Rows -> Txns \cup {Nobody}] /\ pc'[r] = "commit"
      /\ owner'[x] = r
      /\ \A y \in Rows \ {x} : owner'[y] = owner[y]
  BY <1>1, GotoFacts, AcquireKeeps, RowsAreRows
<1>3. Placed' = Placed /\ InCart(r)' = InCart(r) /\ InCart(r) \subseteq Variants
  BY <1>1, QuietStep, CartFacts
<1>4. /\ \A v \in Variants : owner'[VariantRow(v)] = owner[VariantRow(v)]
      /\ \A p \in Products : owner'[ProductRow(p)] = owner[ProductRow(p)]
      /\ owner'[CouponRow] = owner[CouponRow]
      /\ \A c \in Customers : owner'[CustomerRow(c)] = owner[CustomerRow(c)]
  BY <1>1, <1>2, RowFacts, RowsAreRows
<1>5. WalkOk(r)' /\ HoldsRows(r)' /\ CanTake(cart[r])'
  <2>1. HoldsRows(r) /\ CanTake(cart[r]) /\ pc'[r] \in InTransaction
    BY <1>1, <1>2 DEF Ok, HasTaken, InTransaction
  <2>2. CanTake(cart[r])'
    BY <1>1, <2>1 DEF CanTake, OnSale, ledger, request
  <2> QED
    BY <1>1, <1>4, <2>1, <2>2, WalkStays
<1>6. cart'[r].coupon => owner'[CouponRow] = r /\ CouponHolds(cart[r])'
  BY <1>1, <1>3, <1>4 DEF Ok, HasClaimed, CouponHolds, RedeemedBy, Redeemed, ledger, request
<1>7. key'[r] = key[r] /\ KeyIsNew(key[r])'
  BY <1>1, <1>3 DEF KeyIsNew, ledger, request
<1>8. Ok(r)'
  BY <1>1, <1>2, <1>3, <1>4, <1>5, <1>6, <1>7 DEF Ok, InTransaction, AfterCommit, HasTaken, HasClaimed
<1> QED
  BY <1>2, <1>8, QuietRequestKeeps DEF QuietRequest

\* A request that ends, or goes on to look up the original, without its commit.
LEMMA GivesUpKeeps ==
  ASSUME IInv, NEW r \in Requests,
         RefuseStock(r) \/ RefuseCoupon(r) \/ Duplicate(r) \/ Fail(r)
  PROVE  IInv'
<1>1. /\ Release(r) /\ CheckoutTypeOK /\ r \in Txns
      /\ Goto(r, "done") \/ Goto(r, "replay")
  BY DEF RefuseStock, RefuseCoupon, Duplicate, Fail, IInv, Txns
<1>2. pc'[r] \in {"done", "replay"} /\ \A u \in Txns \ {r} : pc'[u] = pc[u]
  BY <1>1, GotoFacts
<1>3. /\ Keeps(r) /\ owner' \in [Rows -> Txns \cup {Nobody}]
      /\ \A x \in Rows : owner'[x] # r
  BY <1>1, <1>2, ReleaseKeeps
<1>4. Ok(r)'
  BY <1>2, <1>3, ReleasedOk
<1> QED
  BY <1>3, <1>4, QuietRequestKeeps DEF QuietRequest

\* After the commit a request holds nothing.
LEMMA AfterCommitHoldsNothing ==
  ASSUME IInv, NEW r \in Requests, pc[r] \in AfterCommit
  PROVE  /\ \A v \in Variants : owner[VariantRow(v)] # r
         /\ \A p \in Products : owner[ProductRow(p)] # r
         /\ owner[CouponRow] # r
         /\ \A c \in Customers : owner[CustomerRow(c)] # r
         /\ \A k \in Keys : owner[KeyEntry(k)] # r
<1>1. Ok(r)
  BY DEF IInv
<1> QED
  BY <1>1 DEF Ok, WalkOk, InTransaction, AfterCommit, HasClaimed

LEMMA AnswersKeeps ==
  ASSUME IInv, NEW r \in Requests, Replay(r) \/ ProviderAnswers(r)
  PROVE  IInv'
<1>1. /\ owner' = owner /\ pc[r] \in AfterCommit
      /\ UNCHANGED <<ledger, request>> /\ CheckoutTypeOK /\ Ok(r) /\ r \in Txns
      /\ (Goto(r, "done") \/ (Goto(r, "attach") /\ pc[r] = "provider"))
  BY DEF Replay, ProviderAnswers, IInv, Txns, AfterCommit
<1>2. /\ pc'[r] \in {"done", "attach"} /\ \A u \in Txns \ {r} : pc'[u] = pc[u]
      /\ pc'[r] = "attach" => pc[r] = "provider"
  BY <1>1, GotoFacts
<1>3. Keeps(r) /\ owner' \in [Rows -> Txns \cup {Nobody}]
  BY <1>1, <1>2, UnchangedKeeps
<1>4. Placed' = Placed
  BY <1>1, QuietStep
<1>5. Ok(r)'
  BY <1>1, <1>2, <1>4, AfterCommitHoldsNothing, RowsAreRows
     DEF Ok, WalkOk, InTransaction, AfterCommit, HasTaken, HasClaimed
<1> QED
  BY <1>3, <1>5, QuietRequestKeeps DEF QuietRequest
\* The commit of a checkout is Place, and disturbs nobody.
LEMMA WriteStep ==
  ASSUME IInv, NEW r \in Requests, pc[r] = "commit", Write(r), UNCHANGED <<request, target>>
  PROVE  /\ Place(r, key[r], cart[r])
         /\ TypeOK'
         /\ r \in Placed'
         /\ \A u \in Requests \ {r} : Stable(u)
         /\ \A c \in Cancellers : StableCancel(c)
<1>1. /\ Ok(r) /\ CheckoutTypeOK /\ TypeOK
      /\ key[r] \in Keys /\ cart[r] \in Carts /\ cart[r].qty \in [Variants -> Nat]
      /\ cart[r].coupon \in BOOLEAN /\ InCart(r) \subseteq Variants
  BY CartFacts, CartsAssumption DEF IInv, CheckoutTypeOK
<1>2. /\ HoldsRows(r) /\ CanTake(cart[r])
      /\ cart[r].coupon => owner[CouponRow] = r /\ CouponHolds(cart[r])
      /\ owner[KeyEntry(key[r])] = r /\ KeyIsNew(key[r])
      /\ r \notin Placed
  BY <1>1 DEF Ok, HasTaken, HasClaimed, InTransaction
<1> DEFINE new == NewOrder(key[r], cart[r])
<1>3. /\ stock' = [v \in Variants |-> stock[v] - cart[r].qty[v]]
      /\ orders' = [orders EXCEPT ![r] = new]
      /\ timesUsed' = IF cart[r].coupon THEN timesUsed + 1 ELSE timesUsed
      /\ active' = active /\ published' = published /\ couponOn' = couponOn /\ base' = base
  BY DEF Write
<1>4. /\ new \in Order /\ new # NoOrder /\ new.status = "live"
      /\ new.key = key[r] /\ new.cart = cart[r]
  BY <1>1 DEF NewOrder, Order, NoOrder
<1> HIDE DEF new
<1>5. /\ orders'[r] = new
      /\ \A s \in Requests : s # r => orders'[s] = orders[s]
      /\ orders' \in [Requests -> Order \cup {NoOrder}]
  BY <1>1, <1>3, <1>4 DEF TypeOK
<1>6. orders[r] = NoOrder /\ Placed' = Placed \cup {r}
  BY <1>2, <1>4, <1>5 DEF Placed
<1>7. Place(r, key[r], cart[r])
  <2>1. CouponHolds(cart[r])
    BY <1>2 DEF CouponHolds
  <2> QED
    BY <2>1, <1>2, <1>3, <1>6 DEF Place, new
<1>8. stock' \in [Variants -> Nat]
  <2> SUFFICES ASSUME NEW v \in Variants
               PROVE  stock[v] - cart[r].qty[v] \in Nat
    BY <1>3
  <2>1. stock[v] \in Nat /\ cart[r].qty[v] \in Nat
    BY <1>1 DEF TypeOK
  <2>2. cart[r].qty[v] > 0 => stock[v] >= cart[r].qty[v]
    BY <1>2 DEF CanTake
  <2> QED
    BY ONLY <2>1, <2>2
<1>9. TypeOK'
  BY <1>1, <1>3, <1>5, <1>8 DEF TypeOK
<1>10. ASSUME NEW u \in Requests \ {r}
       PROVE  Stable(u)
  <2>1. /\ cart'[u] = cart[u] /\ key'[u] = key[u] /\ plan'[u] = plan[u]
        /\ u \in Placed' <=> u \in Placed
    BY <1>6 DEF request
  <2>2. \A v \in Variants : owner[VariantRow(v)] = u =>
          stock'[v] = stock[v] /\ (v \in active' <=> v \in active)
    <3> SUFFICES ASSUME NEW v \in Variants, owner[VariantRow(v)] = u
                 PROVE  stock'[v] = stock[v]
      BY <1>3
    <3>1. v \notin InCart(r)
      BY <1>2 DEF HoldsRows, Holds
    <3>2. cart[r].qty[v] = 0 /\ stock[v] \in Nat
      BY <3>1, <1>1 DEF InCart, TypeOK
    <3> QED
      BY <3>2, <1>3
  <2>3. ASSUME owner[CouponRow] = u
        PROVE  /\ couponOn' = couponOn /\ timesUsed' = timesUsed
               /\ \A c \in Customers : RedeemedBy(c)' = RedeemedBy(c)
    <3>1. ~cart[r].coupon
      BY <2>3, <1>2
    <3>2. Redeemed' = Redeemed
      BY <3>1, <1>4, <1>5, <1>6 DEF Redeemed, Placed
    <3>3. \A s \in Redeemed : s # r /\ s \in Requests
      BY <1>2 DEF Redeemed, Placed
    <3>4. \A c \in Customers : RedeemedBy(c)' = RedeemedBy(c)
      BY <3>2, <3>3, <1>5 DEF RedeemedBy
    <3> QED
      BY <3>1, <3>4, <1>3
  <2>4. \A k \in Keys : owner[KeyEntry(k)] = u => (KeyIsNew(k) => KeyIsNew(k)')
    BY <1>2, <1>4, <1>5, <1>6 DEF KeyIsNew, Placed
  <2> QED
    BY <2>1, <2>2, <2>3, <2>4, <1>3 DEF Stable
<1>11. ASSUME NEW c \in Cancellers
       PROVE  StableCancel(c)
  <2>1. CancelOk(c)
    BY DEF IInv
  <2>2. Live \subseteq Live'
    BY <1>2, <1>5, <1>6 DEF Live, Placed
  <2> QED
    BY <2>1, <2>2, <1>6 DEF StableCancel, CancelOk
<1> QED
  BY <1>6, <1>7, <1>9, <1>10, <1>11

LEMMA CommitKeeps ==
  ASSUME IInv, NEW r \in Requests, Commit(r) \/ CommitUnacknowledged(r)
  PROVE  IInv' /\ Place(r, key[r], cart[r])
<1>1. /\ pc[r] = "commit" /\ Write(r) /\ Release(r) /\ UNCHANGED <<request, target>>
      /\ Goto(r, "done") \/ Goto(r, "provider")
      /\ CheckoutTypeOK /\ r \in Txns
  BY DEF Commit, CommitUnacknowledged, IInv, Txns
<1>2. /\ Place(r, key[r], cart[r]) /\ TypeOK' /\ r \in Placed'
      /\ \A u \in Requests \ {r} : Stable(u)
      /\ \A c \in Cancellers : StableCancel(c)
  BY <1>1, WriteStep
<1>3. /\ pc'[r] \in {"done", "provider"} /\ \A u \in Txns \ {r} : pc'[u] = pc[u]
      /\ pc' \in [Txns -> {"new", "idle", "done"} \cup InTransaction \cup AfterCommit \cup Cancelling]
  BY <1>1 DEF Goto, CheckoutTypeOK, AfterCommit
<1>4. /\ Keeps(r) /\ owner' \in [Rows -> Txns \cup {Nobody}]
      /\ \A x \in Rows : owner'[x] # r
  BY <1>1, <1>3, ReleaseKeeps
<1>5. answer' \in [Requests -> Answers]
  BY <1>1 DEF Commit, CommitUnacknowledged, Answer, Answers, CheckoutTypeOK
<1>6. CheckoutTypeOK'
  BY <1>1, <1>2, <1>3, <1>4, <1>5 DEF CheckoutTypeOK, request
<1>7. Ok(r)'
  BY <1>2, <1>3, <1>4, ReleasedOk
<1> QED
  BY <1>2, <1>4, <1>6, <1>7, RequestStep

\* A change of an order that leaves its key, its cart and its being there alone.
LEMMA OrderEdited ==
  ASSUME IInv, NEW o \in Placed, NEW e,
         e \in Order, e.key = orders[o].key, e.cart = orders[o].cart,
         orders' = [orders EXCEPT ![o] = e]
  PROVE  /\ orders' \in [Requests -> Order \cup {NoOrder}]
         /\ Placed' = Placed
         /\ \A k \in Keys : KeyIsNew(k)' <=> KeyIsNew(k)
         /\ \A c \in Customers : RedeemedBy(c)' = RedeemedBy(c)
         /\ orders'[o] = e /\ \A r \in Requests : r # o => orders'[r] = orders[r]
<1>1. o \in Requests /\ orders \in [Requests -> Order \cup {NoOrder}]
  BY DEF IInv, CheckoutTypeOK, TypeOK, Placed
<1>2. e # NoOrder
  BY DEF Order, NoOrder
<1>3. /\ orders' \in [Requests -> Order \cup {NoOrder}]
      /\ orders'[o] = e /\ \A r \in Requests : r # o => orders'[r] = orders[r]
  BY <1>1
<1>4. Placed' = Placed /\ \A r \in Placed : orders'[r].key = orders[r].key /\ orders'[r].cart = orders[r].cart
  BY <1>1, <1>2, <1>3 DEF Placed
<1>5. Redeemed' = Redeemed /\ Redeemed \subseteq Placed
  BY <1>4 DEF Redeemed
<1>6. \A c \in Customers : RedeemedBy(c)' = RedeemedBy(c)
  BY <1>4, <1>5 DEF RedeemedBy
<1> QED
  BY <1>3, <1>4, <1>6 DEF KeyIsNew

LEMMA OrderShape ==
  ASSUME IInv, NEW o \in Placed
  PROVE  /\ orders[o] \in Order /\ o \in Requests
         /\ orders[o].cart \in Carts /\ orders[o].cart.qty \in [Variants -> Nat]
         /\ orders[o].cart.lines \in Seq(Variants)
         /\ \A v \in Variants : orders[o].cart.qty[v] > 0 <=>
              \E i \in DOMAIN orders[o].cart.lines : orders[o].cart.lines[i] = v
<1>1. orders[o] \in Order /\ o \in Requests
  BY DEF IInv, CheckoutTypeOK, TypeOK, Placed
<1>2. orders[o].cart \in Carts
  BY <1>1 DEF Order
<1> QED
  BY <1>1, <1>2, CartsAssumption

LEMMA AttachKeeps ==
  ASSUME IInv, NEW r \in Requests, AttachRazorpayOrderId(r)
  PROVE  IInv'
<1>1. /\ pc[r] = "attach" /\ Attach(r) /\ Goto(r, "done") /\ owner' = owner
      /\ UNCHANGED <<request, target>> /\ Answer(r, "201")
      /\ r \in Txns /\ CheckoutTypeOK /\ TypeOK /\ Ok(r)
  BY DEF AttachRazorpayOrderId, IInv, Txns, CheckoutTypeOK
<1>2. r \in Placed /\ orders[r] \in Order
  BY <1>1, OrderShape DEF Ok
<1> DEFINE e == [orders[r] EXCEPT !.attached = TRUE]
<1>3. /\ orders' = [orders EXCEPT ![r] = e]
      /\ e \in Order /\ e.key = orders[r].key /\ e.cart = orders[r].cart /\ e.status = orders[r].status
  BY <1>1, <1>2 DEF Attach, Order, TypeOK
<1> HIDE DEF e
<1>4. /\ orders' \in [Requests -> Order \cup {NoOrder}] /\ Placed' = Placed
      /\ \A k \in Keys : KeyIsNew(k)' <=> KeyIsNew(k)
      /\ \A c \in Customers : RedeemedBy(c)' = RedeemedBy(c)
      /\ orders'[r] = e /\ \A s \in Requests : s # r => orders'[s] = orders[s]
  BY <1>2, <1>3, OrderEdited
<1>5. UNCHANGED <<stock, active, published, couponOn, timesUsed, base>>
  BY <1>1 DEF Attach
<1>6. Live' = Live
  BY <1>3, <1>4 DEF Live, Placed
<1>7. \A u \in Requests : Stable(u)
  BY <1>1, <1>4, <1>5 DEF Stable, request
<1>8. \A c \in Cancellers : StableCancel(c)
  BY <1>1, <1>4, <1>6 DEF StableCancel, IInv, CancelOk
<1>9. /\ pc'[r] = "done" /\ \A u \in Txns \ {r} : pc'[u] = pc[u]
      /\ pc' \in [Txns -> {"new", "idle", "done"} \cup InTransaction \cup AfterCommit \cup Cancelling]
  BY <1>1 DEF Goto, CheckoutTypeOK
<1>10. Keeps(r) /\ owner' \in [Rows -> Txns \cup {Nobody}]
  BY <1>1, <1>9, UnchangedKeeps
<1>11. answer' \in [Requests -> Answers]
  BY <1>1 DEF Answer, Answers, CheckoutTypeOK
<1>12. CheckoutTypeOK'
  BY <1>1, <1>4, <1>5, <1>9, <1>10, <1>11 DEF CheckoutTypeOK, TypeOK, request
<1>13. Ok(r)'
  BY <1>1, <1>9, AfterCommitHoldsNothing, RowsAreRows
     DEF Ok, WalkOk, InTransaction, AfterCommit, HasTaken, HasClaimed
<1> QED
  BY <1>7, <1>8, <1>10, <1>12, <1>13, RequestStep
\* Cancellations.

\* Steps of a cancellation that change neither the books nor the requests.
LEMMA QuietCancelKeeps ==
  ASSUME IInv, NEW c \in Cancellers, Keeps(c), CancelOk(c)',
         UNCHANGED <<ledger, request, answer>>,
         \A d \in Cancellers \ {c} : target'[d] = target[d],
         target' \in [Cancellers -> Requests \cup {Nobody}],
         pc' \in [Txns -> {"new", "idle", "done"} \cup InTransaction \cup AfterCommit \cup Cancelling],
         owner' \in [Rows -> Txns \cup {Nobody}]
  PROVE  IInv'
<1>1. TypeOK' /\ \A u \in Requests : Stable(u)
  BY QuietStep
<1>2. \A d \in Cancellers \ {c} : StableCancel(d)
  BY QuietStep
<1>3. CheckoutTypeOK'
  BY <1>1 DEF IInv, CheckoutTypeOK, request
<1> QED
  BY <1>1, <1>2, <1>3, CancelStep

LEMMA BeginCancelKeeps ==
  ASSUME IInv, NEW c \in Cancellers, NEW r \in Requests, BeginCancel(c, r)
  PROVE  IInv'
<1>1. /\ r \in Placed /\ target' = [target EXCEPT ![c] = r] /\ Goto(c, "order") /\ owner' = owner
      /\ UNCHANGED <<ledger, request, answer>> /\ CheckoutTypeOK /\ c \in Txns
  BY DEF BeginCancel, IInv, Txns
<1>2. /\ pc'[c] = "order" /\ \A u \in Txns \ {c} : pc'[u] = pc[u]
      /\ pc' \in [Txns -> {"new", "idle", "done"} \cup InTransaction \cup AfterCommit \cup Cancelling]
  BY <1>1 DEF Goto, CheckoutTypeOK, Cancelling
<1>3. Keeps(c) /\ owner' \in [Rows -> Txns \cup {Nobody}]
  BY <1>1, <1>2, UnchangedKeeps
<1>4. /\ target'[c] = r /\ target' \in [Cancellers -> Requests \cup {Nobody}]
      /\ \A d \in Cancellers \ {c} : target'[d] = target[d]
  BY <1>1 DEF CheckoutTypeOK
<1>5. CancelOk(c)'
  BY <1>1, <1>2, <1>4, QuietStep DEF CancelOk, Cancelling
<1> QED
  BY <1>1, <1>2, <1>3, <1>4, <1>5, QuietCancelKeeps

LEMMA LockOrderKeeps ==
  ASSUME IInv, NEW c \in Cancellers, LockOrder(c)
  PROVE  IInv'
<1>1. /\ pc[c] = "order" /\ target[c] \in Live /\ Acquire(c, OrderRow(target[c])) /\ Goto(c, "restore")
      /\ UNCHANGED <<ledger, request, target, answer>> /\ CheckoutTypeOK /\ c \in Txns
  BY DEF LockOrder, StillLive, IInv, Txns
<1>2. /\ pc'[c] = "restore" /\ \A u \in Txns \ {c} : pc'[u] = pc[u]
      /\ pc' \in [Txns -> {"new", "idle", "done"} \cup InTransaction \cup AfterCommit \cup Cancelling]
  BY <1>1 DEF Goto, CheckoutTypeOK, Cancelling
<1>3. target[c] \in Requests /\ target[c] \in Placed
  BY <1>1 DEF Live, Placed
<1>4. /\ Keeps(c) /\ owner' \in [Rows -> Txns \cup {Nobody}]
      /\ owner'[OrderRow(target[c])] = c
  BY <1>1, <1>2, <1>3, AcquireKeeps, RowsAreRows
<1>5. CancelOk(c)'
  BY <1>1, <1>2, <1>3, <1>4, QuietStep DEF CancelOk, Cancelling
<1> QED
  BY <1>1, <1>2, <1>4, <1>5, QuietCancelKeeps DEF CheckoutTypeOK

LEMMA RestoreLineKeeps ==
  ASSUME IInv, NEW c \in Cancellers, RestoreLine(c)
  PROVE  IInv'
<1>1. /\ pc[c] = "restore" /\ pc' = pc
      /\ UNCHANGED <<ledger, request, target, answer>> /\ CheckoutTypeOK /\ c \in Txns /\ CancelOk(c)
  BY DEF RestoreLine, IInv, Txns
<1>2. PICK i \in DOMAIN LinesOf(c) : Acquire(c, VariantRow(LinesOf(c)[i]))
  BY DEF RestoreLine
<1>3. target[c] \in Placed /\ target[c] \in Requests /\ target[c] \in Live
  BY <1>1 DEF CancelOk, Placed, Cancelling
<1>4. LinesOf(c)[i] \in Variants
  BY <1>3, OrderShape DEF LinesOf
<1>5. /\ Keeps(c) /\ owner' \in [Rows -> Txns \cup {Nobody}]
      /\ owner'[VariantRow(LinesOf(c)[i])] = c
      /\ \A y \in Rows \ {VariantRow(LinesOf(c)[i])} : owner'[y] = owner[y]
  BY <1>1, <1>2, <1>4, AcquireKeeps, RowsAreRows
<1>6. owner'[OrderRow(target[c])] = c
  BY <1>1, <1>3, <1>4, <1>5, RowFacts, RowsAreRows DEF CancelOk
<1>7. CancelOk(c)'
  BY <1>1, <1>3, <1>6, QuietStep DEF CancelOk, Cancelling
<1> QED
  BY <1>1, <1>5, <1>7, QuietCancelKeeps DEF CheckoutTypeOK

\* A cancellation that ends, committed or not, holds nothing and is idle.
LEMMA ForgetFacts ==
  ASSUME CheckoutTypeOK, NEW c \in Cancellers, Forget(c)
  PROVE  /\ pc'[c] = "idle" /\ \A u \in Txns \ {c} : pc'[u] = pc[u]
         /\ pc' \in [Txns -> {"new", "idle", "done"} \cup InTransaction \cup AfterCommit \cup Cancelling]
         /\ target' \in [Cancellers -> Requests \cup {Nobody}]
         /\ \A d \in Cancellers \ {c} : target'[d] = target[d]
         /\ CancelOk(c)'
<1>1. c \in Txns
  BY DEF Txns
<1>2. pc'[c] = "idle" /\ \A u \in Txns \ {c} : pc'[u] = pc[u]
  BY <1>1 DEF Forget, CheckoutTypeOK
<1>3. pc' \in [Txns -> {"new", "idle", "done"} \cup InTransaction \cup AfterCommit \cup Cancelling]
  BY DEF Forget, CheckoutTypeOK
<1>4. /\ target' \in [Cancellers -> Requests \cup {Nobody}]
      /\ \A d \in Cancellers \ {c} : target'[d] = target[d]
  BY DEF Forget, CheckoutTypeOK
<1>5. CancelOk(c)'
  BY <1>2 DEF CancelOk, Cancelling
<1> QED
  BY <1>2, <1>3, <1>4, <1>5

LEMMA CancelGivesUpKeeps ==
  ASSUME IInv, NEW c \in Cancellers, Forget(c), Release(c) \/ owner' = owner,
         UNCHANGED <<ledger, request, answer>>
  PROVE  IInv'
<1>1. CheckoutTypeOK /\ c \in Txns
  BY DEF IInv, Txns
<1>2. Keeps(c) /\ owner' \in [Rows -> Txns \cup {Nobody}]
  BY <1>1, ForgetFacts, ReleaseKeeps, UnchangedKeeps
<1> QED
  BY <1>1, <1>2, ForgetFacts, QuietCancelKeeps

LEMMA CommitCancelKeeps ==
  ASSUME IInv, NEW c \in Cancellers, CommitCancel(c)
  PROVE  IInv' /\ Cancel(target[c])
<1> DEFINE o == target[c]
           e == [orders[o] EXCEPT !.status = "cancelled"]
<1>1. /\ pc[c] = "restore"
      /\ \A i \in DOMAIN orders[o].cart.lines : owner[VariantRow(orders[o].cart.lines[i])] = c
      /\ stock' = [v \in Variants |-> stock[v] + orders[o].cart.qty[v]]
      /\ Release(c) /\ Forget(c)
      /\ UNCHANGED <<active, published, couponOn, timesUsed, base, request, answer>>
      /\ CheckoutTypeOK /\ TypeOK /\ c \in Txns
  BY DEF CommitCancel, LinesOf, IInv, Txns, CheckoutTypeOK
<1>2. /\ o \in Live /\ o \in Placed /\ owner[OrderRow(o)] = c
  BY <1>1 DEF IInv, CancelOk, Cancelling
<1>3. /\ orders[o] \in Order /\ orders[o].cart.qty \in [Variants -> Nat] /\ o \in Requests
      /\ orders[o].cart.lines \in Seq(Variants)
      /\ \A v \in Variants : orders[o].cart.qty[v] > 0 <=>
           \E i \in DOMAIN orders[o].cart.lines : orders[o].cart.lines[i] = v
  BY <1>2, OrderShape
<1>4. /\ orders' = [orders EXCEPT ![o] = e]
      /\ e \in Order /\ e.key = orders[o].key /\ e.cart = orders[o].cart
  BY <1>1, <1>3 DEF CommitCancel, Order
<1>5. Cancel(o)
  BY <1>1, <1>2 DEF Cancel, CommitCancel
<1> HIDE DEF e, o
<1>6. /\ orders' \in [Requests -> Order \cup {NoOrder}] /\ Placed' = Placed
      /\ \A k \in Keys : KeyIsNew(k)' <=> KeyIsNew(k)
      /\ \A d \in Customers : RedeemedBy(d)' = RedeemedBy(d)
      /\ orders'[o] = e /\ \A s \in Requests : s # o => orders'[s] = orders[s]
  BY <1>2, <1>4, OrderEdited
<1>7. stock' \in [Variants -> Nat]
  BY <1>1, <1>3 DEF TypeOK
<1>8. ASSUME NEW u \in Requests
      PROVE  Stable(u)
  <2>1. \A v \in Variants : owner[VariantRow(v)] = u => stock'[v] = stock[v]
    <3> SUFFICES ASSUME NEW v \in Variants, owner[VariantRow(v)] = u
                 PROVE  stock'[v] = stock[v]
      OBVIOUS
    <3>1. u # c
      BY DistinctAssumption
    <3>2. ~ (orders[o].cart.qty[v] > 0)
      BY <3>1, <1>1, <1>3
    <3>3. orders[o].cart.qty[v] = 0 /\ stock[v] \in Nat
      BY <3>2, <1>1, <1>3 DEF TypeOK
    <3> QED
      BY <3>3, <1>1
  <2> QED
    BY <2>1, <1>1, <1>6 DEF Stable, request
<1>9. ASSUME NEW d \in Cancellers \ {c}
      PROVE  StableCancel(d)
  <2>1. CancelOk(d) /\ target'[d] = target[d]
    BY <1>1, ForgetFacts DEF IInv
  <2>2. pc[d] = "restore" => target[d] # o /\ target[d] \in Live
    BY <2>1, <1>2 DEF CancelOk
  <2>3. pc[d] = "restore" => target[d] \in Live'
    BY <2>2, <1>6 DEF Live, Placed
  <2> QED
    BY <2>1, <2>3, <1>6 DEF StableCancel, CancelOk
<1>10. Keeps(c) /\ owner' \in [Rows -> Txns \cup {Nobody}]
  BY <1>1, ForgetFacts, ReleaseKeeps
<1>11. CheckoutTypeOK'
  BY <1>1, <1>6, <1>7, <1>10, ForgetFacts DEF CheckoutTypeOK, TypeOK, request
<1>12. IInv'
  BY <1>1, <1>8, <1>9, <1>10, <1>11, ForgetFacts, CancelStep
<1> QED
  BY <1>5, <1>12 DEF o
\* InnoDB rolls a transaction back, be it a checkout or a cancellation.
LEMMA VictimKeeps ==
  ASSUME IInv, NEW t \in Txns, Victim(t)
  PROVE  IInv' /\ UNCHANGED ledger
<1>1. /\ Release(t) /\ UNCHANGED <<ledger, request>> /\ CheckoutTypeOK
      /\ \/ t \in Requests /\ Goto(t, "done") /\ Answer(t, "500") /\ UNCHANGED target
         \/ t \in Cancellers /\ Forget(t) /\ UNCHANGED answer
  BY DEF Victim, IInv
<1>2. CASE t \in Requests /\ Goto(t, "done") /\ Answer(t, "500") /\ UNCHANGED target
  <2>1. /\ pc'[t] = "done" /\ \A u \in Txns \ {t} : pc'[u] = pc[u]
        /\ pc' \in [Txns -> {"new", "idle", "done"} \cup InTransaction \cup AfterCommit \cup Cancelling]
        /\ answer' \in [Requests -> Answers]
    BY <1>1, <1>2 DEF Goto, Answer, Answers, CheckoutTypeOK
  <2>2. /\ Keeps(t) /\ owner' \in [Rows -> Txns \cup {Nobody}]
        /\ \A x \in Rows : owner'[x] # t
    BY <1>1, <2>1, ReleaseKeeps
  <2>3. Ok(t)'
    BY <1>2, <2>1, <2>2, ReleasedOk
  <2>4. CheckoutTypeOK'
    BY <1>1, <1>2, <2>1, <2>2, QuietStep DEF CheckoutTypeOK, request
  <2>5. /\ \A u \in Requests \ {t} : Stable(u)
        /\ \A c \in Cancellers : StableCancel(c)
    BY <1>1, <1>2, QuietStep
  <2> QED
    BY <1>1, <1>2, <2>2, <2>3, <2>4, <2>5, RequestStep
<1>3. CASE t \in Cancellers /\ Forget(t) /\ UNCHANGED answer
  BY <1>1, <1>3, CancelGivesUpKeeps
<1> QED
  BY <1>1, <1>2, <1>3

\* The admin console's writers find the row they change free.
LEMMA AdminStep ==
  ASSUME IInv, UNCHANGED <<pc, request, target, owner, answer, orders>>, TypeOK',
         \A u \in Requests : Stable(u)
  PROVE  IInv'
<1>1. Keeps(Nobody)
  BY DEF Keeps
<1>2. CheckoutTypeOK'
  BY DEF IInv, CheckoutTypeOK, request
<1>3. \A c \in Cancellers : StableCancel(c)
  BY DEF StableCancel, IInv, CancelOk, Placed, Live
<1>4. \A r \in Requests : Ok(r)'
  BY <1>1, OthersOk, NobodyAssumption
<1>5. \A c \in Cancellers : CancelOk(c)'
  BY <1>1, <1>3, OthersCancelOk, NobodyAssumption
<1> QED
  BY <1>2, <1>4, <1>5 DEF IInv

LEMMA SetStockKeeps ==
  ASSUME IInv, NEW v \in Variants, NEW n \in 0 .. MaxStock, SetVariantStock(v, n)
  PROVE  IInv'
<1>1. /\ owner[VariantRow(v)] = Nobody /\ TypeOK /\ n \in Nat
      /\ stock' = [stock EXCEPT ![v] = n] /\ base' = [base EXCEPT ![v] = @ + n - stock[v]]
      /\ UNCHANGED <<active, published, orders, couponOn, timesUsed, pc, request, target, owner, answer>>
  BY LimitsAssumption DEF SetVariantStock, Free, SetStock, IInv, CheckoutTypeOK
<1>2. TypeOK'
  BY <1>1 DEF TypeOK
<1>3. \A u \in Requests : Stable(u)
  BY <1>1, NobodyAssumption DEF Stable, request, Placed, RedeemedBy, Redeemed, KeyIsNew, TypeOK
<1> QED
  BY <1>1, <1>2, <1>3, AdminStep

LEMMA SetActiveKeeps ==
  ASSUME IInv, NEW v \in Variants, SetVariantActive(v)
  PROVE  IInv'
<1>1. /\ owner[VariantRow(v)] = Nobody /\ TypeOK
      /\ active' = IF v \in active THEN active \ {v} ELSE active \cup {v}
      /\ UNCHANGED <<stock, published, orders, couponOn, timesUsed, base, pc, request, target, owner, answer>>
  BY DEF SetVariantActive, Free, SetActive, IInv, CheckoutTypeOK
<1>2. TypeOK'
  BY <1>1 DEF TypeOK
<1>3. \A w \in Variants : w # v => (w \in active' <=> w \in active)
  BY <1>1
<1>4. \A u \in Requests : Stable(u)
  BY <1>1, <1>3, NobodyAssumption DEF Stable, request, Placed, RedeemedBy, Redeemed, KeyIsNew
<1> QED
  BY <1>1, <1>2, <1>4, AdminStep

LEMMA SetPublishedKeeps ==
  ASSUME IInv, NEW p \in Products, SetProductActive(p)
  PROVE  IInv'
<1>1. /\ owner[ProductRow(p)] = Nobody /\ TypeOK
      /\ published' = IF p \in published THEN published \ {p} ELSE published \cup {p}
      /\ UNCHANGED <<stock, active, orders, couponOn, timesUsed, base, pc, request, target, owner, answer>>
  BY DEF SetProductActive, Free, SetPublished, IInv, CheckoutTypeOK
<1>2. TypeOK'
  BY <1>1 DEF TypeOK
<1>3. \A q \in Products : q # p => (q \in published' <=> q \in published)
  BY <1>1
<1>4. \A u \in Requests : Stable(u)
  BY <1>1, <1>3, NobodyAssumption DEF Stable, request, Placed, RedeemedBy, Redeemed, KeyIsNew
<1> QED
  BY <1>1, <1>2, <1>4, AdminStep

LEMMA SetCouponKeeps ==
  ASSUME IInv, SetCouponActive
  PROVE  IInv'
<1>1. /\ owner[CouponRow] = Nobody /\ TypeOK /\ couponOn' = ~couponOn
      /\ UNCHANGED <<stock, active, published, orders, timesUsed, base, pc, request, target, owner, answer>>
  BY DEF SetCouponActive, Free, SetCoupon, IInv, CheckoutTypeOK
<1>2. TypeOK'
  BY <1>1 DEF TypeOK
<1>3. \A u \in Requests : Stable(u)
  BY <1>1, NobodyAssumption DEF Stable, request, Placed, RedeemedBy, Redeemed, KeyIsNew
<1> QED
  BY <1>1, <1>2, <1>3, AdminStep

LEMMA InitOk == CheckoutInit => IInv
<1> SUFFICES ASSUME CheckoutInit
             PROVE  IInv
  OBVIOUS
<1>1. CheckoutTypeOK
  BY InitStockAssumption, TrafficAssumption DEF CheckoutInit, CheckoutTypeOK, Init, TypeOK, Answers, Txns
<1>2. \A x \in Rows : owner[x] = Nobody
  BY DEF CheckoutInit
<1>3. ASSUME NEW r \in Requests
      PROVE  Ok(r)
  <2>1. pc[r] = "new" /\ r \notin Placed /\ r # Nobody
    BY NobodyAssumption DEF CheckoutInit, Init, Placed, Txns
  <2> QED
    BY <2>1, <1>2, RowsAreRows DEF Ok, WalkOk, InTransaction, HasTaken, HasClaimed
<1>4. ASSUME NEW c \in Cancellers
      PROVE  CancelOk(c)
  <2>1. pc[c] = "idle"
    BY DistinctAssumption DEF CheckoutInit, Txns
  <2> QED
    BY <2>1 DEF CancelOk, Cancelling
<1> QED
  BY <1>1, <1>3, <1>4 DEF IInv

LEMMA Stutter ==
  ASSUME IInv, UNCHANGED allVars
  PROVE  IInv'
<1>1. UNCHANGED <<pc, request, target, owner, answer, orders, ledger>>
  BY DEF allVars, ledger
<1>2. TypeOK' /\ \A u \in Requests : Stable(u)
  BY <1>1, QuietStep
<1> QED
  BY <1>1, <1>2, AdminStep

\* Every step keeps the invariant, and is a step of the ledger or none.
LEMMA StepOk ==
  ASSUME IInv, [CheckoutNext]_allVars
  PROVE  IInv' /\ [Next]_vars
<1> USE DEF ledger, vars
<1>1. ASSUME NEW r \in Requests, QuietRequest(r)
      PROVE  IInv' /\ UNCHANGED ledger
  <2>1. UNCHANGED ledger
    BY <1>1 DEF QuietRequest, Receive, LockRow, TakeStock, RefuseStock, ClaimCoupon, RefuseCoupon,
           UpsertCustomer, InsertOrder, Duplicate, Replay, ProviderAnswers, Fail
  <2> QED
    BY <1>1, <2>1, ReceiveKeeps, LockRowKeeps, TakeStockKeeps, ClaimCouponKeeps, UpsertCustomerKeeps,
       InsertOrderKeeps, GivesUpKeeps, AnswersKeeps DEF QuietRequest
<1>2. ASSUME NEW r \in Requests, Commit(r) \/ CommitUnacknowledged(r)
      PROVE  IInv' /\ Next
  <2>1. key[r] \in Keys /\ cart[r] \in Carts
    BY CartFacts DEF IInv
  <2> QED
    BY <1>2, <2>1, CommitKeeps DEF Next
<1>3. ASSUME NEW r \in Requests, AttachRazorpayOrderId(r)
      PROVE  IInv' /\ Next
  BY <1>3, AttachKeeps DEF AttachRazorpayOrderId, Next
<1>4. ASSUME NEW c \in Cancellers, NEW r \in Requests, BeginCancel(c, r)
      PROVE  IInv' /\ UNCHANGED ledger
  BY <1>4, BeginCancelKeeps DEF BeginCancel
<1>5. ASSUME NEW c \in Cancellers, LockOrder(c) \/ RestoreLine(c)
      PROVE  IInv' /\ UNCHANGED ledger
  BY <1>5, LockOrderKeeps, RestoreLineKeeps DEF LockOrder, RestoreLine
<1>6. ASSUME NEW c \in Cancellers, NothingToCancel(c) \/ FailCancel(c)
      PROVE  IInv' /\ UNCHANGED ledger
  BY <1>6, CancelGivesUpKeeps DEF NothingToCancel, FailCancel
<1>7. ASSUME NEW c \in Cancellers, CommitCancel(c)
      PROVE  IInv' /\ Next
  <2>1. target[c] \in Requests
    BY <1>7, CommitCancelKeeps DEF Cancel, Live, Placed
  <2> QED
    BY <1>7, <2>1, CommitCancelKeeps DEF Next
<1>8. ASSUME NEW t \in Txns, Victim(t)
      PROVE  IInv' /\ UNCHANGED ledger
  BY <1>8, VictimKeeps
<1>9. ASSUME NEW v \in Variants, NEW n \in 0 .. MaxStock, SetVariantStock(v, n)
      PROVE  IInv' /\ Next
  BY <1>9, SetStockKeeps DEF SetVariantStock, Next
<1>10. ASSUME NEW v \in Variants, SetVariantActive(v)
       PROVE  IInv' /\ Next
  BY <1>10, SetActiveKeeps DEF SetVariantActive, Next
<1>11. ASSUME SetCouponActive
       PROVE  IInv' /\ Next
  BY <1>11, SetCouponKeeps DEF SetCouponActive, Next
<1>15. ASSUME NEW p \in Products, SetProductActive(p)
       PROVE  IInv' /\ Next
  BY <1>15, SetPublishedKeeps DEF SetProductActive, Next
<1>12. ASSUME UNCHANGED allVars
       PROVE  IInv' /\ UNCHANGED ledger
  BY <1>12, Stutter DEF allVars
<1> HIDE DEF vars, ledger
<1>13. UNCHANGED ledger => UNCHANGED vars
  BY DEF vars, ledger
<1>14. CASE CheckoutNext
  BY <1>14, <1>1, <1>2, <1>3, <1>4, <1>5, <1>6, <1>7, <1>8, <1>9, <1>10, <1>11, <1>13, <1>15
     DEF CheckoutNext, Advance, AdvanceCancel, QuietRequest
<1> QED
  BY <1>12, <1>13, <1>14

LEMMA Invariant == CheckoutSpec => []IInv
<1>1. CheckoutInit => IInv
  BY InitOk
<1>2. IInv /\ [CheckoutNext]_allVars => IInv'
  BY StepOk
<1> QED
  BY <1>1, <1>2, PTL DEF CheckoutSpec

\* Every variable keeps its type; no stock figure is ever negative, so nothing is
\* oversold, whatever the interleaving, the failures and the deadlocks.
THEOREM TypeCorrect == CheckoutSpec => []CheckoutTypeOK
<1>1. IInv => CheckoutTypeOK
  BY DEF IInv
<1> QED
  BY <1>1, Invariant, PTL

\* The statements, the locks and the failures of createOrder and the cancellations
\* implement the atomic ledger.
THEOREM Serialisable == CheckoutSpec => ImplementsLedger
<1>1. CheckoutInit => Init
  BY DEF CheckoutInit
<1>2. IInv /\ [CheckoutNext]_allVars => [Next]_vars
  BY StepOk
<1> QED
  BY <1>1, <1>2, Invariant, PTL DEF CheckoutSpec, ImplementsLedger, Spec
\* The ledger by itself keeps its promises, and so, by Serialisable, does the code.
LedgerInv == TypeOK /\ OneOrderPerKey /\ CouponWithinLimits

LEMMA PlaceKeepsLedger ==
  ASSUME LedgerInv, NEW r \in Requests, NEW k \in Keys, NEW c \in Carts, Place(r, k, c)
  PROVE  LedgerInv'
<1> DEFINE new == NewOrder(k, c)
<1>1. /\ orders[r] = NoOrder /\ KeyIsNew(k) /\ CanTake(c) /\ CouponHolds(c)
      /\ stock' = [v \in Variants |-> stock[v] - c.qty[v]]
      /\ orders' = [orders EXCEPT ![r] = new]
      /\ timesUsed' = IF c.coupon THEN timesUsed + 1 ELSE timesUsed
      /\ UNCHANGED <<active, published, couponOn, base>> /\ TypeOK
  BY DEF Place, LedgerInv
<1>2. /\ c.who \in Customers /\ c.coupon \in BOOLEAN /\ c.qty \in [Variants -> Nat]
  BY CartsAssumption
<1>3. new \in Order /\ new # NoOrder /\ new.key = k /\ new.cart = c
  BY DEF NewOrder, Order, NoOrder
<1> HIDE DEF new
<1>4. /\ orders'[r] = new /\ \A s \in Requests : s # r => orders'[s] = orders[s]
      /\ orders' \in [Requests -> Order \cup {NoOrder}]
  BY <1>1, <1>3 DEF TypeOK
<1>5. Placed' = Placed \cup {r} /\ r \notin Placed
  BY <1>1, <1>3, <1>4 DEF Placed
<1>6. TypeOK'
  <2>1. ASSUME NEW v \in Variants
        PROVE  stock[v] - c.qty[v] \in Nat
    <3>1. stock[v] \in Nat /\ c.qty[v] \in Nat /\ (c.qty[v] > 0 => stock[v] >= c.qty[v])
      BY <1>1, <1>2 DEF TypeOK, CanTake
    <3> QED
      BY ONLY <3>1
  <2>2. stock' \in [Variants -> Nat] /\ timesUsed' \in Nat
    BY <1>1, <2>1 DEF TypeOK
  <2> QED
    BY <1>1, <1>4, <2>2 DEF TypeOK
<1>7. OneOrderPerKey'
  <2>1. \A s \in Placed : orders'[s] = orders[s] /\ orders'[s].key # k
    BY <1>1, <1>4, <1>5 DEF KeyIsNew, Placed
  <2>2. \A s, t \in Placed : orders[s].key = orders[t].key => s = t
    BY DEF LedgerInv, OneOrderPerKey
  <2> QED
    BY <2>1, <2>2, <1>3, <1>4, <1>5 DEF OneOrderPerKey
<1>8. \A s \in Placed : s \in Requests /\ s # r /\ orders'[s] = orders[s]
  BY <1>4, <1>5 DEF Placed
<1>9. Redeemed' = IF c.coupon THEN Redeemed \cup {r} ELSE Redeemed
  BY <1>2, <1>3, <1>4, <1>5, <1>8 DEF Redeemed
<1>10. \A d \in Customers :
         RedeemedBy(d)' = IF c.coupon /\ d = c.who THEN RedeemedBy(d) \cup {r} ELSE RedeemedBy(d)
  BY <1>3, <1>4, <1>8, <1>9 DEF RedeemedBy, Redeemed
<1>11. /\ IsFiniteSet(Redeemed) /\ r \notin Redeemed
       /\ \A d \in Customers : IsFiniteSet(RedeemedBy(d)) /\ r \notin RedeemedBy(d)
  <2>1. Redeemed \in SUBSET Requests /\ \A d \in Customers : RedeemedBy(d) \in SUBSET Requests
    BY DEF Redeemed, RedeemedBy, Placed
  <2> QED
    BY <2>1, <1>5, RequestsAssumption, FS_Subset DEF Redeemed, RedeemedBy
<1>12. /\ timesUsed = Cardinality(Redeemed) /\ timesUsed <= GlobalLimit
       /\ \A d \in Customers : Cardinality(RedeemedBy(d)) <= PerCustomer
  BY DEF LedgerInv, CouponWithinLimits
<1>13. c.coupon => timesUsed < GlobalLimit /\ Cardinality(RedeemedBy(c.who)) < PerCustomer
  BY <1>1 DEF CouponHolds
<1>14. timesUsed' = Cardinality(Redeemed') /\ timesUsed' <= GlobalLimit
  <2>1. Cardinality(Redeemed \cup {r}) = Cardinality(Redeemed) + 1
    BY <1>11, FS_AddElement
  <2>2. timesUsed \in Nat /\ GlobalLimit \in Nat
    BY <1>1, LimitsAssumption DEF TypeOK
  <2> QED
    BY <2>1, <2>2, <1>1, <1>2, <1>9, <1>12, <1>13
<1>15. ASSUME NEW d \in Customers
       PROVE  Cardinality(RedeemedBy(d)') <= PerCustomer
  <2>1. Cardinality(RedeemedBy(d) \cup {r}) = Cardinality(RedeemedBy(d)) + 1
    BY <1>11, FS_AddElement
  <2>2. Cardinality(RedeemedBy(d)) \in Nat /\ PerCustomer \in Nat
    BY <1>11, FS_CardinalityType, LimitsAssumption
  <2>3. CASE c.coupon /\ d = c.who
    <3>1. RedeemedBy(d)' = RedeemedBy(d) \cup {r} /\ Cardinality(RedeemedBy(d)) < PerCustomer
      BY <2>3, <1>10, <1>13
    <3> QED
      BY <3>1, <2>1, <2>2
  <2>4. CASE ~(c.coupon /\ d = c.who)
    BY <2>4, <1>10, <1>12
  <2> QED
    BY <2>3, <2>4
<1> QED
  BY <1>6, <1>7, <1>14, <1>15 DEF LedgerInv, CouponWithinLimits

\* Cancelling an order or attaching its payment order leaves key and cart alone.
LEMMA EditKeepsLedger ==
  ASSUME LedgerInv, NEW r \in Requests, Cancel(r) \/ Attach(r)
  PROVE  LedgerInv'
<1>1. r \in Placed /\ orders[r] \in Order /\ TypeOK /\ orders[r].cart \in Carts
  BY DEF Cancel, Attach, Live, LedgerInv, TypeOK, Placed, Order
<1>2. PICK e : /\ orders' = [orders EXCEPT ![r] = e] /\ e \in Order
               /\ e.key = orders[r].key /\ e.cart = orders[r].cart
  <2>1. CASE Cancel(r)
    <3> DEFINE e == [orders[r] EXCEPT !.status = "cancelled"]
    <3>1. /\ orders' = [orders EXCEPT ![r] = e] /\ e \in Order
          /\ e.key = orders[r].key /\ e.cart = orders[r].cart
      BY <2>1, <1>1 DEF Cancel, Order
    <3> QED
      BY <3>1
  <2>2. CASE Attach(r)
    <3> DEFINE e == [orders[r] EXCEPT !.attached = TRUE]
    <3>1. /\ orders' = [orders EXCEPT ![r] = e] /\ e \in Order
          /\ e.key = orders[r].key /\ e.cart = orders[r].cart
      BY <2>2, <1>1 DEF Attach, Order
    <3> QED
      BY <3>1
  <2> QED
    BY <2>1, <2>2
<1>3. e # NoOrder
  BY <1>2 DEF Order, NoOrder
<1>4. /\ orders'[r] = e /\ \A s \in Requests : s # r => orders'[s] = orders[s]
      /\ orders' \in [Requests -> Order \cup {NoOrder}]
  BY <1>1, <1>2 DEF TypeOK
<1>5. Placed' = Placed /\ \A s \in Placed : orders'[s].key = orders[s].key /\ orders'[s].cart = orders[s].cart
  BY <1>1, <1>2, <1>3, <1>4 DEF Placed
<1>6. Redeemed' = Redeemed
  BY <1>5 DEF Redeemed
<1>7. \A d \in Customers : RedeemedBy(d)' = RedeemedBy(d)
  BY <1>5, <1>6 DEF RedeemedBy, Redeemed
<1>8. UNCHANGED <<active, published, couponOn, timesUsed, base>>
  BY DEF Cancel, Attach
<1>9. stock' \in [Variants -> Nat]
  <2>1. CASE Attach(r)
    BY <2>1 DEF Attach, TypeOK, LedgerInv
  <2>2. CASE Cancel(r)
    <3>1. stock' = [v \in Variants |-> stock[v] + orders[r].cart.qty[v]] /\ stock \in [Variants -> Nat]
      BY <2>2, <1>1 DEF Cancel, TypeOK
    <3>2. orders[r].cart.qty \in [Variants -> Nat]
      BY <1>1, CartsAssumption DEF Order
    <3> QED
      BY <3>1, <3>2
  <2> QED
    BY <2>1, <2>2
<1>10. TypeOK'
  BY <1>1, <1>4, <1>8, <1>9 DEF TypeOK
<1>11. OneOrderPerKey' /\ CouponWithinLimits'
  BY <1>5, <1>6, <1>7, <1>8 DEF LedgerInv, OneOrderPerKey, CouponWithinLimits
<1> QED
  BY <1>10, <1>11 DEF LedgerInv

LEMMA LedgerInvariant == Spec => []LedgerInv
<1>1. Init => LedgerInv
  <2> SUFFICES ASSUME Init
               PROVE  LedgerInv
    OBVIOUS
  <2>1. Placed = {} /\ Redeemed = {} /\ \A d \in Customers : RedeemedBy(d) = {}
    BY DEF Init, Placed, Redeemed, RedeemedBy
  <2>2. TypeOK
    BY InitStockAssumption DEF Init, TypeOK
  <2>3. Cardinality({}) = 0
    BY FS_EmptySet
  <2> QED
    BY <2>1, <2>2, <2>3, LimitsAssumption DEF LedgerInv, OneOrderPerKey, CouponWithinLimits, Init
<1>2. LedgerInv /\ [Next]_vars => LedgerInv'
  <2> SUFFICES ASSUME LedgerInv, [Next]_vars
               PROVE  LedgerInv'
    OBVIOUS
  <2>1. ASSUME UNCHANGED <<orders, timesUsed>>, TypeOK'
        PROVE  LedgerInv'
    BY <2>1 DEF LedgerInv, OneOrderPerKey, CouponWithinLimits, Placed, Redeemed, RedeemedBy
  <2>2. ASSUME NEW v \in Variants, NEW n \in 0 .. MaxStock, SetStock(v, n)
        PROVE  LedgerInv'
    <3>1. n \in Nat
      BY LimitsAssumption
    <3>2. TypeOK'
      BY <2>2, <3>1 DEF SetStock, LedgerInv, TypeOK
    <3> QED
      BY <2>1, <2>2, <3>2 DEF SetStock
  <2>3. ASSUME NEW v \in Variants, SetActive(v)
        PROVE  LedgerInv'
    BY <2>1, <2>3 DEF SetActive, LedgerInv, TypeOK
  <2>6. ASSUME NEW p \in Products, SetPublished(p)
        PROVE  LedgerInv'
    BY <2>1, <2>6 DEF SetPublished, LedgerInv, TypeOK
  <2>4. ASSUME SetCoupon
        PROVE  LedgerInv'
    BY <2>1, <2>4 DEF SetCoupon, LedgerInv, TypeOK
  <2>5. ASSUME UNCHANGED vars
        PROVE  LedgerInv'
    BY <2>1, <2>5 DEF vars, LedgerInv, TypeOK
  <2> QED
    BY <2>2, <2>3, <2>4, <2>5, <2>6, PlaceKeepsLedger, EditKeepsLedger DEF Next
<1> QED
  BY <1>1, <1>2, PTL DEF Spec

\* An idempotency key stands for at most one order, however many requests carry it
\* and however they interleave and fail.
THEOREM KeysAreUnique == CheckoutSpec => []OneOrderPerKey
<1>1. LedgerInv => OneOrderPerKey
  BY DEF LedgerInv
<1> QED
  BY <1>1, Serialisable, LedgerInvariant, PTL DEF ImplementsLedger

\* The coupon's counter counts its redemptions, and no cap is passed.
THEOREM CapsHold == CheckoutSpec => []CouponWithinLimits
<1>1. LedgerInv => CouponWithinLimits
  BY DEF LedgerInv
<1> QED
  BY <1>1, Serialisable, LedgerInvariant, PTL DEF ImplementsLedger

\* The entry of one order changes from before to after, and so does the total.
LEMMA HeldChange ==
  ASSUME TypeOK, TypeOK', NEW r \in Requests, \A s \in Requests \ {r} : orders'[s] = orders[s],
         NEW v \in Variants
  PROVE  LET total == Total([s \in Requests |-> Held(s, v)]) IN
           total \in Int /\ total' = total - Held(r, v) + Held(r, v)'
<1>1. /\ \A s \in Requests : Held(s, v) \in Int /\ Held(s, v)' \in Int
      /\ \A s \in Requests \ {r} : Held(s, v)' = Held(s, v)
  BY CartsAssumption DEF Held, Live, Placed, TypeOK, Order
<1> DEFINE f == [s \in Requests |-> Held(s, v)]
           g == [s \in Requests |-> Held(s, v)']
<1>2. f \in [Requests -> Int] /\ g \in [Requests -> Int] /\ \A s \in Requests \ {r} : g[s] = f[s]
  BY <1>1
<1>3. f[r] = Held(r, v) /\ g[r] = Held(r, v)'
  OBVIOUS
<1>4. Total(f) \in Int /\ Total(g) = Total(f) - f[r] + g[r]
  BY <1>2, RequestsAssumption, TotalChange
<1> QED
  BY <1>3, <1>4

\* Placing an order moves its units from the shelf into it, calling it off moves them
\* back, and an edit moves the base with the shelf.
LEMMA BalanceStep == TypeOK /\ TypeOK' /\ StockBalanced /\ [Next]_vars => StockBalanced'
<1> SUFFICES ASSUME TypeOK, TypeOK', StockBalanced, [Next]_vars, NEW v \in Variants
             PROVE  stock'[v] + Total([s \in Requests |-> Held(s, v)])' = base'[v]
  BY DEF StockBalanced
<1> DEFINE total == Total([s \in Requests |-> Held(s, v)])
<1>1. stock[v] \in Nat /\ base[v] \in Int /\ stock[v] + total = base[v]
  BY DEF TypeOK, StockBalanced
<1>2. ASSUME UNCHANGED orders
      PROVE  total' = total
  BY <1>2 DEF Held, Live, Placed
<1>3. ASSUME NEW r \in Requests, NEW k \in Keys, NEW c \in Carts, Place(r, k, c)
      PROVE  stock'[v] + total' = base'[v]
  <2>1. /\ orders[r] = NoOrder /\ orders' = [orders EXCEPT ![r] = NewOrder(k, c)]
        /\ stock'[v] = stock[v] - c.qty[v] /\ base'[v] = base[v]
    BY <1>3 DEF Place
  <2>2. /\ \A s \in Requests \ {r} : orders'[s] = orders[s]
        /\ orders'[r] = NewOrder(k, c) /\ NewOrder(k, c) # NoOrder
    BY <2>1 DEF TypeOK, NewOrder, NoOrder
  <2>3. Held(r, v) = 0 /\ Held(r, v)' = c.qty[v]
    BY <2>1, <2>2 DEF Held, Live, Placed, NewOrder
  <2>4. total \in Int /\ total' = total - Held(r, v) + Held(r, v)'
    BY <2>2, HeldChange
  <2>5. c.qty[v] \in Int
    BY CartsAssumption
  <2> HIDE DEF total
  <2> QED
    BY <1>1, <2>1, <2>3, <2>4, <2>5
<1>4. ASSUME NEW r \in Requests, Cancel(r)
      PROVE  stock'[v] + total' = base'[v]
  <2>1. /\ r \in Live /\ orders[r] \in Order /\ orders' = [orders EXCEPT ![r].status = "cancelled"]
        /\ stock'[v] = stock[v] + orders[r].cart.qty[v] /\ base'[v] = base[v]
    BY <1>4 DEF Cancel, Live, Placed, TypeOK
  <2>2. /\ \A s \in Requests \ {r} : orders'[s] = orders[s]
        /\ orders'[r].status = "cancelled"
    BY <2>1 DEF TypeOK, Order
  <2>3. Held(r, v) = orders[r].cart.qty[v] /\ Held(r, v)' = 0
    BY <2>1, <2>2 DEF Held, Live
  <2>4. total \in Int /\ total' = total - Held(r, v) + Held(r, v)'
    BY <2>2, HeldChange
  <2>5. orders[r].cart.qty[v] \in Int
    BY <2>1, CartsAssumption DEF Order
  <2> HIDE DEF total
  <2> QED
    BY <1>1, <2>1, <2>3, <2>4, <2>5
<1>5. ASSUME NEW r \in Requests, Attach(r)
      PROVE  stock'[v] + total' = base'[v]
  <2>1. /\ orders[r] \in Order /\ orders[r] # NoOrder /\ UNCHANGED <<stock, base>>
        /\ orders' = [orders EXCEPT ![r].attached = TRUE]
    BY <1>5 DEF Attach, Placed, TypeOK
  <2>2. /\ \A s \in Requests \ {r} : orders'[s] = orders[s]
        /\ orders'[r].status = orders[r].status /\ orders'[r].cart = orders[r].cart
        /\ orders'[r] \in Order
    BY <2>1 DEF TypeOK, Order
  <2>3. orders'[r] # NoOrder
    BY <2>2 DEF Order, NoOrder
  <2>4. Held(r, v)' = Held(r, v)
    BY <2>1, <2>2, <2>3 DEF Held, Live, Placed
  <2>5. total \in Int /\ total' = total - Held(r, v) + Held(r, v)'
    BY <2>2, HeldChange
  <2>6. Held(r, v) \in Int
    BY <2>1, CartsAssumption DEF Held, Order
  <2> HIDE DEF total
  <2> QED
    BY <1>1, <2>1, <2>4, <2>5, <2>6
<1>6. ASSUME NEW w \in Variants, NEW n \in 0 .. MaxStock, SetStock(w, n)
      PROVE  stock'[v] + total' = base'[v]
  <2>1. total' = total
    BY <1>2, <1>6 DEF SetStock
  <2>2. IF w = v THEN stock'[v] = n /\ base'[v] = base[v] + n - stock[v]
                 ELSE stock'[v] = stock[v] /\ base'[v] = base[v]
    BY <1>6 DEF SetStock, TypeOK
  <2>3. n \in Nat
    BY LimitsAssumption
  <2>4. total = base[v] - stock[v]
    <3>1. total \in Int
      <4>1. /\ [s \in Requests |-> Held(s, v)] \in [Requests -> Int]
        BY CartsAssumption DEF Held, Live, Placed, TypeOK, Order
      <4> QED
        BY <4>1, RequestsAssumption, TotalIsInt
    <3> HIDE DEF total
    <3> QED
      BY <1>1, <3>1
  <2> HIDE DEF total
  <2> QED
    BY <1>1, <2>1, <2>2, <2>3, <2>4
<1>7. ASSUME UNCHANGED <<stock, orders, base>>
      PROVE  stock'[v] + total' = base'[v]
  BY <1>1, <1>2, <1>7
<1> QED
  BY <1>3, <1>4, <1>5, <1>6, <1>7 DEF Next, vars, SetActive, SetPublished, SetCoupon

LEMMA BalanceInvariant == Spec => []StockBalanced
<1>1. Init => StockBalanced
  <2> SUFFICES ASSUME Init, NEW v \in Variants
               PROVE  stock[v] + Total([s \in Requests |-> Held(s, v)]) = base[v]
    BY DEF StockBalanced
  <2>1. \A s \in Requests : Held(s, v) = 0
    BY DEF Init, Held, Live, Placed
  <2> DEFINE f == [s \in Requests |-> Held(s, v)]
  <2>2. f \in [Requests -> Int] /\ \A s \in Requests : f[s] = 0
    BY <2>1
  <2>3. Total(f) = 0
    BY <2>2, TotalOfNothing
  <2> QED
    BY <2>3, InitStockAssumption DEF Init
<1>2. LedgerInv => TypeOK
  BY DEF LedgerInv
<1> QED
  BY <1>1, <1>2, BalanceStep, LedgerInvariant, PTL DEF Spec

\* No interleaving of checkouts, cancellations, edits, failures and deadlocks loses a
\* unit or returns one twice: shelf and live orders add up to what the admin put in.
THEOREM BooksBalance == CheckoutSpec => []StockBalanced
  BY Serialisable, BalanceInvariant, PTL DEF ImplementsLedger

\* Of some variants, one comes last in a walk.
LEMMA LastOfWalk ==
  ASSUME NEW p \in Plans, NEW W \in SUBSET Variants, W # {}
  PROVE  \E v \in W : \A w \in W : p.rank[w] <= p.rank[v]
<1> DEFINE D == {LastId - p.rank[v] : v \in W}
<1>1. LastId \in Nat /\ \A v \in W : p.rank[v] \in 1 .. LastId
  BY VariantsAssumption, PlansAssumption
<1>2. D \subseteq Nat /\ D # {}
  BY <1>1
<1> DEFINE R == {ss \in Nat \X Nat : ss[1] < ss[2]}
<1>3. IsWellFoundedOn(R, Nat)
  BY NatLessThanWellFounded DEF OpToRel
<1>4. \A w \in W : LastId - p.rank[w] \in D
  OBVIOUS
<1>5. \A d \in D : \E v \in W : d = LastId - p.rank[v]
  OBVIOUS
<1> HIDE DEF D
<1>6. PICK d \in D : \A e \in D : ~ (<<e, d>> \in R)
  <2> HIDE DEF R
  <2> QED
    BY <1>2, <1>3, WFMin
<1>7. \A e \in D : ~ (e < d)
  BY <1>2, <1>6
<1>8. PICK v \in W : d = LastId - p.rank[v]
  BY <1>5
<1>9. ASSUME NEW w \in W
      PROVE  p.rank[w] <= p.rank[v]
  <2>1. LastId - p.rank[w] \in D /\ ~ (LastId - p.rank[w] < LastId - p.rank[v])
    BY <1>4, <1>7, <1>8
  <2> QED
    BY <1>1, <2>1
<1> QED
  BY <1>9

\* In a circle of checkouts everybody is still walking: who holds a key, a customer or
\* the coupon waits only for something further along.
LEMMA CirclesWalk ==
  ASSUME IInv, NEW S \in SUBSET Requests, Deadlocked(S), NEW t \in S
  PROVE  pc[t] = "variants"
<1>1. \A u \in S : Ok(u) /\ u \in Requests /\ cart[u].who \in Customers /\ key[u] \in Keys
  BY CartFacts DEF IInv
<1>2. \A u \in S : \E x \in Wanted(u) : owner[x] \in S
  BY DEF Deadlocked, WaitsFor
<1>3. \A u \in S : pc[u] \in {"variants", "coupon", "customer", "insert"}
  BY <1>1, <1>2 DEF Ok, Wanted, InTransaction, AfterCommit
<1>4. \A u \in S : pc[u] # "insert"
  <2> SUFFICES ASSUME NEW u \in S, pc[u] = "insert"
               PROVE  FALSE
    OBVIOUS
  <2>1. owner[KeyEntry(key[u])] \in S
    BY <1>2 DEF Wanted
  <2> QED
    BY <2>1, <1>1, <1>3 DEF Ok
<1>5. \A u \in S : pc[u] # "customer"
  <2> SUFFICES ASSUME NEW u \in S, pc[u] = "customer"
               PROVE  FALSE
    OBVIOUS
  <2>1. owner[CustomerRow(cart[u].who)] \in S
    BY <1>2 DEF Wanted
  <2> QED
    BY <2>1, <1>1, <1>3, <1>4 DEF Ok
<1>6. \A u \in S : pc[u] # "coupon"
  <2> SUFFICES ASSUME NEW u \in S, pc[u] = "coupon"
               PROVE  FALSE
    OBVIOUS
  <2>1. owner[CouponRow] \in S
    BY <1>2 DEF Wanted
  <2> QED
    BY <2>1, <1>1, <1>3, <1>4, <1>5 DEF Ok, HasClaimed
<1> QED
  BY <1>3, <1>4, <1>5, <1>6

\* Circles of checkouts that walk alike come of a variants-first walk over a shared
\* product alone.  Of the circle's members take one that waits at the line furthest
\* along.  Who holds the row it waits for has come as far and waits no further: at the
\* same line, or, where products come first, at another of the same product.  That one
\* waits in turn for a row whose holder would have to hold what it holds itself.
THEOREM OnlyCrossedWalksDeadlock == CheckoutSpec => []CirclesNeedCrossedWalks
<1>1. IInv => CirclesNeedCrossedWalks
  <2> SUFFICES ASSUME IInv, NEW S \in SUBSET Requests, Deadlocked(S),
                      \A r, s \in S : plan[r] = plan[s],
                      \A r, s \in S : plan[r].first = "variant" => ~ShareProduct(r, s)
               PROVE  FALSE
    BY CirclesWalk DEF CirclesNeedCrossedWalks
  <2> DEFINE WaitsAt(t, v) == NextVariant(t, v) /\ \E u \in S : u # t /\ owner[NextRow(t, v)] = u
             W == {v \in Variants : \E t \in S : WaitsAt(t, v)}
  <2>1. \A t \in S : /\ WalkOk(t) /\ plan[t] \in Plans
                     /\ \E v \in Variants : WaitsAt(t, v)
    <3> SUFFICES ASSUME NEW t \in S
                 PROVE  WalkOk(t) /\ plan[t] \in Plans /\ \E v \in Variants : WaitsAt(t, v)
      OBVIOUS
    <3>1. Ok(t) /\ plan[t] \in Plans /\ pc[t] = "variants"
      BY CartFacts, CirclesWalk DEF IInv
    <3>2. PICK u \in S : WaitsFor(t, u)
      BY DEF Deadlocked
    <3>3. t # u /\ \E x \in Wanted(t) : owner[x] = u
      BY <3>2 DEF WaitsFor
    <3>4. Wanted(t) = {NextRow(t, v) : v \in {w \in Variants : NextVariant(t, w)}}
      BY <3>1 DEF Wanted
    <3> QED
      BY <3>1, <3>3, <3>4 DEF Ok
  <2>2. PICK p \in Plans : \A t \in S : plan[t] = p
    <3>1. PICK t \in S : TRUE
      BY DEF Deadlocked
    <3>2. plan[t] \in Plans /\ \A r \in S : plan[r] = plan[t]
      BY <2>1
    <3> QED
      BY <3>2
  <2>3. /\ p.first \in {"variant", "product"}
        /\ \A v \in Variants : p.rank[v] \in Int
        /\ \A v, w \in Variants : p.rank[v] = p.rank[w] => v = w
        /\ p.first = "product" =>
             \A u, v, w \in Variants :
               p.rank[u] < p.rank[v] /\ p.rank[v] < p.rank[w] /\ ProductOf[u] = ProductOf[w]
                 => ProductOf[v] = ProductOf[u]
    <3>1. \A v \in Variants : p.rank[v] \in 1 .. LastId
      BY PlansAssumption
    <3>2. \A v \in Variants : p.rank[v] \in Int
      BY <3>1
    <3> QED
      BY <3>2, PlansAssumption
  <2>4. PICK v \in W : \A w \in W : p.rank[w] <= p.rank[v]
    <3>1. W # {} /\ W \in SUBSET Variants
      BY <2>1 DEF Deadlocked
    <3> QED
      BY <3>1, LastOfWalk
  <2>5. PICK t \in S : WaitsAt(t, v)
    OBVIOUS
  <2>6. PICK s \in S : s # t /\ owner[NextRow(t, v)] = s
    BY <2>5
  <2>7. PICK w \in Variants : WaitsAt(s, w)
    BY <2>1
  <2>8. PICK u \in S : u # s /\ owner[NextRow(s, w)] = u
    BY <2>7
  <2>9. v \in Variants /\ v \in InCart(t) /\ w \in InCart(s) /\ ~Holds(s, w) /\ p.rank[w] <= p.rank[v]
    BY <2>4, <2>5, <2>7 DEF NextVariant
  <2> HIDE DEF WaitsAt, W
  \* Who has come to a line waits there or further along.
  <2>10. ASSUME NEW x \in Variants, Reached(s, x)
         PROVE  x \in InCart(s) /\ p.rank[x] <= p.rank[w]
    <3>1. x \in InCart(s) /\ w \notin Earlier(s, x)
      BY <2>9, <2>10 DEF Reached
    <3> QED
      BY <3>1, <2>2, <2>3, <2>9 DEF Earlier
  <2>11. CASE p.first = "product"
    <3>1. /\ NextRow(t, v) = IF owner[ProductRow(ProductOf[v])] = t THEN VariantRow(v)
                                                                   ELSE ProductRow(ProductOf[v])
          /\ NextRow(s, w) = IF owner[ProductRow(ProductOf[w])] = s THEN VariantRow(w)
                                                                   ELSE ProductRow(ProductOf[w])
      BY <2>2, <2>11 DEF NextRow
    <3>2. \A r \in S : \A x \in Variants :
            owner[VariantRow(x)] = r => owner[ProductRow(ProductOf[x])] = r
      BY <2>1, <2>2, <2>11 DEF WalkOk
    <3>3. owner[ProductRow(ProductOf[v])] = s
      BY <3>1, <3>2, <2>6, <2>9
    <3>4. PICK x \in Variants : ProductOf[x] = ProductOf[v] /\ Reached(s, x)
      BY <3>3, <2>1, <2>9, RowsAreRows DEF WalkOk
    <3>5. p.rank[x] <= p.rank[w] /\ p.rank[w] <= p.rank[v]
      BY <3>4, <2>9, <2>10
    <3>6. ProductOf[w] = ProductOf[v]
      <4>1. CASE p.rank[x] = p.rank[w] \/ p.rank[w] = p.rank[v]
        BY <4>1, <3>4, <2>3, <2>9
      <4>2. CASE p.rank[x] # p.rank[w] /\ p.rank[w] # p.rank[v]
        <5>1. p.rank[x] < p.rank[w] /\ p.rank[w] < p.rank[v]
          BY <4>2, <3>5, <2>3, <2>9
        <5> QED
          BY <5>1, <3>4, <2>3, <2>9, <2>11
      <4> QED
        BY <4>1, <4>2
    <3> QED
      BY <3>1, <3>2, <3>3, <3>6, <2>8, <2>9
  <2>12. CASE p.first = "variant"
    <3>1. /\ NextRow(t, v) = IF owner[VariantRow(v)] = t THEN ProductRow(ProductOf[v]) ELSE VariantRow(v)
          /\ NextRow(s, w) = IF owner[VariantRow(w)] = s THEN ProductRow(ProductOf[w]) ELSE VariantRow(w)
      BY <2>2, <2>12 DEF NextRow
    <3>2. \A q, r \in S : \A x \in InCart(q), y \in InCart(r) :
            x \in Variants /\ y \in Variants /\ ProductOf[x] = ProductOf[y] => x = y
      BY <2>2, <2>12 DEF ShareProduct
    \* The holder of a product has it for the only pack of it in the circle.
    <3>3. ASSUME NEW q \in S, NEW x \in Variants, NEW r \in S, x \in InCart(r),
                 owner[ProductRow(ProductOf[x])] = q
          PROVE  owner[VariantRow(x)] = q
      <4>1. PICK y \in Variants : /\ ProductOf[y] = ProductOf[x] /\ y \in InCart(q)
                                  /\ owner[VariantRow(y)] = q
        BY <3>3, <2>1, <2>2, <2>12, RowsAreRows DEF WalkOk, Reached
      <4> QED
        BY <4>1, <3>2, <3>3
    <3>4. owner[VariantRow(v)] = s
      BY <3>1, <3>3, <2>6, <2>9
    <3>5. Reached(s, v)
      BY <3>4, <2>1, <2>9 DEF WalkOk
    <3>6. w = v
      <4>1. p.rank[v] <= p.rank[w]
        BY <3>5, <2>9, <2>10
      <4> QED
        BY <4>1, <2>3, <2>9
    <3> QED
      BY <3>1, <3>3, <3>4, <3>6, <2>8, <2>9
  <2> QED
    BY <2>3, <2>11, <2>12
<1> QED
  BY <1>1, Invariant, PTL

\* An order in the table keeps its key, and its payment order once that is attached.
LEMMA OrdersStay ==
  ASSUME TypeOK, [Next]_vars
  PROVE  \A s \in Placed : /\ s \in Placed' /\ orders'[s].key = orders[s].key
                           /\ (orders[s].attached => orders'[s].attached)
<1> SUFFICES ASSUME NEW s \in Placed
             PROVE  /\ s \in Placed' /\ orders'[s].key = orders[s].key
                    /\ (orders[s].attached => orders'[s].attached)
  OBVIOUS
<1>1. orders[s] \in Order /\ s \in Requests /\ orders \in [Requests -> Order \cup {NoOrder}]
  BY DEF Placed, TypeOK
<1>2. orders[s].status \in {"live", "cancelled"} /\ orders[s] # NoOrder
  BY <1>1 DEF Order, Placed
<1>3. CASE orders' = orders
  BY <1>3 DEF Placed
<1>4. ASSUME NEW r \in Requests, NEW k \in Keys, NEW c \in Carts, Place(r, k, c)
      PROVE  orders'[s] = orders[s]
  BY <1>1, <1>2, <1>4 DEF Place
<1>5. ASSUME NEW r \in Requests, Cancel(r)
      PROVE  orders'[s] \in Order /\ orders'[s].key = orders[s].key /\ orders'[s].attached = orders[s].attached
  <2>1. orders' = [orders EXCEPT ![r] = [orders[r] EXCEPT !.status = "cancelled"]]
    BY <1>5 DEF Cancel
  <2>2. CASE r = s
    BY <2>1, <2>2, <1>1 DEF Order
  <2>3. CASE r # s
    BY <2>1, <2>3, <1>1
  <2> QED
    BY <2>2, <2>3
<1>6. ASSUME NEW r \in Requests, Attach(r)
      PROVE  /\ orders'[s] \in Order /\ orders'[s].key = orders[s].key
             /\ (orders[s].attached => orders'[s].attached)
  <2>1. orders' = [orders EXCEPT ![r] = [orders[r] EXCEPT !.attached = TRUE]]
    BY <1>6 DEF Attach
  <2>2. CASE r = s
    BY <2>1, <2>2, <1>1 DEF Order
  <2>3. CASE r # s
    BY <2>1, <2>3, <1>1
  <2> QED
    BY <2>2, <2>3
<1>7. \A e \in Order : e # NoOrder
  BY DEF Order, NoOrder
<1>8. \/ orders' = orders
      \/ \E r \in Requests, k \in Keys, c \in Carts : Place(r, k, c)
      \/ \E r \in Requests : Cancel(r) \/ Attach(r)
  BY DEF Next, vars, SetStock, SetActive, SetPublished, SetCoupon
<1>9. ASSUME orders'[s] \in Order
      PROVE  s \in Placed'
  BY <1>1, <1>7, <1>9 DEF Placed
<1> QED
  BY <1>1, <1>3, <1>4, <1>5, <1>6, <1>8, <1>9

OwnStep(r) ==
  Receive(r) \/ Advance(r) \/ CommitUnacknowledged(r) \/ Fail(r) \/ (r \in Requests /\ Victim(r))

\* A request is moved, answered and given its order by its own steps alone.
LEMMA OthersLeave ==
  ASSUME IInv, [CheckoutNext]_allVars, NEW r \in Requests, ~OwnStep(r)
  PROVE  /\ answer'[r] = answer[r] /\ pc'[r] = pc[r]
         /\ r \in Placed' => r \in Placed
<1>1. /\ pc \in [Txns -> {"new", "idle", "done"} \cup InTransaction \cup AfterCommit \cup Cancelling]
      /\ answer \in [Requests -> Answers] /\ orders \in [Requests -> Order \cup {NoOrder}] /\ r \in Txns
  BY DEF IInv, CheckoutTypeOK, TypeOK, Txns
<1>2. ASSUME NEW u \in Requests, Receive(u) \/ Advance(u) \/ CommitUnacknowledged(u) \/ Fail(u)
      PROVE  answer'[r] = answer[r] /\ pc'[r] = pc[r]
  <2>1. u # r
    BY <1>2 DEF OwnStep
  <2> QED
    BY <1>1, <1>2, <2>1 DEF Receive, Advance, LockRow, TakeStock, RefuseStock, ClaimCoupon, RefuseCoupon,
       UpsertCustomer, InsertOrder, Duplicate, Commit, CommitUnacknowledged, Replay, ProviderAnswers,
       AttachRazorpayOrderId, Fail, Goto, Answer
<1>3. ASSUME NEW u \in Requests, Receive(u) \/ Advance(u) \/ CommitUnacknowledged(u) \/ Fail(u)
      PROVE  orders'[r] = orders[r] \/ r \in Placed
  <2>1. u # r
    BY <1>2, <1>3 DEF OwnStep
  <2> QED
    BY <1>1, <1>3, <2>1 DEF Receive, Advance, LockRow, TakeStock, RefuseStock, ClaimCoupon, RefuseCoupon,
       UpsertCustomer, InsertOrder, Duplicate, Commit, CommitUnacknowledged, Replay, ProviderAnswers,
       AttachRazorpayOrderId, Attach, Fail, Write, ledger
<1>4. ASSUME NEW c \in Cancellers, NEW u \in Requests, BeginCancel(c, u)
      PROVE  answer'[r] = answer[r] /\ pc'[r] = pc[r] /\ orders' = orders
  BY <1>1, <1>4, DistinctAssumption DEF BeginCancel, Goto, ledger
<1>5. ASSUME NEW c \in Cancellers, AdvanceCancel(c) \/ FailCancel(c)
      PROVE  answer'[r] = answer[r] /\ pc'[r] = pc[r]
  BY <1>1, <1>5, DistinctAssumption DEF AdvanceCancel, LockOrder, NothingToCancel, RestoreLine, CommitCancel,
     FailCancel, Forget, Goto
<1>6. ASSUME NEW c \in Cancellers, AdvanceCancel(c) \/ FailCancel(c)
      PROVE  orders'[r] = orders[r] \/ r \in Placed
  <2>1. pc[c] = "restore" => target[c] \in Placed
    BY DEF IInv, CancelOk, Cancelling
  <2> QED
    BY <1>1, <1>6, <2>1 DEF AdvanceCancel, LockOrder, NothingToCancel, RestoreLine, CommitCancel, FailCancel, ledger
<1>7. ASSUME NEW t \in Txns, Victim(t)
      PROVE  answer'[r] = answer[r] /\ pc'[r] = pc[r] /\ orders' = orders
  <2>1. t # r
    BY <1>7 DEF OwnStep
  <2> QED
    BY <1>1, <1>7, <2>1 DEF Victim, Forget, Goto, Answer, ledger
<1>8. ASSUME NEW v \in Variants, SetVariantActive(v) \/ \E n \in 0 .. MaxStock : SetVariantStock(v, n)
      PROVE  answer' = answer /\ pc' = pc /\ orders' = orders
  BY <1>8 DEF SetVariantStock, SetStock, SetVariantActive, SetActive
<1>12. ASSUME NEW p \in Products, SetProductActive(p)
       PROVE  answer' = answer /\ pc' = pc /\ orders' = orders
  BY <1>12 DEF SetProductActive, SetPublished
<1>9. ASSUME SetCouponActive
      PROVE  answer' = answer /\ pc' = pc /\ orders' = orders
  BY <1>9 DEF SetCouponActive, SetCoupon
<1>10. ASSUME UNCHANGED allVars
       PROVE  answer' = answer /\ pc' = pc /\ orders' = orders
  BY <1>10 DEF allVars, ledger
<1>11. answer'[r] = answer[r] /\ pc'[r] = pc[r] /\ (orders'[r] = orders[r] \/ r \in Placed)
  BY <1>2, <1>3, <1>4, <1>5, <1>6, <1>7, <1>8, <1>9, <1>10, <1>12 DEF CheckoutNext
<1> QED
  BY <1>11 DEF Placed

\* An order is under the key its request sent, and who has been answered is done.
TruthInv ==
  /\ AnswersAreTrue
  /\ \A r \in Requests : /\ r \in Placed => orders[r].key = key[r]
                         /\ answer[r] # "none" => pc[r] = "done"

\* What a request's own step makes of its answer and its order.
LEMMA OwnAnswer ==
  ASSUME IInv, TruthInv, NEW r \in Requests, OwnStep(r)
  PROVE  /\ answer'[r] # "none" => pc'[r] = "done"
         /\ r \in Placed' => orders'[r].key = key[r]
         /\ answer'[r] = "201" => r \in Placed' /\ (cart[r].online => orders'[r].attached)
         /\ answer'[r] = "200" => \E s \in Placed' : orders'[s].key = key[r]
         /\ answer'[r] = "409" => r \notin Placed'
<1>1. /\ pc \in [Txns -> {"new", "idle", "done"} \cup InTransaction \cup AfterCommit \cup Cancelling]
      /\ answer \in [Requests -> Answers] /\ orders \in [Requests -> Order \cup {NoOrder}] /\ r \in Txns
  BY DEF IInv, CheckoutTypeOK, TypeOK, Txns
<1>2. /\ pc[r] \in {"new"} \cup InTransaction => r \notin Placed
      /\ pc[r] \in {"provider", "attach"} => r \in Placed
  BY DEF IInv, Ok
<1>3. (r \in Placed => orders[r].key = key[r]) /\ (answer[r] # "none" => pc[r] = "done")
  BY DEF TruthInv
<1>4. CASE Receive(r) \/ LockRow(r) \/ TakeStock(r) \/ ClaimCoupon(r) \/ UpsertCustomer(r) \/ InsertOrder(r)
           \/ Duplicate(r) \/ ProviderAnswers(r)
  <2>1. answer' = answer /\ orders' = orders /\ pc[r] # "done"
    BY <1>4 DEF Receive, LockRow, TakeStock, ClaimCoupon, UpsertCustomer, InsertOrder, Duplicate,
       ProviderAnswers, ledger
  <2> QED
    BY <2>1, <1>3 DEF Placed
<1>5. CASE RefuseStock(r) \/ RefuseCoupon(r)
  <2>1. orders' = orders /\ pc'[r] = "done" /\ answer'[r] = "409" /\ pc[r] \in InTransaction
    BY <1>1, <1>5 DEF RefuseStock, RefuseCoupon, Goto, Answer, ledger, InTransaction
  <2> QED
    BY <2>1, <1>2 DEF Placed
<1>6. CASE Fail(r) \/ Victim(r)
  <2>1. orders' = orders /\ pc'[r] = "done" /\ answer'[r] \in {"500", "503", "lost"}
    BY <1>1, <1>6, DistinctAssumption DEF Fail, Victim, Goto, Answer, ledger
  <2> QED
    BY <2>1, <1>3 DEF Placed
<1>7. CASE Replay(r)
  <2>1. /\ orders' = orders /\ pc'[r] = "done"
        /\ answer'[r] = IF KeyIsNew(key[r]) THEN "500" ELSE "200"
    BY <1>1, <1>7 DEF Replay, Goto, Answer, ledger
  <2> QED
    BY <2>1, <1>3 DEF Placed, KeyIsNew
<1>8. CASE AttachRazorpayOrderId(r)
  <2>1. pc'[r] = "done" /\ answer'[r] = "201" /\ r \in Placed
    BY <1>1, <1>8 DEF AttachRazorpayOrderId, Goto, Answer, Attach
  <2>2. orders[r] \in Order /\ orders' = [orders EXCEPT ![r] = [orders[r] EXCEPT !.attached = TRUE]]
    BY <1>1, <1>8 DEF AttachRazorpayOrderId, Attach, Placed
  <2>3. orders'[r] \in Order /\ orders'[r].key = orders[r].key /\ orders'[r].attached
    BY <1>1, <2>2 DEF Order
  <2>4. r \in Placed'
    BY <2>3 DEF Placed, Order, NoOrder
  <2> QED
    BY <2>1, <2>3, <2>4, <1>3
<1>9. CASE Commit(r) \/ CommitUnacknowledged(r)
  <2>1. orders' = [orders EXCEPT ![r] = NewOrder(key[r], cart[r])] /\ pc[r] = "commit"
    BY <1>9 DEF Commit, CommitUnacknowledged, Write
  <2>2. orders'[r] = NewOrder(key[r], cart[r])
    BY <1>1, <2>1
  <2>3. r \in Placed' /\ orders'[r].key = key[r]
    BY <2>2 DEF Placed, NewOrder, NoOrder
  <2>4. answer[r] = "none"
    BY <2>1, <1>3
  <2>5. /\ answer'[r] # "none" => pc'[r] = "done"
        /\ answer'[r] # "200" /\ answer'[r] # "409"
        /\ answer'[r] = "201" => ~cart[r].online
    BY <1>1, <1>9, <2>4 DEF Commit, CommitUnacknowledged, Goto, Answer
  <2> QED
    BY <2>3, <2>5
<1> QED
  BY <1>4, <1>5, <1>6, <1>7, <1>8, <1>9 DEF OwnStep, Advance

LEMMA TruthStep ==
  ASSUME IInv, TruthInv, [CheckoutNext]_allVars
  PROVE  TruthInv'
<1>1. TypeOK /\ [Next]_vars
  BY StepOk DEF IInv, CheckoutTypeOK
<1>2. \A s \in Placed : /\ s \in Placed' /\ orders'[s].key = orders[s].key
                        /\ (orders[s].attached => orders'[s].attached)
  BY <1>1, OrdersStay
<1>3. key' = key /\ cart' = cart
  BY DEF CheckoutNext, allVars, request, Receive, Advance, LockRow, TakeStock, RefuseStock, ClaimCoupon,
     RefuseCoupon, UpsertCustomer, InsertOrder, Duplicate, Commit, CommitUnacknowledged, Replay,
     ProviderAnswers, AttachRazorpayOrderId, Fail, BeginCancel, AdvanceCancel, LockOrder, NothingToCancel,
     RestoreLine, CommitCancel, FailCancel, Victim, SetVariantStock, SetVariantActive, SetProductActive,
     SetCouponActive
<1>4. ASSUME NEW r \in Requests
      PROVE  /\ answer'[r] # "none" => pc'[r] = "done"
             /\ r \in Placed' => orders'[r].key = key[r]
             /\ answer'[r] = "201" => r \in Placed' /\ (cart[r].online => orders'[r].attached)
             /\ answer'[r] = "200" => \E s \in Placed' : orders'[s].key = key[r]
             /\ answer'[r] = "409" => r \notin Placed'
  <2>1. CASE OwnStep(r)
    BY <2>1, OwnAnswer
  <2>2. CASE ~OwnStep(r)
    <3>1. answer'[r] = answer[r] /\ pc'[r] = pc[r] /\ (r \in Placed' => r \in Placed)
      BY <2>2, OthersLeave
    <3>2. /\ r \in Placed => orders[r].key = key[r]
          /\ answer[r] # "none" => pc[r] = "done"
          /\ answer[r] = "201" => r \in Placed /\ (cart[r].online => orders[r].attached)
          /\ answer[r] = "200" => \E s \in Placed : orders[s].key = key[r]
          /\ answer[r] = "409" => r \notin Placed
      BY DEF TruthInv, AnswersAreTrue
    <3> QED
      BY <3>1, <3>2, <1>2
  <2> QED
    BY <2>1, <2>2
<1> QED
  BY <1>3, <1>4 DEF TruthInv, AnswersAreTrue

\* Whatever a browser was told stays so: its order is there under the key it sent, with
\* its payment order if it pays online, and a refused request has left no order.
THEOREM AnswersStayTrue == CheckoutSpec => []AnswersAreTrue
<1>1. CheckoutInit => TruthInv
  BY DEF CheckoutInit, Init, TruthInv, AnswersAreTrue, Placed
<1>2. IInv /\ TruthInv /\ [CheckoutNext]_allVars => TruthInv'
  BY TruthStep
<1>3. TruthInv => AnswersAreTrue
  BY DEF TruthInv
<1> QED
  BY <1>1, <1>2, <1>3, Invariant, PTL DEF CheckoutSpec
=============================================================================
