SPECIFICATION FairSpec
CONSTANTS
  ann = ann
  bob = bob
  oil = oil
  ghee = ghee
  r1 = r1
  r2 = r2
  k1 = k1
  k2 = k2
  Requests = {r1, r2}
  Cancellers = {c1}
  Keys = {k1, k2}
  Customers = {ann, bob}
  LastId = 3
  Variants = {1, 2, 3}
  Products = {oil, ghee}
  ProductOf <- PackOf
  Plans <- BothPlans
  Traffic <- Together
  Carts <- AllCarts
  InitStock <- OneEach
  MaxStock = 1
  GlobalLimit = 1
  PerCustomer = 1
  Edited = {3, ghee}
  Nobody = Nobody
INVARIANTS StockBalanced CirclesNeedCrossedWalks OneOrderPerKey CouponWithinLimits AnswersAreTrue
PROPERTIES ImplementsLedger EveryRequestEnds
CHECK_DEADLOCK FALSE
