----------------------------- MODULE MCCheckout -----------------------------
(* The checkout's transactions for TLC. *)
EXTENDS Checkout, TLC

CONSTANTS ann, bob, oil, ghee, r1, r2, k1, k2

\* Two packs of one product, one of another.
PackOf == <<oil, oil, ghee>>

\* Stock of each variant.
OneEach == [v \in Variants |-> 1]

\* Lines in the order they were put in the cart, which need not be that of the ids.
Cart(who, lines, coupon, online) ==
  [who |-> who, lines |-> lines, coupon |-> coupon, online |-> online,
   qty |-> [v \in Variants |-> IF \E i \in DOMAIN lines : lines[i] = v THEN 1 ELSE 0]]

Across  == Cart(ann, <<3, 2>>, FALSE, FALSE)
Back    == Cart(bob, <<2, 3>>, FALSE, FALSE)
Both    == Cart(bob, <<1, 2>>, TRUE, FALSE)
Online  == Cart(ann, <<3>>, TRUE, TRUE)
AllCarts == {Across, Back, Both, Online}

\* The primary key of the variants upwards; or the products, and the variants of each.
ByVariant == [first |-> "variant", rank |-> <<1, 2, 3>>]
ByProduct == [first |-> "product", rank |-> <<2, 3, 1>>]
BothPlans == {ByVariant, ByProduct}

Pair(x, y) == [r \in Requests |-> IF r = r1 THEN x ELSE y]

Meet(k, c, p) == [key |-> k, cart |-> c, plan |-> p]

\* Up to an exchange of the two requests: baskets that cross two products, or share a
\* product by two of its packs, under equal plans or different ones; one key sent twice,
\* for cash and online; a race for the coupon between baskets that share nothing else; a
\* customer's second use of it.
Together ==
  LET two == Pair(k1, k2)
      one == Pair(k1, k1)
      v == Pair(ByVariant, ByVariant)
  IN {Meet(two, Pair(Across, c), Pair(p, p)) : c \in {Back, Both}, p \in BothPlans}
       \cup {Meet(two, Pair(Across, Back), Pair(ByVariant, ByProduct))}
       \cup {Meet(two, Pair(Both, c), v) : c \in {Online, Both}}
       \cup {Meet(one, Pair(c, c), v) : c \in {Across, Online}}
=============================================================================
