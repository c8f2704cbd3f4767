------------------------------ MODULE MCOrders ------------------------------
(* The order life cycle on small shops, for TLC. *)
EXTENDS Orders, FiniteSetsExt

CONSTANTS o1, o2, v1, v2

\* Counted in units, a total is what a fold adds up.
ASSUME TotalIsTheSum ==
  \A f \in [1 .. 3 -> -2 .. 2] : Total(f) = MapThenSumSet(LAMBDA x : f[x], 1 .. 3)

\* Two units on the shelf, baskets of one or two.
Stock2 == [v \in Variants |-> 2]
=============================================================================
