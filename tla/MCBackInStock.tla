--------------------------- MODULE MCBackInStock ---------------------------
(* A waiting list of two people for TLC. *)
EXTENDS BackInStock, TLC

Symmetry == Permutations(People) \cup Permutations(Drains)
=============================================================================
