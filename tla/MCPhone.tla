------------------------------- MODULE MCPhone -------------------------------
(* One request at a time, two sign-ins and two taps on Place Order.        *)
EXTENDS Phone, TLC

Symmetry == Permutations(Tokens)
=============================================================================
