---------------------------- MODULE MCCustomers ----------------------------
(* Three devices and a small address book, for TLC. *)
EXTENDS Customers, TLC

CONSTANTS d1, d2, d3

Symmetry == Permutations(Devices)
=============================================================================
