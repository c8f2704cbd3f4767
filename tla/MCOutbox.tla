------------------------------ MODULE MCOutbox ------------------------------
(* The checkout page and the outbox for TLC; the cfg gives the sizes. *)
EXTENDS Outbox, TLC

Symmetry == Permutations(Keys) \cup Permutations(Drains)
=============================================================================
