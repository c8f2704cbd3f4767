------------------------------- MODULE Totals -------------------------------
(***************************************************************************)
(* The sum of an integer function over its finite domain, by counting: an  *)
(* x with f[x] = 3 stands for the units <<x, 1>>, <<x, 2>> and <<x, 3>>,    *)
(* and one with f[x] = -3 owes as many.  It is the sum a fold would add    *)
(* up; counted, what is known of cardinalities can be used of it.          *)
(***************************************************************************)
EXTENDS Integers, FiniteSets

\* 1 .. n is empty for the n that are not positive.
Units(f) == UNION {{x} \X (1 .. f[x]) : x \in DOMAIN f}

Negated(f) == [x \in DOMAIN f |-> -f[x]]

Total(f) == Cardinality(Units(f)) - Cardinality(Units(Negated(f)))
=============================================================================
