---------------------------- MODULE InvoiceSeries ----------------------------
(***************************************************************************)
(* What the invoice numbering promises: within a financial year numbers    *)
(* are given out one after the other, in a single indivisible step each,   *)
(* to orders that have none.  GST asks for a series that is consecutive.   *)
(***************************************************************************)
EXTENDS Integers

CONSTANTS
  Orders,    \* orders an invoice can be rendered for
  LastYear   \* financial years are numbered 1 .. LastYear, a positive number

Years == 1 .. LastYear

\* orders.invoice_number: a year of the series and a place in it.
Number   == [fy : Years, seq : Nat \ {0}]
NoNumber == [fy |-> 0, seq |-> 0]

VARIABLES
  invoice,   \* orders.invoice_number
  lastSeq    \* invoice_counters.last_seq, 0 without a row

TypeOK ==
  /\ invoice \in [Orders -> Number \cup {NoNumber}]
  /\ lastSeq \in [Years -> Nat]

Init ==
  /\ invoice = [o \in Orders |-> NoNumber]
  /\ lastSeq = [y \in Years |-> 0]

Allocate(o, y) ==
  /\ invoice[o] = NoNumber
  /\ lastSeq' = [lastSeq EXCEPT ![y] = @ + 1]
  /\ invoice' = [invoice EXCEPT ![o] = [fy |-> y, seq |-> lastSeq[y] + 1]]

Next == \E o \in Orders, y \in Years : Allocate(o, y)

vars == <<invoice, lastSeq>>

Spec == Init /\ [][Next]_vars

\* The numbers given out in a year are exactly 1 .. last_seq: there is no hole in
\* the series, and no number beyond the counter.
Consecutive ==
  \A y \in Years :
    {invoice[o].seq : o \in {p \in Orders : invoice[p].fy = y}} = 1 .. lastSeq[y]

\* No two orders share a number (the unique index uq_orders_invoice never fires).
Unique ==
  \A o, p \in Orders : invoice[o] = invoice[p] /\ invoice[o] # NoNumber => o = p

\* A number, once printed, is the order's for good.
Permanent == [][\A o \in Orders : invoice[o] # NoNumber => invoice'[o] = invoice[o]]_vars
=============================================================================
