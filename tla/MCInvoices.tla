----------------------------- MODULE MCInvoices -----------------------------
(* Invoice numbering for TLC; the cfg gives the sizes. *)
EXTENDS Invoices
=============================================================================
