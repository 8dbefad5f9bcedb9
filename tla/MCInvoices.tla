----------------------------- MODULE MCInvoices -----------------------------
(* Instances of Invoices for TLC.                                          *)
EXTENDS InvoicesLedger, TLC

Symmetry == Permutations(Ids) \cup Permutations(Requests)

=============================================================================
