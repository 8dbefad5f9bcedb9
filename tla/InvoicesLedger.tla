--------------------------- MODULE InvoicesLedger ---------------------------
(***************************************************************************)
(* The invoices of an organization seen as bound ledgers: the page of a    *)
(* book is the document that carries the number.                           *)
(***************************************************************************)
EXTENDS Invoices

InBook(b, i) == number[i] # NoNumber /\ <<number[i].series, number[i].year>> = b

PageOf(b, n) == CHOOSE i \in Ids : InBook(b, i) /\ number[i].seq = n

Pages == [b \in Series \X Years |->
            [n \in {number[i].seq : i \in {j \in Ids : InBook(b, j)}} |->
               PageOf(b, n)]]

Ledger == INSTANCE FiscalLedger WITH Books <- Series \X Years, page <- Pages

(* When requests do not overlap and none is stopped, the service           *)
(* implements the bound ledgers: numbering by counter, allocated before    *)
(* the save, is sequential and gap-free, and no document changes page.     *)
ImplementsLedger == Ledger!LedgerSpec

=============================================================================
