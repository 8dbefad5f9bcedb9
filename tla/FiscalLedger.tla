---------------------------- MODULE FiscalLedger ----------------------------
(***************************************************************************)
(* What a series of fiscal documents promises, whatever its implementation:*)
(* one bound ledger for each series and year.  A document is entered once, *)
(* on the first free page of one ledger; no page is skipped, rewritten or  *)
(* torn out.                                                               *)
(***************************************************************************)
EXTENDS Naturals, Sequences

CONSTANTS
  Books,    (* the ledgers                                                  *)
  Ids       (* the documents                                                *)

VARIABLE
  page      (* page[b] : the documents entered in book b, in page order     *)

Entered(i) == \E b \in Books : \E n \in DOMAIN page[b] : page[b][n] = i

LedgerInit == page = [b \in Books |-> << >>]

EnterDocument(b, i) ==
  /\ ~Entered(i)
  /\ page' = [page EXCEPT ![b] = Append(@, i)]

LedgerNext == \E b \in Books, i \in Ids : EnterDocument(b, i)

LedgerSpec == LedgerInit /\ [][LedgerNext]_page

=============================================================================
