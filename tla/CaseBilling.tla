----------------------------- MODULE CaseBilling -----------------------------
(***************************************************************************)
(* The billing of one case: BillingGatewayService over the invoices of the *)
(* case, the billing status of the case and that of one intervention.      *)
(*                                                                         *)
(* Each call of the gateway prepares and writes an invoice, then derives   *)
(* the status of the case from the invoices it lists, then that of the     *)
(* intervention the invoice bills: three collections, written in turn.     *)
(* The numbers of the invoices are the matter of Invoices; here an invoice *)
(* has an amount, in units of which the quote of the case is QuoteTotal.   *)
(***************************************************************************)
EXTENDS Integers, Sequences, FiniteSetsExt

CONSTANTS
  Requests,     (* requests that may be in flight at the same time          *)
  QuoteTotal,   (* totalHt of the quote of the case                         *)
  MaxCustom,    (* bound on the amount of an invoice of free lines          *)
  MaxInvoices,  (* bound on the invoices of the case                        *)
  MaxAborts     (* bound on the requests stopped between two awaits         *)

ASSUME CaseBillingAssumption ==
  /\ QuoteTotal \in Nat \ {0}
  /\ {MaxCustom, MaxInvoices, MaxAborts} \subseteq Nat

VARIABLES
  accepted,     (* quotes: the quote is accepted                            *)
  billing,      (* cases: billingStatus                                     *)
  work,         (* interventions: billingStatus                             *)
  invoices,     (* invoices of the case, in the order of their creation     *)
  pc,           (* requests: the await a request is at                      *)
  op,           (* requests: what was asked and what was read               *)
  aborts,       (* requests stopped so far                                  *)
  stale         (* since a stop or an edit no request has derived `billing` *)

vars == <<accepted, billing, work, invoices, pc, op, aborts, stale>>

BillingStatuses == {"none", "to_invoice", "invoice_draft", "partially_invoiced",
                    "invoiced", "paid"}
Rank(b) == CASE b = "none"               -> 0
             [] b = "to_invoice"         -> 1
             [] b = "invoice_draft"      -> 2
             [] b = "partially_invoiced" -> 3
             [] b = "invoiced"           -> 4
             [] b = "paid"               -> 5

InvoiceStatuses == {"draft", "finalized", "paid", "cancelled"}
FromQuote       == {"full", "situation", "deposit", "balance"}
Invoice == [status: InvoiceStatuses, deleted: BOOLEAN, amount: Int,
            quoted: BOOLEAN, situation: Nat, work: BOOLEAN]
Op == [kind: FromQuote \cup {"custom", "credit", "none"},
       id: Nat,                          (* the invoice                     *)
       status: InvoiceStatuses,          (* its status once saved           *)
       work: BOOLEAN,                    (* it bills the intervention       *)
       already: Int, situation: Nat,     (* read by prepareInvoice          *)
       total: Nat,                       (* the quote to derive from        *)
       billing: BillingStatuses,         (* read of the case                *)
       next: BillingStatuses]            (* to be written                   *)
NoOp == [kind |-> "none", id |-> 0, status |-> "draft", work |-> FALSE,
         already |-> 0, situation |-> 0, total |-> QuoteTotal,
         billing |-> "none", next |-> "none"]

TypeOK ==
  /\ accepted \in BOOLEAN
  /\ billing \in BillingStatuses
  /\ work \in BillingStatuses
  /\ invoices \in Seq(Invoice)
  /\ pc \in [Requests -> {"idle", "list", "insert", "finalize", "pay", "cancel",
                          "credit", "recompute", "weigh", "apply", "sync",
                          "mark", "accept", "toInvoice"}]
  /\ op \in [Requests -> Op]
  /\ aborts \in Nat
  /\ stale \in BOOLEAN

Init ==
  /\ accepted = FALSE
  /\ billing = "none"
  /\ work = "none"
  /\ invoices = << >>
  /\ pc = [r \in Requests |-> "idle"]
  /\ op = [r \in Requests |-> NoOp]
  /\ aborts = 0
  /\ stale = FALSE

-----------------------------------------------------------------------------
(* Vocabulary of the operations.                                           *)

Quiet == \A r \in Requests : pc[r] = "idle"

Enter(r, p, o) ==
  /\ pc[r] = "idle"
  /\ pc' = [pc EXCEPT ![r] = p]
  /\ op' = [op EXCEPT ![r] = o]

Advance(r, from, to) ==
  /\ pc[r] = from
  /\ pc' = [pc EXCEPT ![r] = to]

Leave(r, from) ==
  /\ Advance(r, from, "idle")
  /\ op' = [op EXCEPT ![r] = NoOp]

Allowing == {"to_invoice", "invoice_draft", "partially_invoiced"}

Found(i)  == i \in DOMAIN invoices /\ ~invoices[i].deleted
Issued(i) == invoices[i].status \in {"finalized", "paid"}

(* listInvoices finds what is not soft-deleted.                            *)
Listed == {i \in DOMAIN invoices : Found(i)}
Active == {i \in Listed : invoices[i].status # "cancelled"}
Sum(I) == SumFunctionOnSet([i \in DOMAIN invoices |-> invoices[i].amount], I)

(* What is invoiced of the quote, drafts included.                         *)
Quoted           == {i \in Active : invoices[i].quoted}
AlreadyIssued    == Sum({i \in Quoted : Issued(i)})   \* slip of AlreadyInvoiced
AlreadyInvoiced  == Sum(Quoted)

Situations      == {i \in Quoted : invoices[i].situation > 0}
CountSituations == Cardinality(Situations) + 1        \* slip of NextSituation
NextSituation   == Max({invoices[i].situation : i \in Situations} \cup {0}) + 1

(* buildInvoiceLinesFromQuote: the amounts an invoice of a kind may have.  *)
Amounts(kind, already) ==
  LET remaining == IF QuoteTotal > already THEN QuoteTotal - already ELSE 0
  IN  CASE kind = "full"    -> IF already > 0 THEN {} ELSE {QuoteTotal}
        [] kind = "balance" -> IF remaining > 0 THEN {remaining} ELSE {}
        [] kind = "custom"  -> 1..MaxCustom
        [] OTHER            -> 1..remaining

(* aggregateCaseBillingStatus, of at least one active invoice.             *)
Aggregate(total) ==
  LET issued    == {i \in Active : Issued(i)}
      remaining == total > 0 /\ total > Sum(issued)
      allPaid   == \A i \in Active : invoices[i].status = "paid"
  IN  CASE allPaid /\ ~remaining         -> "paid"
        [] remaining /\ issued # {}      -> "partially_invoiced"
        [] issued = Active /\ ~remaining -> "invoiced"
        [] OTHER                         -> "invoice_draft"

(* interventionBillingStatusFromInvoice                                    *)
WorkStatus(status) == CASE status = "draft"     -> "invoice_draft"
                        [] status = "finalized" -> "invoiced"
                        [] status = "paid"      -> "paid"
                        [] status = "cancelled" -> "to_invoice"

-----------------------------------------------------------------------------
(* createInvoice.  prepareInvoice reads the case and, for an invoice from  *)
(* the quote, lists the invoices ...                                       *)
CreateRead(r, kind, status, bills) ==
  /\ billing \in Allowing \/ (kind = "custom" /\ billing = "none")
  /\ bills => kind = "custom"
  /\ Enter(r, IF kind = "custom" THEN "insert" ELSE "list",
           [NoOp EXCEPT !.kind = kind, !.status = status, !.work = bills,
                        !.total = IF kind = "custom" THEN 0 ELSE QuoteTotal])
  /\ UNCHANGED <<accepted, billing, work, invoices, aborts, stale>>

CreateList(r) ==
  /\ Advance(r, "list", "insert")
  /\ op' = [op EXCEPT ![r].already = AlreadyInvoiced,
                      ![r].situation = IF op[r].kind = "situation"
                                       THEN NextSituation ELSE 0]
  /\ UNCHANGED <<accepted, billing, work, invoices, aborts, stale>>

(* ... then reads the quote, which once accepted stays so, and inserts.    *)
Accepts(r) == op[r].kind = "custom" \/ accepted

CreateInsert(r) ==
  /\ Len(invoices) < MaxInvoices
  /\ Accepts(r)
  /\ Advance(r, "insert", "recompute")
  /\ \E amount \in Amounts(op[r].kind, op[r].already) :
       invoices' = Append(invoices,
         [status |-> op[r].status, deleted |-> FALSE, amount |-> amount,
          quoted |-> op[r].kind # "custom", situation |-> op[r].situation,
          work |-> op[r].work])
  /\ op' = [op EXCEPT ![r].id = Len(invoices) + 1]
  /\ UNCHANGED <<accepted, billing, work, aborts, stale>>

CreateRefused(r) ==
  /\ ~Accepts(r) \/ Amounts(op[r].kind, op[r].already) = {}
  /\ Leave(r, "insert")
  /\ UNCHANGED <<accepted, billing, work, invoices, aborts, stale>>

-----------------------------------------------------------------------------
(* finalizeInvoice, markPaid and cancelInvoice read and check the invoice, *)
(* then save it.                                                           *)
Target(i, status) == [NoOp EXCEPT !.id = i, !.status = status,
                                  !.work = invoices[i].work]

Save(r, from, changed) ==
  /\ Advance(r, from, "recompute")
  /\ invoices' = [invoices EXCEPT ![op[r].id] = changed]
  /\ UNCHANGED <<accepted, billing, work, op, aborts, stale>>

FinalizeRead(r, i) ==
  /\ Found(i)
  /\ invoices[i].status = "draft"
  /\ Enter(r, "finalize", Target(i, "finalized"))
  /\ UNCHANGED <<accepted, billing, work, invoices, aborts, stale>>

FinalizeSave(r) ==
  Save(r, "finalize", [invoices[op[r].id] EXCEPT !.status = "finalized"])

(* The save of an invoice read as paid writes nothing.                     *)
MarkPaidRead(r, i) ==
  /\ Found(i)
  /\ Issued(i)
  /\ Enter(r, IF invoices[i].status = "paid" THEN "recompute" ELSE "pay",
           Target(i, "paid"))
  /\ UNCHANGED <<accepted, billing, work, invoices, aborts, stale>>

MarkPaidSave(r) ==
  Save(r, "pay", [invoices[op[r].id] EXCEPT !.status = "paid"])

CancelRead(r, i) ==
  /\ Found(i)
  /\ ~Issued(i)
  /\ Enter(r, "cancel", Target(i, "cancelled"))
  /\ UNCHANGED <<accepted, billing, work, invoices, aborts, stale>>

CancelSave(r) ==
  Save(r, "cancel", [invoices[op[r].id] EXCEPT !.status = "cancelled",
                                               !.deleted = TRUE])

(* creditInvoice inserts a document of a negative amount, which bills no   *)
(* intervention.  That the original is read twice is left to Invoices.     *)
CreditRead(r, i) ==
  /\ Found(i)
  /\ Issued(i)
  /\ Enter(r, "credit", [NoOp EXCEPT !.kind = "credit", !.id = i,
                                     !.status = "finalized"])
  /\ UNCHANGED <<accepted, billing, work, invoices, aborts, stale>>

CreditInsert(r) ==
  LET original == invoices[op[r].id]
      size == IF original.amount < 0 THEN -original.amount ELSE original.amount
  IN  /\ Len(invoices) < MaxInvoices
      /\ Advance(r, "credit", "recompute")
      /\ \E amount \in 1..size :
           invoices' = Append(invoices,
             [status |-> "finalized", deleted |-> FALSE, amount |-> -amount,
              quoted |-> original.quoted, situation |-> 0, work |-> FALSE])
      /\ UNCHANGED <<accepted, billing, work, op, aborts, stale>>

-----------------------------------------------------------------------------
(* recomputeCaseBillingStatus reads the case, lists the invoices, and      *)
(* writes the derived status unless it would go back.                      *)
AfterBilling(r, from) ==
  IF op[r].work THEN Advance(r, from, "sync") /\ UNCHANGED op
                ELSE Leave(r, from)

RecomputeRead(r) ==
  /\ Advance(r, "recompute", "weigh")
  /\ op' = [op EXCEPT ![r].billing = billing]
  /\ UNCHANGED <<accepted, billing, work, invoices, aborts, stale>>

NextStep(current, next)  == Rank(next) = Rank(current) + 1 \* slip of MayApply
MayApply(current, next) ==
  \/ Rank(next) > Rank(current)
  \/ current = "to_invoice" /\ next # current
  \/ current = "invoice_draft" /\ next = "partially_invoiced"

RecomputeList(r) ==
  LET next == Aggregate(op[r].total)
  IN  /\ IF Active # {} /\ MayApply(op[r].billing, next)
         THEN /\ Advance(r, "weigh", "apply")
              /\ op' = [op EXCEPT ![r].next = next]
              /\ UNCHANGED stale
         ELSE /\ AfterBilling(r, "weigh")
              /\ stale' = FALSE
      /\ UNCHANGED <<accepted, billing, work, invoices, aborts>>

RecomputeApply(r) ==
  /\ AfterBilling(r, "apply")
  /\ billing' = op[r].next
  /\ stale' = FALSE
  /\ UNCHANGED <<accepted, work, invoices, aborts>>

-----------------------------------------------------------------------------
(* syncInterventionBillingStatuses follows an invoice forward ...          *)
SyncForward(r) ==
  LET next == WorkStatus(op[r].status)
  IN  /\ op[r].status # "cancelled"
      /\ IF Rank(next) > Rank(work)
         THEN Advance(r, "sync", "mark") /\ op' = [op EXCEPT ![r].next = next]
         ELSE Leave(r, "sync")
      /\ UNCHANGED <<accepted, billing, work, invoices, aborts, stale>>

(* ... and, when a draft is cancelled, back to the newest other invoice.   *)
BackToLifecycle(id) ==                                     \* slips of BackTo
  LET others == {i \in Active \ {id} : invoices[i].work}
  IN  IF others = {} THEN "to_invoice" ELSE invoices[Max(others)].status
BackToInvoice(id) == "to_invoice"
BackTo(id) ==
  LET others == {i \in Active \ {id} : invoices[i].work}
  IN  IF others = {} THEN "to_invoice"
                     ELSE WorkStatus(invoices[Max(others)].status)

SyncBack(r) ==
  /\ op[r].status = "cancelled"
  /\ Advance(r, "sync", "mark")
  /\ op' = [op EXCEPT ![r].next = BackTo(op[r].id)]
  /\ UNCHANGED <<accepted, billing, work, invoices, aborts, stale>>

Mark(r) ==
  /\ Leave(r, "mark")
  /\ work' = op[r].next
  /\ UNCHANGED <<accepted, billing, invoices, aborts, stale>>

-----------------------------------------------------------------------------
(* updateQuote to accepted, then the case if it is not yet to invoice.     *)
AcceptQuote(r) ==
  /\ Enter(r, "accept", NoOp)
  /\ accepted' = TRUE
  /\ UNCHANGED <<billing, work, invoices, aborts, stale>>

AcceptRead(r) ==
  /\ IF billing = "none" THEN Advance(r, "accept", "toInvoice") /\ UNCHANGED op
                         ELSE Leave(r, "accept")
  /\ UNCHANGED <<accepted, billing, work, invoices, aborts, stale>>

AcceptWrite(r) ==
  /\ Leave(r, "toInvoice")
  /\ billing' = "to_invoice"
  /\ UNCHANGED <<accepted, work, invoices, aborts, stale>>

(* updateCase by a user, who may set any status.                           *)
EditBilling(r, b) ==
  /\ pc[r] = "idle"
  /\ billing' = b
  /\ stale' = TRUE
  /\ UNCHANGED <<accepted, work, invoices, pc, op, aborts>>

(* An exception or a restart stops a request; what it wrote stays.         *)
Abort(r) ==
  /\ aborts < MaxAborts
  /\ pc[r] # "idle"
  /\ Leave(r, pc[r])
  /\ aborts' = aborts + 1
  /\ stale' = TRUE
  /\ UNCHANGED <<accepted, billing, work, invoices>>

-----------------------------------------------------------------------------
Call(r) ==
  \/ \E kind \in FromQuote \cup {"custom"}, status \in {"draft", "finalized"},
        bills \in BOOLEAN : CreateRead(r, kind, status, bills)
  \/ \E i \in DOMAIN invoices : \/ FinalizeRead(r, i)
                                \/ MarkPaidRead(r, i)
                                \/ CancelRead(r, i)
                                \/ CreditRead(r, i)
  \/ AcceptQuote(r)
  \/ \E b \in BillingStatuses : EditBilling(r, b)

Continue(r) ==
  \/ CreateList(r)
  \/ CreateInsert(r)
  \/ CreateRefused(r)
  \/ FinalizeSave(r)
  \/ MarkPaidSave(r)
  \/ CancelSave(r)
  \/ CreditInsert(r)
  \/ RecomputeRead(r)
  \/ RecomputeList(r)
  \/ RecomputeApply(r)
  \/ SyncForward(r)
  \/ SyncBack(r)
  \/ Mark(r)
  \/ AcceptRead(r)
  \/ AcceptWrite(r)

Next == \E r \in Requests : Call(r) \/ Continue(r) \/ Abort(r)

Spec == Init /\ [][Next]_vars

-----------------------------------------------------------------------------
(***************************************************************************)
(* Properties of requests that do not overlap, even if one is stopped.     *)
(***************************************************************************)

(* openspec client-invoicing: situations are numbered in turn, per quote.  *)
(* No two active ones share a number, cancelled drafts notwithstanding.    *)
SituationsDistinct ==
  \A i, j \in Situations :
    invoices[i].situation = invoices[j].situation => i = j

(* The quote is not invoiced beyond its total: full invoices, situations,  *)
(* deposits, balances and credit notes, drafts included, net of credits.   *)
QuoteNotExceeded == AlreadyInvoiced <= QuoteTotal

(* recomputeCaseBillingStatus catches up: once a request has derived it    *)
(* after a stop or an edit, the status of the case is not behind what its  *)
(* invoices say, be the rest of the quote known to the caller or not.      *)
BillingCaughtUp ==
  Quiet /\ ~stale /\ Active # {} =>
    \/ Rank(billing) >= Rank(Aggregate(0))
    \/ Rank(billing) >= Rank(Aggregate(QuoteTotal))

(* An intervention that an active invoice bills is not offered again for   *)
(* invoicing, and one that none bills any more is.                         *)
WorkOffered ==
  Quiet /\ aborts = 0 =>
    (work \in {"none", "to_invoice"} <=> \A i \in Active : ~invoices[i].work)

=============================================================================
