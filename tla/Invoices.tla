------------------------------ MODULE Invoices ------------------------------
(***************************************************************************)
(* The local billing engine of one organization: InvoicesService of        *)
(* domain/billing over the MongoDB collections `invoices` and              *)
(* `invoice_sequences`.                                                    *)
(*                                                                         *)
(* There is no transaction: an operation is a request that reads a         *)
(* document, checks it, and some awaits later writes it back by _id.  The  *)
(* steps between two awaits are the actions below, so that the requests of *)
(* several users interleave as they do in Node and an exception or a       *)
(* restart may stop a request between any two of them (Abort).             *)
(*                                                                         *)
(* A field of the invoice document is a function over the invoice          *)
(* identifiers; lines, parties and amounts, which no operation changes     *)
(* after creation, are left out.                                           *)
(***************************************************************************)
EXTENDS Naturals, Sequences

CONSTANTS
  Requests,    (* requests that may be in flight at the same time           *)
  Ids,         (* document identifiers, used and not yet used               *)
  MaxYear,     (* years the clock may run through                           *)
  MaxSends,    (* bound on the e-mails sent                                 *)
  MaxAborts,   (* bound on the requests stopped between two awaits          *)
  NoNumber,    (* `number` is undefined                                     *)
  NoInvoice    (* `creditedInvoiceId` is undefined                          *)

Series == {"F", "A"}
Years  == 1..MaxYear
Number == [series: Series, year: Years, seq: Nat \ {0}]

ASSUME InvoicesAssumption ==
  /\ MaxYear \in Nat \ {0}
  /\ MaxSends \in Nat
  /\ MaxAborts \in Nat
  /\ NoNumber \notin Number
  /\ NoInvoice \notin Ids

VARIABLES
  year,         (* the UTC year                                             *)
  lastNumber,   (* invoice_sequences: the counter of each series and year   *)
  status,       (* invoices: "absent" while the identifier is unused        *)
  number,       (* invoices: the fiscal number                              *)
  deleted,      (* invoices: deletedAt is set                               *)
  credited,     (* invoices: creditedInvoiceId                              *)
  emailSends,   (* invoices: the log of the sends                           *)
  version,      (* invoices: __v, which mongoose keeps for array writes     *)
  pc,           (* requests: the await a request is at                      *)
  doc,          (* requests: the document it has read                       *)
  held,         (* requests: the number it has allocated                    *)
  seen,         (* requests: emailSends and __v as it has read them         *)
  entry,        (* requests: the log entry it is about to save              *)
  mails,        (* mail server: the sends it accepted, by invoice           *)
  sends,        (* sends tried so far, the timestamp of a log entry         *)
  aborts        (* requests stopped so far                                  *)

docVars == <<status, number, deleted, credited, emailSends, version>>
reqVars == <<doc, held, seen, entry>>
logVars == <<mails, sends>>
vars    == <<year, lastNumber, docVars, pc, reqVars, logVars, aborts>>

Statuses == {"absent", "draft", "finalized", "paid", "cancelled"}
Entry    == [at: Nat, sent: BOOLEAN]
Steps    == {"idle", "finalize", "saveNumber", "savePaid", "saveCancel",
             "recheck", "allocateCredit", "create", "mail", "log"}

TypeOK ==
  /\ year \in Years
  /\ lastNumber \in [Series -> [Years -> Nat]]
  /\ status \in [Ids -> Statuses]
  /\ number \in [Ids -> Number \cup {NoNumber}]
  /\ deleted \in [Ids -> BOOLEAN]
  /\ credited \in [Ids -> Ids \cup {NoInvoice}]
  /\ emailSends \in [Ids -> Seq(Entry)]
  /\ version \in [Ids -> Nat]
  /\ pc \in [Requests -> Steps]
  /\ doc \in [Requests -> Ids \cup {NoInvoice}]
  /\ held \in [Requests -> Number \cup {NoNumber}]
  /\ seen \in [Requests -> [log: Seq(Entry), version: Nat]]
  /\ entry \in [Requests -> Entry]
  /\ mails \in [Ids -> SUBSET Nat]
  /\ sends \in Nat
  /\ aborts \in Nat

NothingSeen == [log |-> << >>, version |-> 0]
NoEntry     == [at |-> 0, sent |-> FALSE]

Init ==
  /\ year = 1
  /\ lastNumber = [s \in Series |-> [y \in Years |-> 0]]
  /\ status = [i \in Ids |-> "absent"]
  /\ number = [i \in Ids |-> NoNumber]
  /\ deleted = [i \in Ids |-> FALSE]
  /\ credited = [i \in Ids |-> NoInvoice]
  /\ emailSends = [i \in Ids |-> << >>]
  /\ version = [i \in Ids |-> 0]
  /\ pc = [r \in Requests |-> "idle"]
  /\ doc = [r \in Requests |-> NoInvoice]
  /\ held = [r \in Requests |-> NoNumber]
  /\ seen = [r \in Requests |-> NothingSeen]
  /\ entry = [r \in Requests |-> NoEntry]
  /\ mails = [i \in Ids |-> {}]
  /\ sends = 0
  /\ aborts = 0

-----------------------------------------------------------------------------
(* Vocabulary of the operations.                                           *)

(* requireInvoice finds a document that exists and is not soft-deleted.    *)
Found(i) == status[i] # "absent" /\ ~deleted[i]

(* The statuses that may be credited and sent.                             *)
IssuedOrDraft(i) == status[i] # "cancelled"                \* slip of Issued
Issued(i)        == status[i] \in {"finalized", "paid"}

(* What cancelInvoice accepts: neither paid nor finalized.                 *)
NotPaid(i)     == status[i] # "paid"                       \* slip of Cancellable
Cancellable(i) == status[i] \notin {"finalized", "paid"}

(* A credit note is the document that references another one.              *)
SeriesOf(i) == IF credited[i] = NoInvoice THEN "F" ELSE "A"

(* Slips of AllocateNumber: the pre-image of the counter is read back      *)
(* (`new: true` forgotten), with and without the `?? 1` of the first       *)
(* number, and one counter serves all years.                               *)
AllocateFromZero(r, s) ==
  LET n == lastNumber[s][year]
  IN  /\ lastNumber' = [lastNumber EXCEPT ![s][year] = n + 1]
      /\ held' = [held EXCEPT ![r] = [series |-> s, year |-> year, seq |-> n]]
AllocateOldNumber(r, s) ==
  LET n == lastNumber[s][year]
  IN  /\ lastNumber' = [lastNumber EXCEPT ![s][year] = n + 1]
      /\ held' = [held EXCEPT ![r] = [series |-> s, year |-> year,
                                      seq |-> IF n = 0 THEN 1 ELSE n]]
AllocateAcrossYears(r, s) ==
  LET n == lastNumber[s][1] + 1
  IN  /\ lastNumber' = [lastNumber EXCEPT ![s][1] = n]
      /\ held' = [held EXCEPT ![r] = [series |-> s, year |-> year, seq |-> n]]

(* allocateNumber: findOneAndUpdate($inc, upsert) on the counter of the    *)
(* series and current year.  The migration's unique index on               *)
(* organization, series and year makes the upsert atomic.                  *)
AllocateNumber(r, s) ==
  LET n == lastNumber[s][year] + 1
  IN  /\ lastNumber' = [lastNumber EXCEPT ![s][year] = n]
      /\ held' = [held EXCEPT ![r] = [series |-> s, year |-> year, seq |-> n]]

(* Request r reads document i and waits at step p.                         *)
Enter(r, i, p) ==
  /\ pc[r] = "idle"
  /\ pc' = [pc EXCEPT ![r] = p]
  /\ doc' = [doc EXCEPT ![r] = i]

Advance(r, from, to) ==
  /\ pc[r] = from
  /\ pc' = [pc EXCEPT ![r] = to]

(* The request has answered: its locals are gone.                          *)
Leave(r, from) ==
  /\ Advance(r, from, "idle")
  /\ doc' = [doc EXCEPT ![r] = NoInvoice]
  /\ held' = [held EXCEPT ![r] = NoNumber]
  /\ seen' = [seen EXCEPT ![r] = NothingSeen]
  /\ entry' = [entry EXCEPT ![r] = NoEntry]

-----------------------------------------------------------------------------
(* createInvoice, draft: one insert.                                       *)
CreateDraft(i) ==
  /\ status[i] = "absent"
  /\ status' = [status EXCEPT ![i] = "draft"]
  /\ UNCHANGED <<year, lastNumber, number, deleted, credited, emailSends,
                 version, pc, reqVars, logVars, aborts>>

(* createInvoice, `draft: false`: the number is allocated while the        *)
(* document to insert is being built.                                      *)
IssueAllocate(r) ==
  /\ Enter(r, NoInvoice, "create")
  /\ AllocateNumber(r, "F")
  /\ UNCHANGED <<year, docVars, seen, entry, logVars, aborts>>

(* createInvoice: the insert of an issued document.  For a credit note     *)
(* doc[r] is the invoice it references.                                    *)
CreateIssued(r) ==
  \E i \in Ids :
    /\ status[i] = "absent"
    /\ Leave(r, "create")
    /\ status' = [status EXCEPT ![i] = "finalized"]
    /\ number' = [number EXCEPT ![i] = held[r]]
    /\ credited' = [credited EXCEPT ![i] = doc[r]]
    /\ UNCHANGED <<year, lastNumber, deleted, emailSends, version, logVars,
                   aborts>>

(* finalizeInvoice: the read and the check ...                             *)
FinalizeRead(r, i) ==
  /\ Found(i)
  /\ status[i] = "draft"
  /\ Enter(r, i, "finalize")
  /\ UNCHANGED <<year, lastNumber, docVars, held, seen, entry, logVars, aborts>>

(* ... the allocation ...                                                  *)
FinalizeAllocate(r) ==
  /\ Advance(r, "finalize", "saveNumber")
  /\ AllocateNumber(r, SeriesOf(doc[r]))
  /\ UNCHANGED <<year, docVars, doc, seen, entry, logVars, aborts>>

(* ... and doc.save(), which writes the modified fields by _id, whatever   *)
(* the document has become since the read.                                 *)
FinalizeSave(r) ==
  /\ Leave(r, "saveNumber")
  /\ status' = [status EXCEPT ![doc[r]] = "finalized"]
  /\ number' = [number EXCEPT ![doc[r]] = held[r]]
  /\ UNCHANGED <<year, lastNumber, deleted, credited, emailSends, version,
                 logVars, aborts>>

(* markPaid.  On a document read as paid the assignment changes nothing    *)
(* and save() writes nothing: only the finalized ones matter.              *)
MarkPaidRead(r, i) ==
  /\ Found(i)
  /\ status[i] = "finalized"
  /\ Enter(r, i, "savePaid")
  /\ UNCHANGED <<year, lastNumber, docVars, held, seen, entry, logVars, aborts>>

MarkPaidSave(r) ==
  /\ Leave(r, "savePaid")
  /\ status' = [status EXCEPT ![doc[r]] = "paid"]
  /\ UNCHANGED <<year, lastNumber, number, deleted, credited, emailSends,
                 version, logVars, aborts>>

(* cancelInvoice refuses paid and finalized documents.                     *)
CancelRead(r, i) ==
  /\ Found(i)
  /\ Cancellable(i)
  /\ Enter(r, i, "saveCancel")
  /\ UNCHANGED <<year, lastNumber, docVars, held, seen, entry, logVars, aborts>>

CancelSaveFreeing(r) ==                                    \* slip of CancelSave
  /\ Leave(r, "saveCancel")
  /\ status' = [status EXCEPT ![doc[r]] = "cancelled"]
  /\ deleted' = [deleted EXCEPT ![doc[r]] = TRUE]
  /\ number' = [number EXCEPT ![doc[r]] = NoNumber]
  /\ UNCHANGED <<year, lastNumber, credited, emailSends, version, logVars,
                 aborts>>

CancelSave(r) ==
  /\ Leave(r, "saveCancel")
  /\ status' = [status EXCEPT ![doc[r]] = "cancelled"]
  /\ deleted' = [deleted EXCEPT ![doc[r]] = TRUE]
  /\ UNCHANGED <<year, lastNumber, number, credited, emailSends, version,
                 logVars, aborts>>

(* creditInvoice reads and checks the original, createInvoice reads and    *)
(* checks it again, then allocates in series A and inserts (CreateIssued). *)
CreditRead(r, i) ==
  /\ Found(i)
  /\ Issued(i)
  /\ Enter(r, i, "recheck")
  /\ UNCHANGED <<year, lastNumber, docVars, held, seen, entry, logVars, aborts>>

CreditRecheck(r) ==
  /\ Advance(r, "recheck", "allocateCredit")
  /\ Found(doc[r])
  /\ Issued(doc[r])
  /\ UNCHANGED <<year, lastNumber, docVars, reqVars, logVars, aborts>>

CreditRefused(r) ==
  /\ Leave(r, "recheck")
  /\ ~(Found(doc[r]) /\ Issued(doc[r]))
  /\ UNCHANGED <<year, lastNumber, docVars, logVars, aborts>>

CreditAllocate(r) ==
  /\ Advance(r, "allocateCredit", "create")
  /\ AllocateNumber(r, "A")
  /\ UNCHANGED <<year, docVars, doc, seen, entry, logVars, aborts>>

(* sendInvoice reads the document, its log and its version ...             *)
SendRead(r, i) ==
  /\ Found(i)
  /\ Issued(i)
  /\ Enter(r, i, "mail")
  /\ seen' = [seen EXCEPT ![r] = [log |-> emailSends[i],
                                  version |-> version[i]]]
  /\ UNCHANGED <<year, lastNumber, docVars, held, entry, logVars, aborts>>

(* ... hands the e-mail to the mail server, which takes it or not ...      *)
LogEntry(at, sent)  == [at |-> at, sent |-> sent]

SendMail(r) ==
  /\ sends < MaxSends
  /\ Advance(r, "mail", "log")
  /\ sends' = sends + 1
  /\ \E sent \in BOOLEAN :
       /\ entry' = [entry EXCEPT ![r] = LogEntry(sends', sent)]
       /\ mails' = IF sent
                   THEN [mails EXCEPT ![doc[r]] = @ \cup {sends'}]
                   ELSE mails
  /\ UNCHANGED <<year, lastNumber, docVars, doc, held, seen, aborts>>

(* ... and saves the log it read with the new entry.  As a whole array is  *)
(* assigned, mongoose matches __v and increments it: when another send has *)
(* saved in between, save() throws a VersionError and writes nothing.      *)
AnyVersion(r)       == TRUE                                \* slips of SaveAccepted:
SentWithVersion(r)  == /\ entry[r].sent                    \* no __v, failures thrown
                       /\ version[doc[r]] = seen[r].version \* before the save
SaveAccepted(r)     == version[doc[r]] = seen[r].version

SendLog(r) ==
  LET i == doc[r]
  IN  /\ Leave(r, "log")
      /\ IF SaveAccepted(r)
         THEN /\ emailSends' = [emailSends EXCEPT
                                  ![i] = Append(seen[r].log, entry[r])]
              /\ version' = [version EXCEPT ![i] = @ + 1]
         ELSE UNCHANGED <<emailSends, version>>
      /\ UNCHANGED <<year, lastNumber, status, number, deleted, credited,
                     logVars, aborts>>

(* An exception or a restart stops a request; what it wrote stays.         *)
Abort(r) ==
  /\ aborts < MaxAborts
  /\ pc[r] # "idle"
  /\ aborts' = aborts + 1
  /\ Leave(r, pc[r])
  /\ UNCHANGED <<year, lastNumber, docVars, logVars>>

(* New Year, in UTC.                                                       *)
NewYear ==
  /\ year < MaxYear
  /\ year' = year + 1
  /\ UNCHANGED <<lastNumber, docVars, pc, reqVars, logVars, aborts>>

-----------------------------------------------------------------------------
(* What a user's call starts, and what a started request does next.        *)
Call(r, i) ==
  \/ FinalizeRead(r, i)
  \/ MarkPaidRead(r, i)
  \/ CancelRead(r, i)
  \/ CreditRead(r, i)
  \/ SendRead(r, i)

Continue(r) ==
  \/ CreateIssued(r)
  \/ FinalizeAllocate(r)
  \/ FinalizeSave(r)
  \/ MarkPaidSave(r)
  \/ CancelSave(r)
  \/ CreditRecheck(r)
  \/ CreditRefused(r)
  \/ CreditAllocate(r)
  \/ SendMail(r)
  \/ SendLog(r)

Next ==
  \/ NewYear
  \/ \E i \in Ids : CreateDraft(i)
  \/ \E r \in Requests : \/ IssueAllocate(r)
                         \/ Continue(r)
                         \/ Abort(r)
                         \/ \E i \in Ids : Call(r, i)

Spec == Init /\ [][Next]_vars

-----------------------------------------------------------------------------
(***************************************************************************)
(* Properties that hold whatever the requests in flight do.                *)
(***************************************************************************)

(* allocateNumber never serves the same number twice: two documents, or a  *)
(* document and a request about to save one, never share a number.  The    *)
(* unique index on `number`, which the model does not have, never fires.   *)
NumbersUnique ==
  /\ \A i, j \in Ids :
       number[i] = number[j] /\ number[i] # NoNumber => i = j
  /\ \A i \in Ids, r \in Requests :
       number[i] = held[r] => number[i] = NoNumber
  /\ \A q, r \in Requests :
       held[q] = held[r] /\ held[q] # NoNumber => q = r

(* Whatever is written over it, a document that carries a fiscal number    *)
(* carries one for ever and never becomes a draft again: cancelInvoice     *)
(* frees no number even when it overtakes a finalization.                  *)
NumberNeverFreed ==
  [][\A i \in Ids : number[i] # NoNumber =>
       /\ number'[i] # NoNumber
       /\ status'[i] # "draft"]_vars

(* A credit note references a document that carries a fiscal number, even  *)
(* if the original changed between the two checks and the insert.          *)
CreditNotesOfNumbered ==
  \A i \in Ids : credited[i] # NoInvoice =>
    number[credited[i]] # NoNumber /\ number[i].series = "A"

(* The send log only grows: no send, resend or cancellation removes or     *)
(* rewrites an entry, although every send saves the whole array.           *)
SendLogAppendOnly ==
  [][\A i \in Ids :
       /\ Len(emailSends[i]) <= Len(emailSends'[i])
       /\ \A k \in 1..Len(emailSends[i]) :
            emailSends'[i][k] = emailSends[i][k]]_vars

(* The log of an invoice tells the truth: an entry marked as sent is an    *)
(* e-mail the server took for that invoice, which carries a number.        *)
LoggedSendsHappened ==
  \A i \in Ids : \A k \in 1..Len(emailSends[i]) :
    emailSends[i][k].sent =>
      emailSends[i][k].at \in mails[i] /\ number[i] # NoNumber

(***************************************************************************)
(* Why they hold: the invariant that every step preserves.                 *)
(***************************************************************************)

(* A number was handed out if its counter has reached it.                  *)
HandedOut(n) == n.seq <= lastNumber[n.series][n.year]

(* An identifier that is not used yet has no number and credits nothing;   *)
(* an issued document has a number, a draft has none, and every number on  *)
(* a document was handed out.                                              *)
DocumentsInv ==
  \A i \in Ids :
    /\ status[i] = "absent" => number[i] = NoNumber /\ credited[i] = NoInvoice
    /\ Issued(i) => number[i] # NoNumber
    /\ number[i] # NoNumber => status[i] # "draft" /\ HandedOut(number[i])

(* What a request still knows of its document at each of its awaits: what  *)
(* it has read may be out of date, but that a document exists, which       *)
(* series it belongs to and that it carries a number are facts no other    *)
(* request undoes.                                                         *)
RequestInv(r) ==
  /\ held[r] # NoNumber => HandedOut(held[r])
  /\ pc[r] \in {"saveNumber", "create"} => held[r] # NoNumber
  /\ pc[r] \in {"finalize", "saveNumber", "savePaid", "saveCancel"} =>
       doc[r] \in Ids /\ status[doc[r]] # "absent"
  /\ pc[r] = "saveNumber" => held[r].series = SeriesOf(doc[r])
  /\ pc[r] \in {"savePaid", "recheck", "allocateCredit", "mail", "log"} =>
       doc[r] \in Ids /\ number[doc[r]] # NoNumber
  /\ pc[r] = "create" /\ doc[r] # NoInvoice =>
       number[doc[r]] # NoNumber /\ held[r].series = "A"

(* A send that may still be saved has read the log as it is: the log it    *)
(* writes back is the current one and its own entry.                       *)
SendInv(r) ==
  /\ pc[r] \in {"mail", "log"} =>
       /\ seen[r].version <= version[doc[r]]
       /\ seen[r].version = version[doc[r]] => seen[r].log = emailSends[doc[r]]
  /\ pc[r] = "log" /\ entry[r].sent => entry[r].at \in mails[doc[r]]

InvoicesInv ==
  /\ TypeOK
  /\ NumbersUnique
  /\ CreditNotesOfNumbered
  /\ LoggedSendsHappened
  /\ DocumentsInv
  /\ \A r \in Requests : RequestInv(r) /\ SendInv(r)

(***************************************************************************)
(* Properties of requests that do not overlap and are not stopped.         *)
(***************************************************************************)
Quiet == \A r \in Requests : pc[r] = "idle"

(* openspec client-invoicing: an issued document is not soft-deleted.      *)
IssuedNeverDeleted == \A i \in Ids : number[i] # NoNumber => ~deleted[i]

(* An issued document keeps its number, stays in the lists and only goes   *)
(* from finalized to paid: cancellation is a credit note.                  *)
IssuedFrozen ==
  [][\A i \in Ids : number[i] # NoNumber =>
       /\ number'[i] = number[i]
       /\ ~deleted'[i]
       /\ status'[i] \in {status[i], "paid"}]_vars

(* openspec invoice-email: successful and failed attempts are both         *)
(* recorded.  When no request is in flight every attempt is in a log.      *)
EveryAttemptLogged ==
  Quiet => \A n \in 1..sends :
             \E i \in Ids : \E k \in 1..Len(emailSends[i]) :
               emailSends[i][k] = [at |-> n, sent |-> n \in mails[i]]

=============================================================================
