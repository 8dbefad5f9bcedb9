--------------------------- MODULE InvoicesProofs ---------------------------
(***************************************************************************)
(* InvoicesInv is inductive, hence the properties of Invoices hold for any *)
(* number of requests, documents, years, sends and interrupted requests.   *)
(* With SerialInv, requests that do not overlap leave issued documents     *)
(* alone, log what they send and implement the bound ledgers.              *)
(***************************************************************************)
EXTENDS InvoicesLedger, Integers, TLAPS

-----------------------------------------------------------------------------
(* The number that allocateNumber returns is above every number of its     *)
(* series and year handed out before, and those stay handed out.           *)
LEMMA AllocateFresh ==
  ASSUME TypeOK, NEW r \in Requests, NEW s \in Series, AllocateNumber(r, s)
  PROVE  /\ held' \in [Requests -> Number \cup {NoNumber}]
         /\ lastNumber' \in [Series -> [Years -> Nat]]
         /\ held'[r] \in Number
         /\ held'[r] # NoNumber
         /\ held'[r].series = s
         /\ \A q \in Requests \ {r} : held'[q] = held[q]
         /\ \A n \in Number : HandedOut(n) => HandedOut(n)' /\ n # held'[r]
         /\ HandedOut(held[r])'
<1> DEFINE n == [series |-> s, year |-> year, seq |-> lastNumber[s][year] + 1]
<1>1. lastNumber[s][year] \in Nat /\ year \in Years
  BY DEF TypeOK
<1>2. n \in Number
  BY <1>1 DEF Number
<1>3. n # NoNumber
  BY <1>2, InvoicesAssumption
<1>4. held' = [held EXCEPT ![r] = n]
  BY DEF AllocateNumber
<1>5. lastNumber' = [lastNumber EXCEPT ![s][year] = lastNumber[s][year] + 1]
  BY DEF AllocateNumber
<1>6. held'[r] = n /\ \A q \in Requests \ {r} : held'[q] = held[q]
  BY <1>4 DEF TypeOK
<1>7. held' \in [Requests -> Number \cup {NoNumber}]
  BY <1>2, <1>4 DEF TypeOK
<1>8. lastNumber' \in [Series -> [Years -> Nat]]
  BY <1>1, <1>5 DEF TypeOK
<1>9. ASSUME NEW m \in Number, HandedOut(m)
      PROVE  HandedOut(m)' /\ m # n
  BY <1>1, <1>5, <1>9 DEF HandedOut, Number, TypeOK
<1>10. HandedOut(held[r])'
  BY <1>1, <1>5, <1>6 DEF HandedOut, TypeOK
<1>11. held'[r].series = s
  BY <1>6
<1> HIDE DEF n
<1> QED
  BY <1>2, <1>3, <1>6, <1>7, <1>8, <1>9, <1>10, <1>11

-----------------------------------------------------------------------------
(* The variables keep their types.                                         *)
LEMMA TypeStep ==
  TypeOK /\ [Next]_vars => TypeOK'
<1> SUFFICES ASSUME TypeOK, [Next]_vars
             PROVE  TypeOK'
  OBVIOUS
<1> USE DEF TypeOK, Steps
<1>1. CASE NewYear
  BY <1>1, InvoicesAssumption DEF NewYear, Years, docVars, reqVars, logVars
<1>2. ASSUME NEW i \in Ids, CreateDraft(i)
      PROVE  TypeOK'
  BY <1>2 DEF CreateDraft, Statuses, reqVars, logVars
<1>3. ASSUME NEW r \in Requests, IssueAllocate(r)
      PROVE  TypeOK'
  BY <1>3, AllocateFresh
     DEF IssueAllocate, Enter, Series, docVars, logVars
<1>4. ASSUME NEW r \in Requests, NEW i \in Ids, Call(r, i)
      PROVE  TypeOK'
  <2>1. CASE SendRead(r, i)
    BY <2>1 DEF SendRead, Enter, docVars, logVars
  <2>2. CASE ~SendRead(r, i)
    BY <1>4, <2>2 DEF Call, FinalizeRead, MarkPaidRead, CancelRead,
                      CreditRead, Enter, docVars, logVars
  <2> QED
    BY <2>1, <2>2
<1>5. ASSUME NEW r \in Requests, Leave(r, pc[r])
      PROVE  /\ pc' \in [Requests -> Steps]
             /\ doc' \in [Requests -> Ids \cup {NoInvoice}]
             /\ held' \in [Requests -> Number \cup {NoNumber}]
             /\ seen' \in [Requests -> [log: Seq(Entry), version: Nat]]
             /\ entry' \in [Requests -> Entry]
  <2>1. NothingSeen \in [log: Seq(Entry), version: Nat] /\ NoEntry \in Entry
    BY DEF NothingSeen, NoEntry, Entry
  <2> QED
    BY <1>5, <2>1 DEF Leave, Advance
<1>6. ASSUME NEW r \in Requests, Abort(r)
      PROVE  TypeOK'
  BY <1>5, <1>6 DEF Abort, docVars, logVars
<1>7. ASSUME NEW r \in Requests, Continue(r)
      PROVE  TypeOK'
  <2>0. ASSUME NEW p, Leave(r, p)
        PROVE  Leave(r, pc[r])
    BY <2>0 DEF Leave, Advance
  <2>1. CASE CreateIssued(r)
    BY <1>5, <2>0, <2>1 DEF CreateIssued, Statuses, logVars
  <2>2. CASE FinalizeAllocate(r)
    BY <2>2, AllocateFresh
       DEF FinalizeAllocate, Advance, SeriesOf, Series, docVars, logVars
  <2>3. CASE FinalizeSave(r)
    BY <1>5, <2>0, <2>3 DEF FinalizeSave, Statuses, logVars
  <2>4. CASE MarkPaidSave(r)
    BY <1>5, <2>0, <2>4 DEF MarkPaidSave, Statuses, logVars
  <2>5. CASE CancelSave(r)
    BY <1>5, <2>0, <2>5 DEF CancelSave, Statuses, logVars
  <2>6. CASE CreditRecheck(r)
    BY <2>6 DEF CreditRecheck, Advance, docVars, reqVars, logVars
  <2>7. CASE CreditRefused(r)
    BY <1>5, <2>0, <2>7 DEF CreditRefused, docVars, logVars
  <2>8. CASE CreditAllocate(r)
    BY <2>8, AllocateFresh
       DEF CreditAllocate, Advance, Series, docVars, logVars
  <2>9. CASE SendMail(r)
    <3>1. sends' \in Nat /\ pc' \in [Requests -> Steps]
      BY <2>9 DEF SendMail, Advance
    <3>2. PICK sent \in BOOLEAN :
            /\ entry' = [entry EXCEPT ![r] = LogEntry(sends', sent)]
            /\ mails' = IF sent
                        THEN [mails EXCEPT ![doc[r]] = @ \cup {sends'}]
                        ELSE mails
      BY <2>9 DEF SendMail
    <3>3. LogEntry(sends', sent) \in Entry
      BY <3>1, <3>2 DEF LogEntry, Entry
    <3>4. entry' \in [Requests -> Entry]
      BY <3>2, <3>3
    <3>5. mails' \in [Ids -> SUBSET Nat]
      BY <3>1, <3>2
    <3> QED
      BY <2>9, <3>1, <3>4, <3>5 DEF SendMail, docVars
  <2>10. CASE SendLog(r)
    <3>1. /\ Append(seen[r].log, entry[r]) \in Seq(Entry)
          /\ \A i \in Ids : version[i] + 1 \in Nat
      OBVIOUS
    <3>2. emailSends' \in [Ids -> Seq(Entry)] /\ version' \in [Ids -> Nat]
      <4>1. CASE SaveAccepted(r)
        <5>1. emailSends' = [emailSends EXCEPT
                              ![doc[r]] = Append(seen[r].log, entry[r])]
          BY <2>10, <4>1 DEF SendLog
        <5>2. version' = [version EXCEPT ![doc[r]] = @ + 1]
          BY <2>10, <4>1 DEF SendLog
        <5> QED
          BY <3>1, <5>1, <5>2
      <4>2. CASE ~SaveAccepted(r)
        BY <2>10, <4>2 DEF SendLog
      <4> QED
        BY <4>1, <4>2
    <3> QED
      BY <1>5, <2>0, <2>10, <3>2 DEF SendLog, logVars
  <2> QED
    BY <1>7, <2>1, <2>2, <2>3, <2>4, <2>5, <2>6, <2>7, <2>8, <2>9, <2>10
       DEF Continue
<1>8. CASE UNCHANGED vars
  BY <1>8 DEF vars, docVars, reqVars, logVars
<1> QED
  BY <1>1, <1>2, <1>3, <1>4, <1>6, <1>7, <1>8 DEF Next

(* The types of all variables, in every reachable state.                   *)
THEOREM TypeCorrect == Spec => []TypeOK
<1>1. Init => TypeOK
  BY InvoicesAssumption
     DEF Init, TypeOK, Years, Statuses, Steps, NothingSeen, NoEntry, Entry
<1> QED
  BY <1>1, TypeStep, PTL DEF Spec

-----------------------------------------------------------------------------
(* What no step takes back: a document stays, keeps what it credits and,   *)
(* once numbered, a number; the counters, the mails and the logs grow, and *)
(* a log changes only with its version.                                    *)
Kept ==
  /\ \A i \in Ids :
       /\ status[i] # "absent" => status'[i] # "absent" /\ credited'[i] = credited[i]
       /\ number[i] # NoNumber => number'[i] # NoNumber /\ status'[i] # "draft"
       /\ mails[i] \subseteq mails'[i]
       /\ version[i] <= version'[i]
       /\ version'[i] = version[i] => emailSends'[i] = emailSends[i]
       /\ Len(emailSends[i]) <= Len(emailSends'[i])
       /\ \A k \in 1..Len(emailSends[i]) : emailSends'[i][k] = emailSends[i][k]
  /\ \A n \in Number : HandedOut(n) => HandedOut(n)'

(* A request that has answered has forgotten its locals; the others keep   *)
(* theirs.                                                                 *)
Untouched(q) == /\ pc'[q] = pc[q] /\ doc'[q] = doc[q] /\ held'[q] = held[q]
                /\ seen'[q] = seen[q] /\ entry'[q] = entry[q]

(* What Leave does to every request: it empties the locals of the one that *)
(* has answered and leaves the others alone.                               *)
LEMMA LeaveFacts ==
  ASSUME TypeOK, NEW r \in Requests, NEW p, Leave(r, p)
  PROVE  /\ pc[r] = p
         /\ pc'[r] = "idle"
         /\ held'[r] = NoNumber
         /\ \A q \in Requests \ {r} : Untouched(q)
BY DEF TypeOK, Leave, Advance, Untouched

(* A request keeps what it knows while the others take their steps ...     *)
LEMMA UntouchedInv ==
  ASSUME InvoicesInv, TypeOK', Kept, NEW q \in Requests, Untouched(q)
  PROVE  RequestInv(q)' /\ SendInv(q)'
<1>1. RequestInv(q)'
  BY DEF InvoicesInv, TypeOK, Kept, Untouched, RequestInv, SeriesOf
<1>2. SendInv(q)'
  <2>1. /\ pc'[q] = pc[q] /\ doc'[q] = doc[q]
        /\ seen'[q] = seen[q] /\ entry'[q] = entry[q]
    BY DEF Untouched
  <2>2. SUFFICES ASSUME pc[q] \in {"mail", "log"}
                 PROVE  SendInv(q)'
    BY <2>1 DEF SendInv
  <2>3. doc[q] \in Ids /\ SendInv(q)
    BY <2>2 DEF InvoicesInv, RequestInv
  <2>4. /\ seen[q].version \in Nat
        /\ version[doc[q]] \in Nat /\ version'[doc[q]] \in Nat
    BY <2>3 DEF TypeOK, InvoicesInv
  <2>5. /\ mails[doc[q]] \subseteq mails'[doc[q]]
        /\ version[doc[q]] <= version'[doc[q]]
        /\ version'[doc[q]] = version[doc[q]] =>
              emailSends'[doc[q]] = emailSends[doc[q]]
    BY <2>3 DEF Kept
  <2> QED
    BY <2>1, <2>2, <2>3, <2>4, <2>5 DEF SendInv
<1> QED
  BY <1>1, <1>2

(* ... and an idle request has nothing to know.                            *)
LEMMA IdleInv ==
  ASSUME NEW r \in Requests, pc'[r] = "idle", held'[r] = NoNumber
  PROVE  RequestInv(r)' /\ SendInv(r)'
BY DEF RequestInv, SendInv

-----------------------------------------------------------------------------
(* No step takes back anything of Kept.  The steps that write no document  *)
(* first, then the writes in the order of the module.                      *)
LEMMA KeptIfUnchanged ==
  ASSUME InvoicesInv, UNCHANGED docVars, UNCHANGED mails,
         \A n \in Number : HandedOut(n) => HandedOut(n)'
  PROVE  Kept
BY DEF InvoicesInv, TypeOK, DocumentsInv, Kept, docVars

(* The log of a document is not written: the version may as well not be.   *)
LEMMA KeptIfLogUnchanged ==
  ASSUME TypeOK, UNCHANGED <<lastNumber, emailSends, version, mails>>,
         \A i \in Ids :
           /\ status[i] # "absent" =>
                status'[i] # "absent" /\ credited'[i] = credited[i]
           /\ number[i] # NoNumber =>
                number'[i] # NoNumber /\ status'[i] # "draft"
  PROVE  Kept
BY DEF TypeOK, HandedOut, Kept

(* Every step of every handler keeps the facts of Kept.                    *)
LEMMA KeptStep ==
  ASSUME InvoicesInv, [Next]_vars
  PROVE  Kept
<1> USE DEF InvoicesInv
<1>1. ASSUME UNCHANGED lastNumber, UNCHANGED docVars, UNCHANGED mails
      PROVE  Kept
  BY <1>1, KeptIfUnchanged DEF HandedOut
<1>2. CASE NewYear \/ UNCHANGED vars
  BY <1>1, <1>2 DEF NewYear, vars, logVars
<1>3. ASSUME NEW r \in Requests, NEW i \in Ids, Call(r, i)
      PROVE  Kept
  BY <1>1, <1>3 DEF Call, FinalizeRead, MarkPaidRead, CancelRead, CreditRead,
                    SendRead, logVars
<1>4. ASSUME NEW r \in Requests,
             Abort(r) \/ CreditRecheck(r) \/ CreditRefused(r)
      PROVE  Kept
  BY <1>1, <1>4 DEF Abort, CreditRecheck, CreditRefused, logVars
<1>5. ASSUME NEW r \in Requests,
             IssueAllocate(r) \/ FinalizeAllocate(r) \/ CreditAllocate(r)
      PROVE  Kept
  <2>1. PICK s \in Series : AllocateNumber(r, s)
    BY <1>5 DEF IssueAllocate, FinalizeAllocate, CreditAllocate, SeriesOf,
                Series
  <2>2. \A n \in Number : HandedOut(n) => HandedOut(n)'
    BY <2>1, AllocateFresh
  <2> QED
    BY <1>5, <2>2, KeptIfUnchanged
       DEF IssueAllocate, FinalizeAllocate, CreditAllocate, logVars
<1>6. ASSUME NEW i \in Ids, CreateDraft(i)
      PROVE  Kept
  BY <1>6, KeptIfLogUnchanged
     DEF CreateDraft, TypeOK, DocumentsInv, logVars
<1>7. ASSUME NEW r \in Requests, CreateIssued(r)
      PROVE  Kept
  BY <1>7, KeptIfLogUnchanged
     DEF CreateIssued, Leave, Advance, RequestInv, TypeOK, DocumentsInv, logVars
<1>8. ASSUME NEW r \in Requests, FinalizeSave(r)
      PROVE  Kept
  BY <1>8, KeptIfLogUnchanged
     DEF FinalizeSave, Leave, Advance, RequestInv, TypeOK, DocumentsInv, logVars
<1>9. ASSUME NEW r \in Requests, MarkPaidSave(r) \/ CancelSave(r)
      PROVE  Kept
  BY <1>9, KeptIfLogUnchanged
     DEF MarkPaidSave, CancelSave, TypeOK, DocumentsInv, logVars
<1>10. ASSUME NEW r \in Requests, SendMail(r)
       PROVE  Kept
  <2>1. \A i \in Ids : mails[i] \subseteq mails'[i]
    BY <1>10 DEF SendMail, TypeOK
  <2>2. UNCHANGED docVars /\ UNCHANGED lastNumber
    BY <1>10 DEF SendMail
  <2> QED
    BY <2>1, <2>2 DEF Kept, TypeOK, DocumentsInv, HandedOut, docVars
<1>11. ASSUME NEW r \in Requests, SendLog(r)
       PROVE  Kept
  <2>1. CASE ~SaveAccepted(r)
    BY <1>1, <1>11, <2>1 DEF SendLog, docVars, logVars
  <2>2. CASE SaveAccepted(r)
    <3> DEFINE i == doc[r]
               log == emailSends[i]
    <3>1. /\ i \in Ids
          /\ seen[r].log = log
          /\ log \in Seq(Entry) /\ entry[r] \in Entry
      BY <1>11, <2>2 DEF SendLog, SaveAccepted, Leave, Advance, RequestInv,
                         SendInv, TypeOK
    <3>2. /\ emailSends' = [emailSends EXCEPT ![i] = Append(log, entry[r])]
          /\ version' = [version EXCEPT ![i] = @ + 1]
          /\ UNCHANGED <<lastNumber, status, number, credited, mails>>
      BY <1>11, <2>2, <3>1 DEF SendLog, logVars
    <3>3. /\ Len(Append(log, entry[r])) = Len(log) + 1
          /\ \A k \in 1..Len(log) : Append(log, entry[r])[k] = log[k]
      BY <3>1
    <3>4. ASSUME NEW j \in Ids
          PROVE  /\ version[j] <= version'[j]
                 /\ version'[j] = version[j] => emailSends'[j] = emailSends[j]
                 /\ Len(emailSends[j]) <= Len(emailSends'[j])
                 /\ \A k \in 1..Len(emailSends[j]) :
                      emailSends'[j][k] = emailSends[j][k]
      BY <3>1, <3>2, <3>3 DEF TypeOK
    <3> QED
      BY <3>2, <3>4 DEF Kept, DocumentsInv, HandedOut
  <2> QED
    BY <2>1, <2>2
<1> QED
  BY <1>2, <1>3, <1>4, <1>5, <1>6, <1>7, <1>8, <1>9, <1>10, <1>11
     DEF Next, Continue

-----------------------------------------------------------------------------
(* The actions by what they do with the numbers: hand one out, write the   *)
(* one held on a document, or leave the documents' numbers alone.          *)
Allocates(r) == IssueAllocate(r) \/ FinalizeAllocate(r) \/ CreditAllocate(r)
Numbers(r)   == CreateIssued(r) \/ FinalizeSave(r)

(* Every step does one of three things with the fiscal numbers: hand one   *)
(* out, save a held one, or neither.                                       *)
LEMMA WhoWritesNumbers ==
  ASSUME TypeOK, [Next]_vars
  PROVE  \/ \E r \in Requests : Allocates(r)
         \/ \E r \in Requests : Numbers(r)
         \/ /\ UNCHANGED number
            /\ \A q \in Requests : held'[q] \in {held[q], NoNumber}
<1>1. CASE NewYear \/ UNCHANGED vars
  BY <1>1 DEF NewYear, vars, docVars, reqVars
<1>2. ASSUME NEW i \in Ids, CreateDraft(i)
      PROVE  UNCHANGED number /\ UNCHANGED held
  BY <1>2 DEF CreateDraft, reqVars
<1>3. ASSUME NEW r \in Requests, NEW i \in Ids, Call(r, i)
      PROVE  UNCHANGED number /\ UNCHANGED held
  BY <1>3 DEF Call, FinalizeRead, MarkPaidRead, CancelRead, CreditRead,
              SendRead, docVars
<1>4. ASSUME NEW r \in Requests, CreditRecheck(r) \/ SendMail(r)
      PROVE  UNCHANGED number /\ UNCHANGED held
  BY <1>4 DEF CreditRecheck, SendMail, docVars, reqVars
<1>5. ASSUME NEW r \in Requests,
             \/ MarkPaidSave(r) \/ CancelSave(r) \/ CreditRefused(r)
             \/ SendLog(r) \/ Abort(r)
      PROVE  UNCHANGED number /\ \E p : Leave(r, p)
  BY <1>5 DEF MarkPaidSave, CancelSave, CreditRefused, SendLog, Abort, docVars
<1>6. ASSUME NEW r \in Requests, NEW p, Leave(r, p)
      PROVE  \A q \in Requests : held'[q] \in {held[q], NoNumber}
  BY <1>6, LeaveFacts DEF Untouched
<1> QED
  BY <1>1, <1>2, <1>3, <1>4, <1>5, <1>6
     DEF Next, Continue, Allocates, Numbers

(* Numbers stay unique: an allocated one is fresh, and a saved one is no   *)
(* longer held.                                                            *)
LEMMA NumbersStep ==
  ASSUME InvoicesInv, [Next]_vars
  PROVE  NumbersUnique'
<1> USE DEF InvoicesInv
<1>1. CASE UNCHANGED number /\ \A q \in Requests : held'[q] \in {held[q], NoNumber}
  BY <1>1 DEF NumbersUnique
<1>2. ASSUME NEW r \in Requests, Allocates(r)
      PROVE  NumbersUnique'
  <2>1. PICK s \in Series : AllocateNumber(r, s)
    BY <1>2 DEF Allocates, IssueAllocate, FinalizeAllocate, CreditAllocate,
                SeriesOf, Series
  <2>2. /\ held'[r] \in Number /\ held'[r] # NoNumber
        /\ \A q \in Requests \ {r} : held'[q] = held[q]
        /\ \A n \in Number : HandedOut(n) => n # held'[r]
    BY <2>1, AllocateFresh
  <2>3. /\ \A i \in Ids : number[i] # held'[r]
        /\ \A q \in Requests : held[q] # held'[r]
    BY <2>2 DEF TypeOK, DocumentsInv, RequestInv
  <2>4. UNCHANGED number
    BY <1>2 DEF Allocates, IssueAllocate, FinalizeAllocate, CreditAllocate,
                docVars
  <2> QED
    BY <2>2, <2>3, <2>4 DEF NumbersUnique
<1>3. ASSUME NEW r \in Requests, Numbers(r)
      PROVE  NumbersUnique'
  <2>1. PICK i \in Ids, p \in Steps :
          Leave(r, p) /\ number' = [number EXCEPT ![i] = held[r]]
    BY <1>3 DEF Numbers, CreateIssued, FinalizeSave, Leave, Advance,
                RequestInv, Steps
  <2>2. held'[r] = NoNumber /\ \A q \in Requests \ {r} : held'[q] = held[q]
    BY <2>1, LeaveFacts DEF Untouched
  <2>3. number'[i] = held[r] /\ \A j \in Ids \ {i} : number'[j] = number[j]
    BY <2>1 DEF TypeOK
  <2> QED
    BY <2>2, <2>3 DEF NumbersUnique
<1> QED
  BY <1>1, <1>2, <1>3, WhoWritesNumbers

-----------------------------------------------------------------------------
(* The documents stay consistent.                                          *)
LEMMA DocumentsStep ==
  ASSUME InvoicesInv, Kept, [Next]_vars
  PROVE  DocumentsInv'
<1> USE DEF InvoicesInv
<1>1. ASSUME UNCHANGED docVars
      PROVE  DocumentsInv'
  BY <1>1 DEF DocumentsInv, TypeOK, Kept, Issued, docVars
<1>2. ASSUME NEW i \in Ids, CreateDraft(i)
      PROVE  DocumentsInv'
  BY <1>2 DEF CreateDraft, DocumentsInv, TypeOK, Kept, Issued
<1>3. ASSUME NEW r \in Requests, Numbers(r)
      PROVE  DocumentsInv'
  <2>1. PICK n \in Number : n = held[r] /\ n # NoNumber /\ HandedOut(n)'
    BY <1>3 DEF Numbers, CreateIssued, FinalizeSave, Leave, Advance,
                RequestInv, TypeOK, Kept
  <2>2. PICK i \in Ids :
          /\ number' = [number EXCEPT ![i] = held[r]]
          /\ status' = [status EXCEPT ![i] = "finalized"]
          /\ \A j \in Ids \ {i} : credited'[j] = credited[j]
    BY <1>3 DEF Numbers, CreateIssued, FinalizeSave, Leave, Advance,
                RequestInv, TypeOK
  <2> QED
    BY <2>1, <2>2 DEF DocumentsInv, TypeOK, Kept, Issued
<1>4. ASSUME NEW r \in Requests, MarkPaidSave(r) \/ CancelSave(r)
      PROVE  DocumentsInv'
  <2>1. /\ doc[r] \in Ids
        /\ MarkPaidSave(r) => number[doc[r]] # NoNumber
        /\ status[doc[r]] # "absent"
    BY <1>4 DEF MarkPaidSave, CancelSave, Leave, Advance, RequestInv
  <2> QED
    BY <1>4, <2>1 DEF MarkPaidSave, CancelSave, DocumentsInv, TypeOK, Kept,
                      Issued
<1>5. ASSUME NEW r \in Requests, SendLog(r)
      PROVE  DocumentsInv'
  BY <1>5 DEF SendLog, DocumentsInv, TypeOK, Kept, Issued
<1>6. ASSUME NEW r \in Requests, Allocates(r)
      PROVE  UNCHANGED docVars
  BY <1>6 DEF Allocates, IssueAllocate, FinalizeAllocate, CreditAllocate
<1>7. ASSUME NEW r \in Requests,
             \/ CreditRecheck(r) \/ CreditRefused(r) \/ SendMail(r) \/ Abort(r)
             \/ \E i \in Ids : Call(r, i)
      PROVE  UNCHANGED docVars
  BY <1>7 DEF CreditRecheck, CreditRefused, SendMail, Abort, Call,
              FinalizeRead, MarkPaidRead, CancelRead, CreditRead, SendRead
<1>8. CASE NewYear \/ UNCHANGED vars
  BY <1>1, <1>8 DEF NewYear, vars
<1> QED
  BY <1>1, <1>2, <1>3, <1>4, <1>5, <1>6, <1>7, <1>8
     DEF Next, Continue, Allocates, Numbers

(* A credit note keeps its series and what it references: only its own     *)
(* insert and a finalization write them, with what the request has kept.   *)
LEMMA CreditsStep ==
  ASSUME InvoicesInv, Kept, [Next]_vars
  PROVE  CreditNotesOfNumbered'
<1> USE DEF InvoicesInv
<1>1. CASE UNCHANGED <<number, credited>>
  BY <1>1 DEF CreditNotesOfNumbered
<1>2. ASSUME NEW r \in Requests, CreateIssued(r)
      PROVE  CreditNotesOfNumbered'
  <2>1. PICK i \in Ids :
          /\ status[i] = "absent"
          /\ number' = [number EXCEPT ![i] = held[r]]
          /\ credited' = [credited EXCEPT ![i] = doc[r]]
    BY <1>2 DEF CreateIssued
  <2>2. doc[r] # NoInvoice =>
          /\ number[doc[r]] # NoNumber /\ number'[doc[r]] # NoNumber
          /\ held[r].series = "A"
    BY <1>2 DEF CreateIssued, Leave, Advance, RequestInv, TypeOK, Kept
  <2>3. number'[i] = held[r] /\ credited'[i] = doc[r]
    BY <2>1 DEF TypeOK
  <2>4. ASSUME NEW j \in Ids \ {i}, credited'[j] # NoInvoice
        PROVE  number'[credited'[j]] # NoNumber /\ number'[j].series = "A"
    BY <2>1, <2>4 DEF CreditNotesOfNumbered, TypeOK, Kept
  <2> QED
    BY <2>2, <2>3, <2>4 DEF CreditNotesOfNumbered
<1>3. ASSUME NEW r \in Requests, FinalizeSave(r)
      PROVE  CreditNotesOfNumbered'
  <2>1. /\ number' = [number EXCEPT ![doc[r]] = held[r]]
        /\ UNCHANGED credited
        /\ doc[r] \in Ids /\ held[r].series = SeriesOf(doc[r])
    BY <1>3 DEF FinalizeSave, Leave, Advance, RequestInv
  <2> QED
    BY <2>1 DEF CreditNotesOfNumbered, SeriesOf, TypeOK, Kept
<1>4. \/ UNCHANGED <<number, credited>>
      \/ \E r \in Requests : CreateIssued(r) \/ FinalizeSave(r)
  BY DEF Next, Continue, Call, NewYear, CreateDraft, IssueAllocate,
         FinalizeRead, FinalizeAllocate, MarkPaidRead, MarkPaidSave,
         CancelRead, CancelSave, CreditRead, CreditRecheck, CreditRefused,
         CreditAllocate, SendRead, SendMail, SendLog, Abort, vars, docVars
<1> QED
  BY <1>1, <1>2, <1>3, <1>4

(* The log of a document stays true: a save that is accepted adds its own  *)
(* entry to the current log.                                               *)
LEMMA LogsStep ==
  ASSUME InvoicesInv, Kept, [Next]_vars
  PROVE  LoggedSendsHappened'
<1> USE DEF InvoicesInv
<1>1. CASE UNCHANGED emailSends
  BY <1>1 DEF LoggedSendsHappened, Kept
<1>2. ASSUME NEW r \in Requests, SendLog(r), SaveAccepted(r)
      PROVE  LoggedSendsHappened'
  <2> DEFINE log == emailSends[doc[r]]
  <2>1. /\ doc[r] \in Ids /\ number[doc[r]] # NoNumber
        /\ seen[r].log = log
        /\ entry[r].sent => entry[r].at \in mails[doc[r]]
        /\ log \in Seq(Entry) /\ entry[r] \in Entry
    BY <1>2 DEF SendLog, SaveAccepted, Leave, Advance, RequestInv, SendInv,
                TypeOK
  <2>2. /\ emailSends' = [emailSends EXCEPT ![doc[r]] = Append(log, entry[r])]
        /\ UNCHANGED <<mails, number>>
    BY <1>2, <2>1 DEF SendLog, logVars
  <2>3. ASSUME NEW k \in 1..Len(Append(log, entry[r])),
               Append(log, entry[r])[k].sent
        PROVE  Append(log, entry[r])[k].at \in mails[doc[r]]
    <3>1. CASE k \in 1..Len(log)
      <4>1. Append(log, entry[r])[k] = log[k]
        BY <2>1, <3>1
      <4> QED
        BY <2>1, <2>3, <3>1, <4>1 DEF LoggedSendsHappened
    <3>2. CASE k = Len(log) + 1
      BY <2>1, <2>3, <3>2
    <3> QED
      BY <2>1, <2>3, <3>1, <3>2
  <2>4. emailSends'[doc[r]] = Append(log, entry[r])
    BY <2>1, <2>2 DEF TypeOK
  <2>5. \A i \in Ids \ {doc[r]} : emailSends'[i] = emailSends[i]
    BY <2>2 DEF TypeOK
  <2> HIDE DEF log
  <2> QED
    BY <2>1, <2>2, <2>3, <2>4, <2>5 DEF LoggedSendsHappened
<1>3. \/ UNCHANGED emailSends
      \/ \E r \in Requests : SendLog(r) /\ SaveAccepted(r)
  BY DEF Next, Continue, Call, NewYear, CreateDraft, IssueAllocate,
         CreateIssued, FinalizeRead, FinalizeAllocate, FinalizeSave,
         MarkPaidRead, MarkPaidSave, CancelRead, CancelSave, CreditRead,
         CreditRecheck, CreditRefused, CreditAllocate, SendRead, SendMail,
         SendLog, Abort, vars, docVars
<1> QED
  BY <1>1, <1>2, <1>3

-----------------------------------------------------------------------------
(* Every request keeps what it knows.                                      *)
LEMMA RequestsStep ==
  ASSUME InvoicesInv, TypeOK', Kept, [Next]_vars
  PROVE  \A q \in Requests : RequestInv(q)' /\ SendInv(q)'
<1> USE DEF InvoicesInv
<1>1. ASSUME UNCHANGED <<pc, doc, held, seen, entry>>
      PROVE  \A q \in Requests : RequestInv(q)' /\ SendInv(q)'
  BY <1>1, UntouchedInv DEF Untouched
<1>2. CASE \/ NewYear \/ UNCHANGED vars
           \/ \E i \in Ids : CreateDraft(i)
  BY <1>1, <1>2 DEF NewYear, CreateDraft, vars, reqVars
<1>3. ASSUME NEW r \in Requests, NEW p, Leave(r, p)
      PROVE  \A q \in Requests : RequestInv(q)' /\ SendInv(q)'
  BY <1>3, LeaveFacts, UntouchedInv, IdleInv
<1>4. ASSUME NEW r \in Requests,
             \/ CreateIssued(r) \/ FinalizeSave(r) \/ MarkPaidSave(r)
             \/ CancelSave(r) \/ CreditRefused(r) \/ SendLog(r) \/ Abort(r)
      PROVE  \E p : Leave(r, p)
  BY <1>4 DEF CreateIssued, FinalizeSave, MarkPaidSave, CancelSave,
              CreditRefused, SendLog, Abort
<1>5. ASSUME NEW r \in Requests, RequestInv(r)', SendInv(r)',
             \A q \in Requests \ {r} : Untouched(q)
      PROVE  \A q \in Requests : RequestInv(q)' /\ SendInv(q)'
  BY <1>5, UntouchedInv
<1>6. ASSUME NEW r \in Requests, NEW i \in Ids, Call(r, i)
      PROVE  \A q \in Requests : RequestInv(q)' /\ SendInv(q)'
  <2>1. \A q \in Requests \ {r} : Untouched(q)
    BY <1>6 DEF Call, FinalizeRead, MarkPaidRead, CancelRead, CreditRead,
                SendRead, Enter, Untouched, TypeOK
  <2>2. /\ pc'[r] \in {"finalize", "savePaid", "saveCancel", "recheck", "mail"}
        /\ doc'[r] = i
        /\ UNCHANGED <<held, docVars, lastNumber>>
        /\ status[i] # "absent"
        /\ pc'[r] \in {"savePaid", "recheck", "mail"} => Issued(i)
        /\ pc'[r] = "mail" => seen'[r] = [log |-> emailSends[i],
                                         version |-> version[i]]
    BY <1>6 DEF Call, FinalizeRead, MarkPaidRead, CancelRead, CreditRead,
                SendRead, Enter, Found, Issued, TypeOK
  <2>3. RequestInv(r)'
    BY <2>2 DEF RequestInv, DocumentsInv, HandedOut, docVars
  <2>4. SendInv(r)'
    BY <2>2 DEF SendInv, TypeOK, docVars
  <2> QED
    BY <1>5, <2>1, <2>3, <2>4
<1>7. ASSUME NEW r \in Requests, Allocates(r)
      PROVE  \A q \in Requests : RequestInv(q)' /\ SendInv(q)'
  <2>1. PICK s \in Series :
          /\ AllocateNumber(r, s)
          /\ FinalizeAllocate(r) => s = SeriesOf(doc[r])
          /\ CreditAllocate(r) => s = "A"
    BY <1>7 DEF Allocates, IssueAllocate, FinalizeAllocate, CreditAllocate,
                Enter, Advance, SeriesOf, Series
  <2>2. /\ held'[r] # NoNumber /\ held'[r].series = s
        /\ HandedOut(held[r])'
        /\ \A q \in Requests \ {r} : held'[q] = held[q]
    BY <2>1, AllocateFresh
  <2>3. \A q \in Requests \ {r} : Untouched(q)
    BY <1>7, <2>2 DEF Allocates, IssueAllocate, FinalizeAllocate,
                CreditAllocate, Enter, Advance, Untouched, TypeOK
  <2>4. UNCHANGED docVars /\ pc'[r] \in {"create", "saveNumber"}
    BY <1>7 DEF Allocates, IssueAllocate, FinalizeAllocate, CreditAllocate,
                Enter, Advance, TypeOK
  <2>5. RequestInv(r)'
    <3>1. CASE IssueAllocate(r)
      BY <2>2, <2>4, <3>1 DEF IssueAllocate, Enter, RequestInv, TypeOK
    <3>2. CASE FinalizeAllocate(r)
      BY <2>1, <2>2, <2>4, <3>2
         DEF FinalizeAllocate, Advance, RequestInv, SeriesOf, TypeOK, docVars
    <3>3. CASE CreditAllocate(r)
      BY <2>1, <2>2, <2>4, <3>3
         DEF CreditAllocate, Advance, RequestInv, TypeOK, docVars
    <3> QED
      BY <1>7, <3>1, <3>2, <3>3 DEF Allocates
  <2>6. SendInv(r)'
    BY <2>4 DEF SendInv
  <2> QED
    BY <1>5, <2>3, <2>5, <2>6
<1>8. ASSUME NEW r \in Requests, CreditRecheck(r)
      PROVE  \A q \in Requests : RequestInv(q)' /\ SendInv(q)'
  <2>1. /\ \A q \in Requests \ {r} : Untouched(q)
        /\ pc[r] = "recheck" /\ pc'[r] = "allocateCredit"
        /\ UNCHANGED <<lastNumber, docVars, reqVars>>
    BY <1>8 DEF CreditRecheck, Advance, Untouched, TypeOK, reqVars
  <2>2. RequestInv(r)' /\ SendInv(r)'
    BY <2>1 DEF RequestInv, SendInv, HandedOut, docVars, reqVars
  <2> QED
    BY <1>5, <2>1, <2>2
<1>9. ASSUME NEW r \in Requests, SendMail(r)
      PROVE  \A q \in Requests : RequestInv(q)' /\ SendInv(q)'
  <2>1. PICK sent \in BOOLEAN :
          /\ entry' = [entry EXCEPT ![r] = [at |-> sends', sent |-> sent]]
          /\ mails' = IF sent
                      THEN [mails EXCEPT ![doc[r]] = @ \cup {sends'}]
                      ELSE mails
    BY <1>9 DEF SendMail, LogEntry
  <2>2. /\ pc[r] = "mail" /\ pc'[r] = "log"
        /\ UNCHANGED <<lastNumber, docVars, doc, held, seen>>
        /\ \A q \in Requests \ {r} : Untouched(q)
    BY <1>9, <2>1 DEF SendMail, Advance, Untouched, TypeOK
  <2>3. RequestInv(r)'
    BY <2>2 DEF RequestInv, HandedOut, docVars
  <2>4. entry'[r] = [at |-> sends', sent |-> sent] /\ doc[r] \in Ids
    BY <2>1, <2>2 DEF TypeOK, RequestInv
  <2>5. SendInv(r)'
    BY <2>1, <2>2, <2>4 DEF SendInv, TypeOK, docVars
  <2> QED
    BY <1>5, <2>2, <2>3, <2>5
<1> QED
  BY <1>2, <1>3, <1>4, <1>6, <1>7, <1>8, <1>9 DEF Next, Continue, Allocates

-----------------------------------------------------------------------------
(* InvoicesInv is inductive ...                                            *)
LEMMA InvoicesStep ==
  InvoicesInv /\ [Next]_vars => InvoicesInv'
<1> SUFFICES ASSUME InvoicesInv, [Next]_vars
             PROVE  InvoicesInv'
  OBVIOUS
<1>1. TypeOK'
  BY TypeStep DEF InvoicesInv
<1>2. Kept
  BY KeptStep
<1> QED
  BY <1>1, <1>2, NumbersStep, DocumentsStep, CreditsStep, LogsStep, RequestsStep
     DEF InvoicesInv

(* The empty collections satisfy InvoicesInv.                              *)
LEMMA InvoicesInitially ==
  Init => InvoicesInv
<1> SUFFICES ASSUME Init
             PROVE  InvoicesInv
  OBVIOUS
<1>1. TypeOK
  BY InvoicesAssumption
     DEF Init, TypeOK, Years, Statuses, Steps, NothingSeen, NoEntry, Entry
<1>2. NumbersUnique /\ CreditNotesOfNumbered /\ LoggedSendsHappened
  BY DEF Init, NumbersUnique, CreditNotesOfNumbered, LoggedSendsHappened
<1>3. DocumentsInv
  BY DEF Init, DocumentsInv, Issued
<1>4. \A r \in Requests : RequestInv(r) /\ SendInv(r)
  BY DEF Init, RequestInv, SendInv
<1> QED
  BY <1>1, <1>2, <1>3, <1>4 DEF InvoicesInv

(* ... so it holds in every reachable state.                               *)
THEOREM InvoicesInvariant == Spec => []InvoicesInv
BY InvoicesInitially, InvoicesStep, PTL DEF Spec

(* No number is on two documents, or on a document and in a request about  *)
(* to save one: the fiscal numbering has no duplicates.                    *)
THEOREM NumbersAreUnique == Spec => []NumbersUnique
<1>1. InvoicesInv => NumbersUnique
  BY DEF InvoicesInv
<1> QED
  BY <1>1, InvoicesInvariant, PTL

(* Every credit note references a numbered document.                       *)
THEOREM CreditNotesReferToNumbered == Spec => []CreditNotesOfNumbered
<1>1. InvoicesInv => CreditNotesOfNumbered
  BY DEF InvoicesInv
<1> QED
  BY <1>1, InvoicesInvariant, PTL

(* An entry of the log marked as sent is an e-mail that left.              *)
THEOREM LogIsTrue == Spec => []LoggedSendsHappened
<1>1. InvoicesInv => LoggedSendsHappened
  BY DEF InvoicesInv
<1> QED
  BY <1>1, InvoicesInvariant, PTL

(* No step frees a fiscal number or makes a numbered document a draft      *)
(* again.                                                                  *)
THEOREM NumbersAreKept == Spec => NumberNeverFreed
<1>1. InvoicesInv /\ [Next]_vars =>
        [\A i \in Ids : number[i] # NoNumber =>
           /\ number'[i] # NoNumber
           /\ status'[i] # "draft"]_vars
  BY KeptStep DEF Kept
<1> QED
  BY <1>1, InvoicesInvariant, PTL DEF Spec, NumberNeverFreed

(* No step removes or rewrites an entry of a send log: the only write of   *)
(* the log appends to what its request has read, which is the current log  *)
(* whenever mongoose accepts the write.                                    *)
THEOREM LogIsAppendOnly == Spec => SendLogAppendOnly
<1>1. InvoicesInv /\ [Next]_vars =>
        [\A i \in Ids :
           /\ Len(emailSends[i]) <= Len(emailSends'[i])
           /\ \A k \in 1..Len(emailSends[i]) :
                emailSends'[i][k] = emailSends[i][k]]_vars
  BY KeptStep DEF Kept
<1> QED
  BY <1>1, InvoicesInvariant, PTL DEF Spec, SendLogAppendOnly

(***************************************************************************)
(* Requests that do not overlap.                                           *)
(***************************************************************************)
OneRequest == \A q, r \in Requests : q = r
NoneStops  == MaxAborts = 0

(* What a request alone has read of its document is still true when it     *)
(* writes it: what has a number is an issued document that is not deleted, *)
(* and what is finalized or cancelled has none, even if requests stop.     *)
FrozenInv ==
  /\ \A i \in Ids :
       /\ number[i] # NoNumber => ~deleted[i] /\ Issued(i)
       /\ status[i] = "absent" => ~deleted[i]
  /\ \A r \in Requests :
       /\ pc[r] \in {"finalize", "saveNumber"} =>
            status[doc[r]] = "draft" /\ ~deleted[doc[r]]
       /\ pc[r] = "saveCancel" => status[doc[r]] \in {"draft", "cancelled"}

(* The sends tried are in a log or about to be: nothing has been saved on  *)
(* the document since its log was read.                                    *)
Tried(n, i) == [at |-> n, sent |-> n \in mails[i]]
Logged(n)   == \E i \in Ids : \E k \in 1..Len(emailSends[i]) : emailSends[i][k] = Tried(n, i)
AtLog(n, r) == pc[r] = "log" /\ entry[r] = Tried(n, doc[r])

LogInv ==
  /\ \A i \in Ids : mails[i] \subseteq 1..sends
  /\ \A r \in Requests : pc[r] \in {"mail", "log"} =>
       seen[r].version = version[doc[r]] /\ seen[r].log = emailSends[doc[r]]
  /\ \A n \in 1..sends :
       Logged(n) \/ \E r \in Requests : AtLog(n, r)

(* Every number a counter has given out is on a document, or it is the     *)
(* last one and the request that is about to save it holds it.             *)
LedgerInv ==
  /\ \A r \in Requests : held[r] # NoNumber =>
       /\ pc[r] \in {"saveNumber", "create"}
       /\ held[r].seq = lastNumber[held[r].series][held[r].year]
  /\ \A n \in Number : HandedOut(n) =>
       (\E i \in Ids : number[i] = n) \/ (\E r \in Requests : held[r] = n)

SerialInv ==
  OneRequest => FrozenInv /\ (NoneStops => LogInv /\ LedgerInv)

Frozen == \A i \in Ids : number[i] # NoNumber =>
            number'[i] = number[i] /\ ~deleted'[i] /\ status'[i] \in {status[i], "paid"}

(* The steps by what they write on the documents.                          *)
LEMMA FrozenStep ==
  ASSUME InvoicesInv, FrozenInv, OneRequest, [Next]_vars
  PROVE  FrozenInv' /\ Frozen
<1> USE DEF FrozenInv, Frozen, Issued
<1>1. /\ status \in [Ids -> Statuses] /\ number \in [Ids -> Number \cup {NoNumber}]
      /\ deleted \in [Ids -> BOOLEAN] /\ pc \in [Requests -> Steps]
      /\ doc \in [Requests -> Ids \cup {NoInvoice}]
      /\ DocumentsInv /\ \A r \in Requests : RequestInv(r)
  BY DEF InvoicesInv, TypeOK
<1>2. CASE NewYear \/ UNCHANGED vars
  BY <1>1, <1>2 DEF NewYear, vars, docVars, reqVars
<1>3. ASSUME NEW i \in Ids, CreateDraft(i)
      PROVE  FrozenInv' /\ Frozen
  <2>1. /\ status' = [status EXCEPT ![i] = "draft"] /\ status[i] = "absent"
        /\ number[i] = NoNumber /\ UNCHANGED <<number, deleted, pc, doc>>
    BY <1>1, <1>3 DEF CreateDraft, reqVars, DocumentsInv
  <2>2. \A r \in Requests : pc[r] \in {"finalize", "saveNumber", "saveCancel"}
          => doc[r] \in Ids /\ doc[r] # i
    BY <1>1, <2>1 DEF RequestInv
  <2> QED  BY <1>1, <2>1, <2>2
<1>4. ASSUME NEW r \in Requests, IssueAllocate(r) \/ Continue(r) \/ Abort(r)
                                   \/ \E i \in Ids : Call(r, i)
      PROVE  FrozenInv' /\ Frozen
  <2>1. \A q \in Requests : q = r
    BY DEF OneRequest
  <2>2. ASSUME UNCHANGED <<status, number, deleted>>, NEW p, pc' = [pc EXCEPT ![r] = p],
               p \notin {"finalize", "saveNumber", "saveCancel"}
        PROVE  FrozenInv' /\ Frozen
    BY <1>1, <2>1, <2>2
  <2>3. CASE IssueAllocate(r) \/ CreditRecheck(r) \/ CreditRefused(r) \/ CreditAllocate(r)
               \/ SendMail(r) \/ SendLog(r) \/ Abort(r)
    BY <2>2, <2>3 DEF IssueAllocate, CreditRecheck, CreditRefused, CreditAllocate, SendMail,
       SendLog, Abort, Enter, Advance, Leave, docVars
  <2>4. ASSUME NEW i \in Ids, Call(r, i)
        PROVE  FrozenInv' /\ Frozen
    <3>1. CASE MarkPaidRead(r, i) \/ CreditRead(r, i) \/ SendRead(r, i)
      BY <2>2, <3>1 DEF MarkPaidRead, CreditRead, SendRead, Enter, docVars
    <3>2. CASE FinalizeRead(r, i)
      BY <1>1, <2>1, <3>2 DEF FinalizeRead, Found, Enter, docVars
    <3>3. CASE CancelRead(r, i)
      BY <1>1, <2>1, <3>3 DEF CancelRead, Found, Cancellable, Statuses, Enter, docVars
    <3> QED  BY <2>4, <3>1, <3>2, <3>3 DEF Call
  <2>5. CASE FinalizeAllocate(r)
    BY <1>1, <2>1, <2>5 DEF FinalizeAllocate, Advance, docVars
  <2>6. ASSUME NEW d \in Ids, NEW x \in Statuses, NEW n, NEW b \in BOOLEAN,
               status' = [status EXCEPT ![d] = x], number' = [number EXCEPT ![d] = n],
               deleted' = [deleted EXCEPT ![d] = b], pc'[r] = "idle",
               number[d] # NoNumber => x \in {status[d], "paid"} /\ n = number[d] /\ ~b,
               n # NoNumber => x \in {"finalized", "paid"} /\ ~b, x # "absent"
        PROVE  FrozenInv' /\ Frozen
    BY <1>1, <2>1, <2>6
  <2>7. ASSUME NEW p, Leave(r, p)  PROVE pc[r] = p /\ pc'[r] = "idle"
    BY <1>1, <2>7 DEF Leave, Advance
  <2>8. CASE CreateIssued(r)
    <3>1. PICK i \in Ids : /\ status[i] = "absent" /\ UNCHANGED deleted
                           /\ status' = [status EXCEPT ![i] = "finalized"]
                           /\ number' = [number EXCEPT ![i] = held[r]]
      BY <2>8 DEF CreateIssued
    <3>2. number[i] = NoNumber /\ ~deleted[i] /\ deleted' = [deleted EXCEPT ![i] = FALSE]
      BY <1>1, <3>1 DEF DocumentsInv
    <3>3. pc'[r] = "idle"  BY <2>7, <2>8 DEF CreateIssued
    <3> QED  BY <2>6, <3>1, <3>2, <3>3 DEF Statuses
  <2>9. CASE FinalizeSave(r)
    <3>1. /\ pc[r] = "saveNumber" /\ pc'[r] = "idle" /\ UNCHANGED deleted
          /\ status' = [status EXCEPT ![doc[r]] = "finalized"]
          /\ number' = [number EXCEPT ![doc[r]] = held[r]]
      BY <2>7, <2>9 DEF FinalizeSave
    <3>2. /\ doc[r] \in Ids /\ number[doc[r]] = NoNumber
          /\ deleted' = [deleted EXCEPT ![doc[r]] = FALSE]
      BY <1>1, <3>1 DEF RequestInv
    <3> QED  BY <2>6, <3>1, <3>2 DEF Statuses
  <2>10. CASE MarkPaidSave(r)
    <3>1. /\ pc[r] = "savePaid" /\ pc'[r] = "idle" /\ UNCHANGED <<number, deleted>>
          /\ status' = [status EXCEPT ![doc[r]] = "paid"]
      BY <2>7, <2>10 DEF MarkPaidSave
    <3>2. /\ doc[r] \in Ids /\ number[doc[r]] # NoNumber
          /\ number' = [number EXCEPT ![doc[r]] = number[doc[r]]]
          /\ deleted' = [deleted EXCEPT ![doc[r]] = FALSE]
      BY <1>1, <3>1 DEF RequestInv
    <3> QED  BY <2>6, <3>1, <3>2 DEF Statuses
  <2>11. CASE CancelSave(r)
    <3>1. /\ pc[r] = "saveCancel" /\ pc'[r] = "idle" /\ UNCHANGED number
          /\ status' = [status EXCEPT ![doc[r]] = "cancelled"]
          /\ deleted' = [deleted EXCEPT ![doc[r]] = TRUE]
      BY <2>7, <2>11 DEF CancelSave
    <3>2. /\ doc[r] \in Ids /\ number[doc[r]] = NoNumber
          /\ number' = [number EXCEPT ![doc[r]] = NoNumber]
      BY <1>1, <3>1 DEF RequestInv
    <3> QED  BY <2>6, <3>1, <3>2 DEF Statuses
  <2> QED
    BY <1>4, <2>3, <2>4, <2>5, <2>8, <2>9, <2>10, <2>11 DEF Continue
<1> QED
  BY <1>2, <1>3, <1>4 DEF Next

(* A send that was logged stays logged: entries are kept, and a later mail *)
(* has a later number.                                                     *)
LEMMA LoggedStays ==
  ASSUME TypeOK, Kept, NEW n \in 1..sends, Logged(n),
         \A i \in Ids : n \in mails'[i] <=> n \in mails[i]
  PROVE  Logged(n)'
<1>1. PICK i \in Ids : \E k \in 1..Len(emailSends[i]) : emailSends[i][k] = Tried(n, i)
  BY DEF Logged
<1>2. PICK k \in 1..Len(emailSends[i]) : emailSends[i][k] = Tried(n, i)
  BY <1>1
<1>3. emailSends'[i][k] = emailSends[i][k] /\ Len(emailSends[i]) <= Len(emailSends'[i])
  BY DEF Kept
<1>4. k \in 1..Len(emailSends'[i])
  <2>1. Len(emailSends[i]) \in Nat /\ k \in Int  BY DEF TypeOK
  <2>2. \A m \in Int : m >= 1 /\ m <= Len(emailSends'[i]) => m \in 1..Len(emailSends'[i])
    OBVIOUS
  <2> QED  BY <1>3, <2>1, <2>2
<1>5. Tried(n, i)' = Tried(n, i)
  BY DEF Tried
<1> QED  BY <1>2, <1>3, <1>4, <1>5 DEF Logged

LEMMA LogStep ==
  ASSUME InvoicesInv, InvoicesInv', Kept, LogInv, OneRequest, NoneStops, [Next]_vars
  PROVE  LogInv'
<1>1. /\ mails \in [Ids -> SUBSET Nat] /\ version \in [Ids -> Nat] /\ sends \in Nat
      /\ pc \in [Requests -> Steps] /\ doc \in [Requests -> Ids \cup {NoInvoice}]
      /\ seen \in [Requests -> [log: Seq(Entry), version: Nat]]
      /\ entry \in [Requests -> Entry] /\ TypeOK
      /\ \A r \in Requests : RequestInv(r)
  BY DEF InvoicesInv, TypeOK
<1>2. ASSUME UNCHANGED <<emailSends, version, mails, sends>>,
             \A r \in Requests : pc'[r] \in {"mail", "log"} \/ pc[r] = "log" =>
               /\ pc'[r] = pc[r] /\ doc'[r] = doc[r] /\ seen'[r] = seen[r]
               /\ entry'[r] = entry[r]
      PROVE  LogInv'
  <2>1. \A n : Logged(n) => Logged(n)'  BY <1>2 DEF Logged, Tried
  <2>2. ASSUME NEW n, NEW r \in Requests, AtLog(n, r)  PROVE AtLog(n, r)'
    <3>1. pc'[r] = "log" /\ doc'[r] = doc[r] /\ entry'[r] = entry[r]
      BY <1>2, <2>2 DEF AtLog
    <3>2. Tried(n, doc[r]) = [at |-> n, sent |-> n \in mails'[doc'[r]]]
      BY <1>2, <3>1 DEF Tried
    <3> QED  BY <2>2, <3>1, <3>2 DEF AtLog, Tried
  <2>3. \A r \in Requests : pc'[r] \in {"mail", "log"} =>
          seen'[r].version = version'[doc'[r]] /\ seen'[r].log = emailSends'[doc'[r]]
    BY <1>2 DEF LogInv
  <2>4. ASSUME NEW n \in 1..sends
        PROVE  Logged(n)' \/ \E r \in Requests : AtLog(n, r)'
    BY <2>1, <2>2 DEF LogInv
  <2>5. (\A i \in Ids : mails[i] \subseteq 1..sends)'  BY <1>2 DEF LogInv
  <2> QED  BY <1>2, <2>3, <2>4, <2>5 DEF LogInv
<1>3. CASE NewYear \/ UNCHANGED vars
  BY <1>2, <1>3 DEF NewYear, vars, docVars, reqVars, logVars
<1>4. ASSUME NEW i \in Ids, CreateDraft(i)
      PROVE  LogInv'
  BY <1>2, <1>4 DEF CreateDraft, reqVars, logVars
<1>5. ASSUME NEW r \in Requests, IssueAllocate(r) \/ Continue(r) \/ Abort(r)
                                   \/ \E i \in Ids : Call(r, i)
      PROVE  LogInv'
  <2>1. \A q \in Requests : q = r
    BY DEF OneRequest
  <2>2. ASSUME UNCHANGED <<emailSends, version, mails, sends>>,
               NEW from, Advance(r, from, pc'[r]), pc'[r] \notin {"mail", "log"}, from # "log"
        PROVE  LogInv'
    BY <1>1, <1>2, <2>1, <2>2 DEF Advance
  <2>3. ASSUME NEW p, NEW q, Advance(r, p, q)  PROVE pc'[r] = q /\ pc[r] = p
    BY <1>1, <2>3 DEF Advance
  <2>4. ~Abort(r)
    <3>1. aborts \in Nat  BY <1>1 DEF TypeOK
    <3> QED  BY <3>1 DEF Abort, NoneStops
  <2>5. CASE IssueAllocate(r)
    BY <2>2, <2>3, <2>5 DEF IssueAllocate, Enter, Advance, docVars, logVars
  <2>6. ASSUME NEW i \in Ids, Call(r, i), ~SendRead(r, i)
        PROVE  LogInv'
    BY <2>2, <2>3, <2>6 DEF Call, FinalizeRead, MarkPaidRead, CancelRead, CreditRead, Enter,
       Advance, docVars, logVars
  <2>7. CASE FinalizeAllocate(r) \/ CreditRecheck(r) \/ CreditAllocate(r)
    BY <2>2, <2>3, <2>7 DEF FinalizeAllocate, CreditRecheck, CreditAllocate, docVars, logVars
  <2>8. CASE CreateIssued(r) \/ FinalizeSave(r) \/ MarkPaidSave(r) \/ CancelSave(r)
               \/ CreditRefused(r)
    BY <2>2, <2>3, <2>8 DEF CreateIssued, FinalizeSave, MarkPaidSave, CancelSave,
       CreditRefused, Leave, docVars, logVars
  <2>9. ASSUME NEW i \in Ids, SendRead(r, i)
        PROVE  LogInv'
    <3>1. /\ pc[r] = "idle" /\ pc'[r] = "mail" /\ doc'[r] = i
          /\ UNCHANGED <<emailSends, version, mails, sends>>
          /\ seen'[r] = [log |-> emailSends[i], version |-> version[i]]
      BY <1>1, <2>9 DEF SendRead, Enter, docVars, logVars
    <3>2. \A n \in 1..sends : Logged(n)
      BY <2>1, <3>1 DEF LogInv, AtLog
    <3>3. \A n \in 1..sends : Logged(n)'
      BY <3>1, <3>2 DEF Logged, Tried
    <3>4. \A j \in Ids : mails'[j] \subseteq 1..sends'  BY <3>1 DEF LogInv
    <3> QED  BY <2>1, <3>1, <3>3, <3>4 DEF LogInv
  <2>10. CASE SendMail(r)
    <3> DEFINE i == doc[r]
    <3>1. /\ pc[r] = "mail" /\ pc'[r] = "log" /\ sends' = sends + 1 /\ i \in Ids
          /\ UNCHANGED <<emailSends, version, doc, seen>>
      BY <1>1, <2>10 DEF SendMail, Advance, RequestInv, docVars
    <3>2. PICK sent \in BOOLEAN :
            /\ entry' = [entry EXCEPT ![r] = [at |-> sends', sent |-> sent]]
            /\ mails' = IF sent THEN [mails EXCEPT ![i] = @ \cup {sends'}] ELSE mails
      BY <2>10 DEF SendMail, LogEntry
    <3>3. \A j \in Ids : mails[j] \subseteq 1..sends  BY DEF LogInv
    <3>4. \A j \in Ids : mails'[j] \subseteq mails[j] \cup {sends'}
      BY <1>1, <3>1, <3>2
    <3>5. \A j \in Ids : mails'[j] \subseteq 1..sends'
      BY <1>1, <3>1, <3>3, <3>4
    <3>6. ASSUME NEW n \in 1..sends  PROVE Logged(n)'
      <4>1. n # sends'  BY <1>1, <3>1
      <4>2. \A j \in Ids : n \in mails'[j] <=> n \in mails[j]
        BY <3>4, <4>1 DEF Kept
      <4>3. Logged(n)  BY <2>1, <3>1 DEF LogInv, AtLog
      <4> QED  BY <1>1, <4>2, <4>3, LoggedStays
    <3>7. entry'[r] = [at |-> sends', sent |-> sends' \in mails'[doc'[r]]]
      <4>1. entry'[r] = [at |-> sends', sent |-> sent]  BY <1>1, <3>2
      <4>2. sends' \notin mails[i]  BY <1>1, <3>1, <3>3
      <4>3. sends' \in mails'[i] <=> sent  BY <1>1, <3>1, <3>2, <4>2
      <4>4. ASSUME NEW a, NEW b \in BOOLEAN, NEW c \in BOOLEAN, b <=> c
            PROVE  [at |-> a, sent |-> b] = [at |-> a, sent |-> c]
        BY <4>4
      <4>5. (sends' \in mails'[i]) \in BOOLEAN  OBVIOUS
      <4>6. [at |-> sends', sent |-> sent] = [at |-> sends', sent |-> sends' \in mails'[i]]
        BY <4>3, <4>4, <4>5
      <4>7. doc'[r] = i  BY <3>1
      <4> QED  BY <4>1, <4>6, <4>7
    <3>8. \A n \in 1..sends' : n \in 1..sends \/ n = sends'
      BY <1>1, <3>1
    <3>9. \A q \in Requests : pc'[q] \in {"mail", "log"} =>
            seen'[q].version = version'[doc'[q]] /\ seen'[q].log = emailSends'[doc'[q]]
      BY <2>1, <3>1 DEF LogInv
    <3>10. ASSUME NEW n \in 1..sends'
           PROVE  Logged(n)' \/ \E q \in Requests : AtLog(n, q)'
      <4>1. n = sends' => AtLog(n, r)'  BY <3>1, <3>7 DEF AtLog, Tried
      <4> QED  BY <3>6, <3>8, <4>1
    <3> QED  BY <3>5, <3>9, <3>10 DEF LogInv
  <2>11. CASE SendLog(r)
    <3> DEFINE i == doc[r]
    <3>1. /\ pc[r] = "log" /\ pc'[r] = "idle" /\ i \in Ids /\ UNCHANGED <<mails, sends>>
      BY <1>1, <2>11 DEF SendLog, Leave, Advance, RequestInv, logVars
    <3>2. /\ seen[r].version = version[i] /\ seen[r].log = emailSends[i]
      BY <3>1 DEF LogInv
    <3>3. emailSends' = [emailSends EXCEPT ![i] = Append(emailSends[i], entry[r])]
      BY <2>11, <3>2 DEF SendLog, SaveAccepted
    <3>4. emailSends \in [Ids -> Seq(Entry)] /\ entry[r] \in Entry
      BY <1>1 DEF TypeOK
    <3>5. emailSends'[i] = Append(emailSends[i], entry[r])
      BY <3>1, <3>3, <3>4
    <3>6. LET s == emailSends[i] IN
          Len(s) + 1 \in 1..Len(Append(s, entry[r])) /\ Append(s, entry[r])[Len(s) + 1] = entry[r]
      BY <3>1, <3>4
    <3>7. ASSUME NEW n \in 1..sends  PROVE Logged(n)'
      <4>1. CASE Logged(n)  BY <1>1, <3>1, <4>1, LoggedStays
      <4>2. CASE AtLog(n, r)
        <5>1. \E k \in 1..Len(emailSends'[i]) :
                emailSends'[i][k] = [at |-> n, sent |-> n \in mails'[i]]
          BY <3>1, <3>5, <3>6, <4>2 DEF AtLog, Tried
        <5> QED  BY <3>1, <5>1 DEF Logged, Tried
      <4> QED  BY <2>1, <4>1, <4>2 DEF LogInv
    <3>8. \A q \in Requests : pc'[q] = "idle"  BY <2>1, <3>1
    <3>9. \A n \in 1..sends' : Logged(n)'  BY <3>1, <3>7
    <3>10. \A j \in Ids : mails'[j] \subseteq 1..sends'  BY <3>1 DEF LogInv
    <3> QED  BY <3>8, <3>9, <3>10 DEF LogInv
  <2> QED
    BY <1>5, <2>4, <2>5, <2>6, <2>7, <2>8, <2>9, <2>10, <2>11 DEF Continue
<1> QED
  BY <1>3, <1>4, <1>5 DEF Next

(* How a step moves the numbers when no request stops: it hands out the    *)
(* next one, writes the held one on a document that has none, or neither.  *)
Hands(r) ==
  /\ held[r] = NoNumber /\ UNCHANGED number
  /\ held'[r] \in Number /\ held'[r].year = year
  /\ held'[r].seq = lastNumber[held'[r].series][year] + 1
  /\ lastNumber' = [lastNumber EXCEPT ![held'[r].series][year] = held'[r].seq]
  /\ pc'[r] \in {"saveNumber", "create"}

Saves(r, i) ==
  /\ held[r] \in Number /\ held'[r] = NoNumber /\ UNCHANGED lastNumber
  /\ number[i] = NoNumber /\ number' = [number EXCEPT ![i] = held[r]]

LEMMA NumberMoves ==
  ASSUME InvoicesInv, FrozenInv, LedgerInv, OneRequest, NoneStops, [Next]_vars
  PROVE  \/ /\ UNCHANGED <<number, lastNumber, held>>
            /\ \A r \in Requests : held[r] # NoNumber => pc'[r] = pc[r]
         \/ \E r \in Requests : Hands(r)
         \/ \E r \in Requests, i \in Ids : Saves(r, i)
<1>1. /\ pc \in [Requests -> Steps] /\ doc \in [Requests -> Ids \cup {NoInvoice}]
      /\ held \in [Requests -> Number \cup {NoNumber}] /\ year \in Years
      /\ lastNumber \in [Series -> [Years -> Nat]]
      /\ TypeOK /\ DocumentsInv /\ \A r \in Requests : RequestInv(r)
  BY DEF InvoicesInv, TypeOK
<1>2. CASE NewYear \/ UNCHANGED vars
  BY <1>2 DEF NewYear, vars, docVars, reqVars
<1>3. ASSUME NEW i \in Ids, CreateDraft(i)
      PROVE  UNCHANGED <<number, lastNumber, held, pc>>
  BY <1>3 DEF CreateDraft, reqVars
<1>4. ASSUME NEW r \in Requests, IssueAllocate(r) \/ Continue(r) \/ Abort(r)
                                   \/ \E i \in Ids : Call(r, i)
      PROVE  \/ /\ UNCHANGED <<number, lastNumber, held>>
                /\ \A q \in Requests : held[q] # NoNumber => pc'[q] = pc[q]
             \/ Hands(r)
             \/ \E i \in Ids : Saves(r, i)
  <2>1. \A q \in Requests : q = r
    BY DEF OneRequest
  <2>2. held[r] # NoNumber => pc[r] \in {"saveNumber", "create"}
    BY DEF LedgerInv
  <2>3. ASSUME NEW p, NEW q, Advance(r, p, q)  PROVE pc[r] = p /\ pc'[r] = q
    BY <1>1, <2>3 DEF Advance
  <2>4. ASSUME NEW p, Leave(r, p)
        PROVE  /\ pc[r] = p /\ held'[r] = NoNumber
               /\ held[r] = NoNumber => UNCHANGED held
    BY <1>1, <2>1, <2>4 DEF Leave, Advance
  <2>5. ~Abort(r)
    <3>1. aborts \in Nat  BY <1>1 DEF TypeOK
    <3> QED  BY <3>1 DEF Abort, NoneStops
  <2>6. ASSUME NEW i \in Ids, Call(r, i)
        PROVE  /\ UNCHANGED <<number, lastNumber, held>> /\ held[r] = NoNumber
    BY <2>2, <2>6 DEF Call, FinalizeRead, MarkPaidRead, CancelRead, CreditRead, SendRead,
       Enter, docVars
  <2>7. CASE CreditRecheck(r) \/ SendMail(r)
    BY <2>1, <2>2, <2>3, <2>7 DEF CreditRecheck, SendMail, docVars, reqVars
  <2>8. CASE MarkPaidSave(r) \/ CancelSave(r) \/ CreditRefused(r) \/ SendLog(r)
    BY <2>1, <2>2, <2>4, <2>8 DEF MarkPaidSave, CancelSave, CreditRefused, SendLog, docVars
  <2>9. ASSUME Allocates(r)  PROVE Hands(r)
    <3>1. PICK s \in Series : AllocateNumber(r, s)
      BY <2>9 DEF Allocates, IssueAllocate, FinalizeAllocate, CreditAllocate, SeriesOf, Series
    <3>2. /\ UNCHANGED number /\ pc'[r] \in {"saveNumber", "create"} /\ held[r] = NoNumber
      BY <1>1, <2>2, <2>9 DEF Allocates, IssueAllocate, FinalizeAllocate, CreditAllocate,
         Enter, Advance, docVars
    <3> DEFINE n == lastNumber[s][year] + 1
    <3>3. /\ lastNumber' = [lastNumber EXCEPT ![s][year] = n]
          /\ held'[r] = [series |-> s, year |-> year, seq |-> n]
      BY <1>1, <3>1 DEF AllocateNumber
    <3>4. n \in Nat \ {0}  BY <1>1
    <3>5. held'[r] \in Number  BY <1>1, <3>3, <3>4 DEF Number
    <3> QED  BY <3>2, <3>3, <3>5 DEF Hands
  <2>10. CASE CreateIssued(r)
    <3>1. PICK i \in Ids : status[i] = "absent" /\ number' = [number EXCEPT ![i] = held[r]]
      BY <2>10 DEF CreateIssued
    <3>2. number[i] = NoNumber  BY <1>1, <3>1 DEF DocumentsInv
    <3>3. pc[r] = "create" /\ held'[r] = NoNumber /\ UNCHANGED lastNumber
      BY <2>4, <2>10 DEF CreateIssued
    <3>4. held[r] \in Number  BY <1>1, <3>3 DEF RequestInv
    <3> QED  BY <3>1, <3>2, <3>3, <3>4 DEF Saves
  <2>11. CASE FinalizeSave(r)
    <3>1. /\ pc[r] = "saveNumber" /\ held'[r] = NoNumber /\ UNCHANGED lastNumber
          /\ number' = [number EXCEPT ![doc[r]] = held[r]]
      BY <2>4, <2>11 DEF FinalizeSave
    <3>2. held[r] \in Number /\ doc[r] \in Ids  BY <1>1, <3>1 DEF RequestInv
    <3>3. number[doc[r]] = NoNumber  BY <3>1, <3>2 DEF FrozenInv, Issued
    <3> QED  BY <3>1, <3>2, <3>3 DEF Saves
  <2> QED
    BY <1>4, <2>1, <2>5, <2>6, <2>7, <2>8, <2>9, <2>10, <2>11 DEF Continue, Allocates
<1> QED
  BY <1>2, <1>3, <1>4 DEF Next

(* What a counter has reached grows by the number handed out.              *)
LEMMA HandedOne ==
  ASSUME TypeOK, NEW r \in Requests, Hands(r), NEW n \in Number
  PROVE  HandedOut(n)' <=> HandedOut(n) \/ n = held'[r]
<1> DEFINE h == held'[r]
<1>1. /\ h.series \in Series /\ h.year \in Years /\ h.seq \in Nat /\ h.year = year
      /\ h = [series |-> h.series, year |-> h.year, seq |-> h.seq]
      /\ n.series \in Series /\ n.year \in Years /\ n.seq \in Nat
      /\ n = [series |-> n.series, year |-> n.year, seq |-> n.seq]
      /\ h.seq = lastNumber[h.series][year] + 1
      /\ lastNumber' = [lastNumber EXCEPT ![h.series][year] = h.seq]
      /\ lastNumber \in [Series -> [Years -> Nat]]
  BY DEF Hands, Number, TypeOK
<1> HIDE DEF h
<1>2. CASE n.series = h.series /\ n.year = h.year
  <2>1. lastNumber'[n.series][n.year] = h.seq /\ lastNumber[n.series][n.year] + 1 = h.seq
    BY <1>1, <1>2
  <2>2. n = h <=> n.seq = h.seq  BY <1>1, <1>2
  <2>3. lastNumber[n.series][n.year] \in Nat  BY <1>1
  <2>4. \A k, m, g \in Nat : k + 1 = g => (m <= g <=> m <= k \/ m = g)
    OBVIOUS
  <2>5. n.seq <= lastNumber'[n.series][n.year]
          <=> n.seq <= lastNumber[n.series][n.year] \/ n.seq = h.seq
    BY <1>1, <2>1, <2>3, <2>4
  <2> QED  BY <2>2, <2>5 DEF HandedOut, h
<1>3. CASE ~(n.series = h.series /\ n.year = h.year)
  <2>1. lastNumber'[n.series][n.year] = lastNumber[n.series][n.year]
    BY <1>1, <1>3
  <2> QED  BY <1>3, <2>1 DEF HandedOut, h
<1> QED  BY <1>2, <1>3

LEMMA LedgerStep ==
  ASSUME InvoicesInv, InvoicesInv', FrozenInv, LedgerInv, OneRequest, NoneStops, [Next]_vars
  PROVE  LedgerInv'
<1> DEFINE Placed(n) == (\E i \in Ids : number[i] = n) \/ (\E r \in Requests : held[r] = n)
<1>1. /\ number \in [Ids -> Number \cup {NoNumber}] /\ NoNumber \notin Number
      /\ held \in [Requests -> Number \cup {NoNumber}] /\ TypeOK
      /\ held' \in [Requests -> Number \cup {NoNumber}]
  BY InvoicesAssumption DEF InvoicesInv, TypeOK
<1>2. CASE /\ UNCHANGED <<number, lastNumber, held>>
           /\ \A r \in Requests : held[r] # NoNumber => pc'[r] = pc[r]
  BY <1>2 DEF LedgerInv, HandedOut
<1>3. ASSUME NEW r \in Requests, Hands(r)
      PROVE  LedgerInv'
  <2>1. \A q \in Requests : q = r
    BY DEF OneRequest
  <2>2. \A n \in Number : HandedOut(n)' => HandedOut(n) \/ n = held'[r]
    BY <1>1, <1>3, HandedOne
  <2>3. \A n \in Number : HandedOut(n) => \E i \in Ids : number[i] = n
    BY <1>1, <1>3, <2>1 DEF LedgerInv, Hands
  <2>4. held'[r].seq = lastNumber'[held'[r].series][held'[r].year]
    BY <1>1, <1>3 DEF Hands, Number, TypeOK
  <2> QED  BY <1>3, <2>1, <2>2, <2>3, <2>4 DEF LedgerInv, Hands
<1>4. ASSUME NEW r \in Requests, NEW i \in Ids, Saves(r, i)
      PROVE  LedgerInv'
  <2>1. \A q \in Requests : q = r
    BY DEF OneRequest
  <2>2. \A n \in Number : HandedOut(n)' <=> HandedOut(n)
    BY <1>4 DEF Saves, HandedOut
  <2>3. ASSUME NEW n \in Number, HandedOut(n)  PROVE \E j \in Ids : number'[j] = n
    BY <1>1, <1>4, <2>1, <2>3 DEF LedgerInv, Saves
  <2> QED  BY <1>4, <2>1, <2>2, <2>3 DEF LedgerInv, Saves
<1> QED
  BY <1>2, <1>3, <1>4, NumberMoves

-----------------------------------------------------------------------------
(* One request at a time: the invariant, if the instance has one.          *)
LEMMA SerialInvariant == Spec => [](InvoicesInv /\ SerialInv)
<1>1. Init => SerialInv
  <2> SUFFICES ASSUME Init  PROVE FrozenInv /\ LogInv /\ LedgerInv
    BY DEF SerialInv
  <2>1. FrozenInv
    BY DEF Init, FrozenInv
  <2>2. LogInv
    BY DEF Init, LogInv
  <2>3. LedgerInv
    BY DEF Init, LedgerInv, HandedOut, Number
  <2> QED  BY <2>1, <2>2, <2>3
<1>2. InvoicesInv /\ InvoicesInv' /\ SerialInv /\ [Next]_vars => SerialInv'
  <2>1. SUFFICES ASSUME InvoicesInv, InvoicesInv', SerialInv, [Next]_vars, OneRequest
                 PROVE  FrozenInv' /\ (NoneStops => LogInv' /\ LedgerInv')
    BY DEF SerialInv, OneRequest, NoneStops
  <2>2. FrozenInv'  BY <2>1, FrozenStep DEF SerialInv
  <2>3. NoneStops => LogInv' /\ LedgerInv'
    BY <2>1, KeptStep, LogStep, LedgerStep DEF SerialInv
  <2> QED  BY <2>2, <2>3
<1> QED
  BY <1>1, <1>2, InvoicesInvariant, PTL DEF Spec

(* When no request is in flight, every e-mail tried is in a log with its   *)
(* outcome, if requests neither overlap nor stop.                          *)
THEOREM AttemptsAreLogged ==
  ASSUME OneRequest, NoneStops
  PROVE  Spec => []EveryAttemptLogged
<1>1. SerialInv => EveryAttemptLogged
  BY DEF SerialInv, LogInv, AtLog, EveryAttemptLogged, Quiet, Logged, Tried
<1> QED
  BY <1>1, SerialInvariant, PTL

(* Requests that do not overlap, even if they stop half way, leave an      *)
(* issued document its number and only ever mark it as paid ...            *)
THEOREM IssuedStaysFrozen ==
  ASSUME OneRequest
  PROVE  Spec => IssuedFrozen
<1>1. InvoicesInv /\ SerialInv /\ [Next]_vars =>
        [\A i \in Ids : number[i] # NoNumber =>
           /\ number'[i] = number[i]
           /\ ~deleted'[i]
           /\ status'[i] \in {status[i], "paid"}]_vars
  BY FrozenStep DEF SerialInv, Frozen
<1> QED
  BY <1>1, SerialInvariant, PTL DEF Spec, IssuedFrozen

(* ... and do not delete it: what invoices_deleted refutes for requests    *)
(* that overlap.                                                           *)
THEOREM IssuedStaysListed ==
  ASSUME OneRequest
  PROVE  Spec => []IssuedNeverDeleted
<1>1. SerialInv => IssuedNeverDeleted
  BY DEF SerialInv, FrozenInv, IssuedNeverDeleted
<1> QED
  BY <1>1, SerialInvariant, PTL

-----------------------------------------------------------------------------
(***************************************************************************)
(* The refinement of the bound ledgers.                                    *)
(***************************************************************************)

(* The numbers of a book and the only document that carries one.           *)
Numbered(b) == {number[i].seq : i \in {j \in Ids : InBook(b, j)}}

LEMMA BookNumber ==
  ASSUME TypeOK, NEW b \in Series \X Years, NEW i \in Ids, InBook(b, i)
  PROVE  /\ number[i] \in Number
         /\ number[i] = [series |-> b[1], year |-> b[2], seq |-> number[i].seq]
<1>1. number[i] \in Number /\ <<number[i].series, number[i].year>> = b
  BY DEF InBook, TypeOK
<1>2. b[1] = number[i].series /\ b[2] = number[i].year
  BY <1>1
<1> QED  BY <1>1, <1>2 DEF Number

Paged(b) ==
  /\ \A n \in Numbered(b) :
       PageOf(b, n) \in Ids /\ InBook(b, PageOf(b, n)) /\ number[PageOf(b, n)].seq = n
  /\ \A i, j \in Ids : InBook(b, i) /\ InBook(b, j) /\ number[i].seq = number[j].seq => i = j

AllPaged == \A b \in Series \X Years : Paged(b)

LEMMA OnePage == TypeOK /\ NumbersUnique => AllPaged
<1> SUFFICES ASSUME TypeOK, NumbersUnique, NEW b \in Series \X Years
             PROVE  Paged(b)
  BY DEF AllPaged
<1>1. ASSUME NEW n \in Numbered(b)
      PROVE  PageOf(b, n) \in Ids /\ InBook(b, PageOf(b, n)) /\ number[PageOf(b, n)].seq = n
  <2>1. \E i \in Ids : InBook(b, i) /\ number[i].seq = n  BY DEF Numbered
  <2> QED  BY <2>1 DEF PageOf
<1>2. ASSUME NEW i \in Ids, NEW j \in Ids, InBook(b, i), InBook(b, j),
             number[i].seq = number[j].seq
      PROVE  i = j
  <2>1. /\ number[i] = [series |-> b[1], year |-> b[2], seq |-> number[i].seq]
        /\ number[j] = [series |-> b[1], year |-> b[2], seq |-> number[j].seq]
    BY <1>2, BookNumber
  <2>2. number[i] # NoNumber  BY <1>2 DEF InBook
  <2>3. number[i] = number[j]  BY <1>2, <2>1
  <2> QED  BY <2>2, <2>3 DEF NumbersUnique
<1> QED  BY <1>1, <1>2 DEF Paged

(* The empty collection is empty ledgers.                                  *)
LEMMA LedgersInitially == Init => Ledger!LedgerInit
<1> SUFFICES ASSUME Init  PROVE Pages = [b \in Series \X Years |-> << >>]
  BY DEF Ledger!LedgerInit
<1>1. ASSUME NEW b \in Series \X Years
      PROVE  [n \in {number[i].seq : i \in {j \in Ids : InBook(b, j)}} |-> PageOf(b, n)] = << >>
  <2>1. {number[i].seq : i \in {j \in Ids : InBook(b, j)}} = {}
    BY DEF Init, InBook
  <2>2. \A S : S = {} => [n \in S |-> PageOf(b, n)] = << >>
    OBVIOUS
  <2> QED  BY <2>1, <2>2
<1> QED  BY <1>1 DEF Pages

(* A document saved with the number held by the only request goes on the   *)
(* first free page of its book: all the pages before it are taken.         *)
LEMMA SavesEnter ==
  ASSUME InvoicesInv, InvoicesInv', LedgerInv, OneRequest,
         NEW r \in Requests, NEW i \in Ids, Saves(r, i)
  PROVE  Ledger!LedgerNext
<1>1. /\ TypeOK /\ TypeOK' /\ NumbersUnique /\ NumbersUnique' /\ DocumentsInv
      /\ number \in [Ids -> Number \cup {NoNumber}] /\ NoNumber \notin Number
  BY InvoicesAssumption DEF InvoicesInv, TypeOK
<1>2. PICK h \in Number : h = held[r] /\ number[i] = NoNumber /\ number' = [number EXCEPT ![i] = h]
  BY DEF Saves
<1>3. PICK b \in Series \X Years, top \in Nat \ {0} :
        /\ b = <<h.series, h.year>> /\ h.series = b[1] /\ h.year = b[2]
        /\ top = h.seq /\ h = [series |-> b[1], year |-> b[2], seq |-> top]
        /\ b[1] \in Series /\ b[2] \in Years
  <2>1. /\ h.series \in Series /\ h.year \in Years /\ h.seq \in Nat \ {0}
        /\ h = [series |-> h.series, year |-> h.year, seq |-> h.seq]
    BY DEF Number
  <2>2. <<h.series, h.year>> \in Series \X Years
    BY <2>1
  <2>3. <<h.series, h.year>>[1] = h.series /\ <<h.series, h.year>>[2] = h.year
    OBVIOUS
  <2> QED  BY <2>1, <2>2, <2>3
<1>4. top = lastNumber[b[1]][b[2]]
  BY <1>1, <1>2, <1>3 DEF LedgerInv
<1>5. /\ \A j \in Ids : j # i => number'[j] = number[j]
      /\ \A j \in Ids : \A c : j # i => (InBook(c, j)' <=> InBook(c, j))
      /\ number'[i].seq = top /\ \A c : ~InBook(c, i) /\ (InBook(c, i)' <=> c = b)
  BY <1>1, <1>2, <1>3 DEF InBook
<1>6. Numbered(b) = 1..(top - 1)
  <2>1. ASSUME NEW j \in Ids, InBook(b, j)  PROVE number[j].seq \in 1..(top - 1)
    <3>1. /\ number[j] \in Number
          /\ number[j] = [series |-> b[1], year |-> b[2], seq |-> number[j].seq]
      BY <1>1, <2>1, BookNumber
    <3>2. number[j].seq # top  BY <1>1, <1>2, <1>3, <3>1 DEF NumbersUnique
    <3>3. HandedOut(number[j])  BY <1>1, <3>1 DEF DocumentsInv
    <3>4. number[j].seq <= top /\ number[j].seq \in Nat \ {0}
      BY <1>4, <3>1, <3>3 DEF HandedOut, Number
    <3> QED  BY <3>2, <3>4
  <2>2. ASSUME NEW n \in 1..(top - 1)  PROVE \E j \in Ids : InBook(b, j) /\ number[j].seq = n
    <3>1. PICK m \in Number : m = [series |-> b[1], year |-> b[2], seq |-> n]
      <4>1. n \in Nat \ {0}  OBVIOUS
      <4> QED  BY <1>3, <4>1 DEF Number
    <3>2. HandedOut(m)  BY <1>4, <3>1 DEF HandedOut
    <3>3. \A q \in Requests : held[q] # m
      <4>1. m.seq # h.seq  BY <1>3, <3>1
      <4> QED  BY <1>2, <4>1 DEF OneRequest
    <3>4. PICK j \in Ids : number[j] = m  BY <3>2, <3>3 DEF LedgerInv
    <3> QED  BY <1>1, <1>3, <3>1, <3>4 DEF InBook
  <2> QED  BY <2>1, <2>2 DEF Numbered
<1>7. Numbered(b)' = 1..top
  <2>1. ASSUME NEW n
        PROVE  (\E j \in Ids : InBook(b, j)' /\ number'[j].seq = n)
                 <=> (\E j \in Ids : InBook(b, j) /\ number[j].seq = n) \/ n = top
    BY <1>5
  <2>2. 1..top = 1..(top - 1) \cup {top}
    OBVIOUS
  <2> QED  BY <1>6, <2>1, <2>2 DEF Numbered
<1>8. ASSUME NEW c \in Series \X Years, NEW n \in Numbered(c)
      PROVE  PageOf(c, n)' = PageOf(c, n)
  <2>1. PICK p \in Ids : p = PageOf(c, n) /\ InBook(c, p) /\ number[p].seq = n
    BY <1>1, <1>8, OnePage DEF AllPaged, Paged
  <2>2. InBook(c, p)' /\ number'[p].seq = n
    BY <1>5, <2>1
  <2>3. n \in Numbered(c)'
    BY <2>2 DEF Numbered
  <2>4. Paged(c)'
    <3>1. AllPaged'  BY <1>1, OnePage, PTL
    <3> QED  BY <3>1 DEF AllPaged
  <2>5. PageOf(c, n)' \in Ids /\ (InBook(c, PageOf(c, n)) /\ number[PageOf(c, n)].seq = n)'
    BY <2>3, <2>4 DEF Paged
  <2>6. \A j, k \in Ids : InBook(c, j)' /\ InBook(c, k)' /\ number'[j].seq = number'[k].seq
          => j = k
    BY <2>4 DEF Paged
  <2>7. PICK q : q = PageOf(c, n)'
    OBVIOUS
  <2> QED  BY <2>1, <2>2, <2>5, <2>6, <2>7
<1>9. PageOf(b, top)' = i
  <2>1. InBook(b, i)' /\ number'[i].seq = top
    BY <1>5
  <2>2. top \in Numbered(b)'
    BY <1>7, <1>3
  <2>3. Paged(b)'
    <3>1. AllPaged'  BY <1>1, OnePage, PTL
    <3> QED  BY <3>1 DEF AllPaged
  <2>4. PageOf(b, top)' \in Ids /\ (InBook(b, PageOf(b, top)) /\ number[PageOf(b, top)].seq = top)'
    BY <2>2, <2>3 DEF Paged
  <2>5. PICK q : q = PageOf(b, top)'
    OBVIOUS
  <2>6. \A j, k \in Ids : InBook(b, j)' /\ InBook(b, k)' /\ number'[j].seq = number'[k].seq
          => j = k
    BY <2>3 DEF Paged
  <2> QED  BY <2>1, <2>4, <2>5, <2>6
<1>10. \A c \in Series \X Years : c # b => Numbered(c)' = Numbered(c)
  <2>1. SUFFICES ASSUME NEW c \in Series \X Years, c # b
                 PROVE  Numbered(c)' = Numbered(c)
    OBVIOUS
  <2>2. ASSUME NEW n
        PROVE  (\E j \in Ids : InBook(c, j)' /\ number'[j].seq = n)
                 <=> (\E j \in Ids : InBook(c, j) /\ number[j].seq = n)
    BY <1>5, <2>1
  <2>3. \A n : n \in Numbered(c)' <=> n \in Numbered(c)
    BY <2>2 DEF Numbered
  <2> QED  BY <2>3
<1>11. Pages = [c \in Series \X Years |-> [n \in Numbered(c) |-> PageOf(c, n)]]
  BY DEF Pages, Numbered
<1>12. Pages' = [c \in Series \X Years |-> [n \in Numbered(c)' |-> PageOf(c, n)']]
  BY DEF Pages, Numbered
<1>13. \A c \in Series \X Years : c # b => Pages'[c] = Pages[c]
  BY <1>8, <1>10, <1>11, <1>12
<1>14. Pages[b] \in Seq(Ids) /\ Len(Pages[b]) = top - 1
  <2>1. Pages[b] = [n \in 1..(top - 1) |-> PageOf(b, n)]
    BY <1>6, <1>11
  <2>2. \A n \in 1..(top - 1) : PageOf(b, n) \in Ids
    BY <1>1, <1>6, OnePage DEF AllPaged, Paged
  <2> QED  BY <2>1, <2>2
<1>15. Pages'[b] = Append(Pages[b], i)
  <2>1. Pages'[b] = [n \in 1..top |-> IF n = top THEN i ELSE PageOf(b, n)]
    BY <1>6, <1>7, <1>8, <1>9, <1>12
  <2>2. \A n \in 1..(top - 1) : Pages[b][n] = PageOf(b, n)
    BY <1>6, <1>11
  <2>3. Append(Pages[b], i) = [n \in 1..top |-> IF n = top THEN i ELSE Pages[b][n]]
    BY <1>14
  <2> QED  BY <2>1, <2>2, <2>3
<1>16. Pages' = [Pages EXCEPT ![b] = Append(@, i)]
  BY <1>11, <1>12, <1>13, <1>15
<1>17. ~Ledger!Entered(i)
  <2>1. ASSUME NEW c \in Series \X Years, NEW n \in DOMAIN Pages[c], Pages[c][n] = i
        PROVE  FALSE
    <3>1. n \in Numbered(c) /\ PageOf(c, n) = i  BY <1>11, <2>1
    <3>2. InBook(c, i)  BY <1>1, <3>1, OnePage DEF AllPaged, Paged
    <3> QED  BY <1>5, <3>2
  <2> QED  BY <2>1 DEF Ledger!Entered
<1> QED
  BY <1>16, <1>17 DEF Ledger!LedgerNext, Ledger!EnterDocument

(* One request at a time, none stopped: the service implements the bound   *)
(* ledgers.  Only a save moves Pages, and it enters one document.          *)
THEOREM LedgerIsImplemented ==
  ASSUME OneRequest, NoneStops
  PROVE  Spec => ImplementsLedger
<1>1. InvoicesInv /\ InvoicesInv' /\ SerialInv /\ [Next]_vars => [Ledger!LedgerNext]_Pages
  <2> SUFFICES ASSUME InvoicesInv, InvoicesInv', SerialInv, [Next]_vars
               PROVE  [Ledger!LedgerNext]_Pages
    OBVIOUS
  <2>1. FrozenInv /\ LedgerInv
    BY DEF SerialInv
  <2>2. UNCHANGED number => UNCHANGED Pages
    BY DEF Pages, PageOf, InBook
  <2>3. (\E r \in Requests : Hands(r)) => UNCHANGED number
    BY DEF Hands
  <2>4. (\E r \in Requests, i \in Ids : Saves(r, i)) => Ledger!LedgerNext
    BY <2>1, SavesEnter
  <2> QED
    BY <2>1, <2>2, <2>3, <2>4, NumberMoves
<1> QED
  BY <1>1, SerialInvariant, LedgersInitially, PTL
     DEF Spec, ImplementsLedger, Ledger!LedgerSpec

=============================================================================
