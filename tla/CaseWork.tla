------------------------------- MODULE CaseWork -------------------------------
(***************************************************************************)
(* A case with its todos, its interventions and its quotes: CasesService,  *)
(* InterventionsService and QuotesService, behind CasesGatewayService.     *)
(*                                                                         *)
(* They are documents of four collections that requests read and write one *)
(* at a time: the count of interventions, the status that follows the      *)
(* todos, the deletion of the case with its content and the numbers of the *)
(* quotes are each kept by several updates, with awaits between them.      *)
(***************************************************************************)
EXTENDS Integers, Sequences, FiniteSets, FiniteSetsExt

CONSTANTS
  Requests,     (* requests that may be in flight at the same time          *)
  Todos,        (* the todos of the case                                    *)
  Wide,         (* the last number of four digits: 9999 in the program      *)
  MaxAttempts,  (* QUOTE_NUMBER_MAX_ATTEMPTS                                *)
  None,         (* no answer of the customer                                *)
  MaxCalls,     (* bound on the requests                                    *)
  MaxStops      (* bound on the requests that stop half-way                 *)

ASSUME CaseWorkAssumption ==
  /\ Todos # {} /\ IsFiniteSet(Todos) /\ IsFiniteSet(Requests)
  /\ {Wide, MaxAttempts} \subseteq Nat \ {0}
  /\ {MaxCalls, MaxStops} \subseteq Nat

VARIABLES
  case,         (* the document of the case                                 *)
  works,        (* interventions, in the order of their creation            *)
  quotes,       (* quotes, in the order of their creation                   *)
  pc,           (* the await each request is at                             *)
  op,           (* what each request works on and has read                  *)
  byHand,       (* a user wrote the status after the last todo              *)
  crossed,      (* the last todo was saved on a case that had changed       *)
  doubled,      (* deletions of interventions already deleted               *)
  lost,         (* what requests that stopped would have added to the count *)
  calls, stops, (* requests so far, and those that stopped                  *)
  overlapped    (* two requests have been in flight at the same time        *)

docs   == <<case, works, quotes>>
ghosts == <<byHand, crossed, doubled, lost, stops>>
vars   == <<docs, pc, op, ghosts, calls, overlapped>>

CaseStatuses  == {"draft", "open", "in_progress", "waiting", "completed", "cancelled"}
WorkStatuses  == {"planned", "in_progress", "completed", "cancelled"}
QuoteStatuses == {"draft", "sent", "accepted", "rejected", "cancelled"}
Answers       == {"accepted", "rejected"}

Case  == [status: CaseStatuses, todos: [Todos -> {"pending", "done", "skipped"}],
          count: Int, live: BOOLEAN]
Work  == [status: WorkStatuses, signatures: Nat, live: BOOLEAN, late: BOOLEAN]
Quote == [number: Nat \ {0}, status: QuoteStatuses, sends: Nat, version: Nat,
          answer: Answers \cup {None}, contested: BOOLEAN, live: BOOLEAN, late: BOOLEAN]

Fresh     == [status |-> "draft", todos |-> [t \in Todos |-> "pending"], count |-> 0,
              live |-> TRUE]
NewWork   == [status |-> "planned", signatures |-> 0, live |-> TRUE, late |-> FALSE]
NewQuote(n) ==
  [number |-> n, status |-> "draft", sends |-> 0, version |-> 0, answer |-> None,
   contested |-> FALSE, live |-> TRUE, late |-> FALSE]

NoOp == [at |-> 0, case |-> Fresh, to |-> Fresh, status |-> "draft", version |-> 0,
         number |-> 0, attempt |-> 0, sent |-> FALSE]

Awaits == {"todo", "clear", "void", "insert", "count", "retire", "uncount", "start",
           "complete", "sign", "number", "quote", "mail", "log", "keep", "drop"}

TypeOK ==
  /\ case \in Case
  /\ works \in Seq(Work)
  /\ quotes \in Seq(Quote)
  /\ pc \in [Requests -> Awaits \cup {"idle"}]
  /\ \A r \in Requests :
       /\ op[r].at \in 0..(Len(works) + Len(quotes))
       /\ {op[r].case, op[r].to} \subseteq Case
       /\ op[r].number \in Nat /\ op[r].attempt \in 0..MaxAttempts
       /\ pc[r] \in {"number", "quote"} => op[r].attempt < MaxAttempts
  /\ {byHand, crossed, overlapped} \subseteq BOOLEAN
  /\ {doubled, calls, stops} \subseteq Nat /\ lost \in Int

Init ==
  /\ case = Fresh /\ works = << >> /\ quotes = << >>
  /\ pc = [r \in Requests |-> "idle"] /\ op = [r \in Requests |-> NoOp]
  /\ byHand = FALSE /\ crossed = FALSE /\ doubled = 0 /\ lost = 0
  /\ calls = 0 /\ stops = 0 /\ overlapped = FALSE

-----------------------------------------------------------------------------
Quiet == \A r \in Requests : pc[r] = "idle"

Called(r) ==
  /\ pc[r] = "idle"
  /\ calls < MaxCalls
  /\ calls' = calls + 1
  /\ overlapped' = (overlapped \/ ~Quiet)

(* A request that read, and is now at an await.                            *)
Enter(r, at, o) ==
  /\ Called(r)
  /\ pc' = [pc EXCEPT ![r] = at]
  /\ op' = [op EXCEPT ![r] = o]
  /\ UNCHANGED <<docs, ghosts>>

(* A request that is one conditional update.                               *)
Once(r) == Called(r) /\ UNCHANGED <<pc, op>>

Advance(r, from, to) ==
  /\ pc[r] = from
  /\ pc' = [pc EXCEPT ![r] = to]
  /\ UNCHANGED <<calls, overlapped>>

Leave(r, from) ==
  /\ Advance(r, from, "idle")
  /\ op' = [op EXCEPT ![r] = NoOp]

LiveWorks == {i \in DOMAIN works : works[i].live}

-----------------------------------------------------------------------------
(* The case and its todos.                                                 *)

(* autoAdvanceStatus, of the document that the request has read.           *)
AllDone(c) == \A t \in Todos : c.todos[t] \in {"done", "skipped"}
AnyDone(c) == \E t \in Todos : c.todos[t] = "done"

StartedFromDraft(c) ==                                      \* slip of Advanced
  [c EXCEPT !.status = IF AllDone(c) THEN "completed"
                       ELSE IF AnyDone(c) /\ @ = "draft" THEN "in_progress"
                       ELSE @]

Advanced(c) ==
  [c EXCEPT !.status = IF AllDone(c) THEN "completed"
                       ELSE IF AnyDone(c) /\ @ \in {"draft", "open"} THEN "in_progress"
                       ELSE @]

(* updateTodo.                                                             *)
TodoRead(r, t, s) ==
  /\ case.live
  /\ Enter(r, "todo", [NoOp EXCEPT !.case = case,
                                   !.to = Advanced([case EXCEPT !.todos[t] = s])])

(* doc.save() writes the todo and the status if they are not as read, to   *)
(* the document of that _id: no save of the case bumps its version.        *)
Saved(now, read, to) ==
  [now EXCEPT
    !.todos  = [t \in Todos |-> IF to.todos[t] = read.todos[t] THEN @[t] ELSE to.todos[t]],
    !.status = IF to.status = read.status THEN @ ELSE to.status]

TodoSave(r) ==
  /\ Leave(r, "todo")
  /\ case' = Saved(case, op[r].case, op[r].to)
  /\ byHand' = FALSE
  /\ crossed' = (case.todos # op[r].case.todos \/ case.status # op[r].case.status)
  /\ UNCHANGED <<works, quotes, doubled, lost, stops>>

(* updateCase writes the status it is given, without a check.              *)
UpdateCase(r, s) ==
  /\ case.live
  /\ Once(r)
  /\ case' = [case EXCEPT !.status = s]
  /\ byHand' = TRUE
  /\ UNCHANGED <<works, quotes, crossed, doubled, lost, stops>>

(* deleteCase: the case, then its interventions, then its quotes.          *)
DeleteCase(r) ==
  /\ case.live
  /\ Called(r)
  /\ case' = [case EXCEPT !.live = FALSE]
  /\ pc' = [pc EXCEPT ![r] = "clear"]
  /\ UNCHANGED <<works, quotes, op, ghosts>>

ClearWorks(r) ==
  /\ Advance(r, "clear", "void")
  /\ works' = [i \in DOMAIN works |-> [works[i] EXCEPT !.live = FALSE]]
  /\ UNCHANGED <<case, quotes, op, ghosts>>

VoidQuotes(r) ==
  /\ Leave(r, "void")
  /\ quotes' = [i \in DOMAIN quotes |-> [quotes[i] EXCEPT !.live = FALSE]]
  /\ UNCHANGED <<case, works, ghosts>>

-----------------------------------------------------------------------------
(* Interventions.                                                          *)

CreateWorkRead(r) == case.live /\ Enter(r, "insert", NoOp)

InsertWork(r) ==
  /\ Advance(r, "insert", "count")
  /\ works' = Append(works, [NewWork EXCEPT !.late = ~case.live])
  /\ UNCHANGED <<case, quotes, op, ghosts>>

(* $inc of interventionCount, of a case that is not deleted.               *)
CountedUp(n) == [case EXCEPT !.count = IF case.live THEN @ + 1 ELSE @]
                                                             \* slip of Counted
Counted(n)  == [case EXCEPT !.count = IF case.live THEN @ + n ELSE @]
Owed        == [r \in Requests |->
                  IF pc[r] = "count" THEN 1 ELSE IF pc[r] = "uncount" THEN -1 ELSE 0]

CountWork(r) ==
  /\ Leave(r, "count")
  /\ case' = Counted(1)
  /\ UNCHANGED <<works, quotes, ghosts>>

(* updateIntervention writes the status it is given, without a check.      *)
UpdateWork(r, i, s) ==
  /\ works[i].live
  /\ Once(r)
  /\ works' = [works EXCEPT ![i].status = s]
  /\ UNCHANGED <<case, quotes, ghosts>>

WorkRead(r, i, at) == works[i].live /\ Enter(r, at, [NoOp EXCEPT !.at = i])

DeleteWorkRead(r, i) == WorkRead(r, i, "retire")

(* The update is of that _id, deleted in between or not.                   *)
RetireWork(r) ==
  LET i == op[r].at
  IN  /\ Advance(r, "retire", "uncount")
      /\ works' = [works EXCEPT ![i].live = FALSE]
      /\ doubled' = IF works[i].live THEN doubled ELSE doubled + 1
      /\ UNCHANGED <<case, quotes, op, byHand, crossed, lost, stops>>

UncountWork(r) ==
  /\ Leave(r, "uncount")
  /\ case' = Counted(-1)
  /\ UNCHANGED <<works, quotes, ghosts>>

StartRead(r, i)    == works[i].status = "planned" /\ WorkRead(r, i, "start")
CompleteRead(r, i) == works[i].status = "in_progress" /\ WorkRead(r, i, "complete")

MaySign(i)  == works[i].status = "completed" /\ works[i].signatures = 0

SignRead(r, i) == MaySign(i) /\ WorkRead(r, i, "sign")

(* What was read is not checked again by the update.                       *)
Worked(r, from, w) ==
  /\ Leave(r, from)
  /\ works' = [works EXCEPT ![op[r].at] = w]
  /\ UNCHANGED <<case, quotes, ghosts>>

StartWork(r)    == Worked(r, "start", [works[op[r].at] EXCEPT !.status = "in_progress"])
CompleteWork(r) == Worked(r, "complete", [works[op[r].at] EXCEPT !.status = "completed"])
SignWork(r)     == Worked(r, "sign", [works[op[r].at] EXCEPT !.signatures = @ + 1])

-----------------------------------------------------------------------------
(* Quotes.                                                                 *)

CreateQuoteRead(r) == case.live /\ Enter(r, "number", NoOp)

(* generateQuoteNumber: one more than the last number as text, where one   *)
(* of five digits comes before 9999.                                       *)
Live           == {i \in DOMAIN quotes : quotes[i].live}
LastOf(S)      == LET narrow == {n \in S : n <= Wide}
                  IN  IF S = {} THEN 0 ELSE IF narrow = {} THEN Max(S) ELSE Max(narrow)
NextAmongLive  == LastOf({quotes[i].number : i \in Live}) + 1  \* slip of NextNumber
NextNumber     == LastOf({quotes[i].number : i \in DOMAIN quotes}) + 1

GenerateNumber(r) ==
  /\ Advance(r, "number", "quote")
  /\ op' = [op EXCEPT ![r].number = NextNumber]
  /\ UNCHANGED <<docs, ghosts>>

(* The unique index is of the quotes that are not deleted.                 *)
Taken(n) == \E i \in Live : quotes[i].number = n

InsertQuote(r) ==
  /\ Leave(r, "quote")
  /\ ~Taken(op[r].number)
  /\ quotes' = Append(quotes, [NewQuote(op[r].number) EXCEPT !.late = ~case.live])
  /\ UNCHANGED <<case, works, ghosts>>

OverAttempts(r) == op[r].attempt = MaxAttempts             \* slip of LastAttempt
LastAttempt(r)  == op[r].attempt + 1 = MaxAttempts

RetryQuote(r) ==
  /\ Taken(op[r].number) /\ ~LastAttempt(r)
  /\ Advance(r, "quote", "number")
  /\ op' = [op EXCEPT ![r].attempt = @ + 1]
  /\ UNCHANGED <<docs, ghosts>>

RefuseQuote(r) ==
  /\ Taken(op[r].number) /\ LastAttempt(r)
  /\ Leave(r, "quote")
  /\ UNCHANGED <<docs, ghosts>>

(* updateQuote writes the status it is given, without a check: the answer  *)
(* of the customer is one.                                                 *)
UpdateQuote(r, i, s) ==
  /\ quotes[i].live
  /\ Once(r)
  /\ quotes' = [quotes EXCEPT
       ![i].status = s,
       ![i].answer = IF s \in Answers THEN s ELSE None,
       ![i].contested = \E q \in Requests : pc[q] = "keep" /\ op[q].at = i]
  /\ UNCHANGED <<case, works, ghosts>>

(* sendQuote: mail the quote, then log the mail and mark a draft as sent.  *)
SendRead(r, i) ==
  /\ quotes[i].live /\ quotes[i].status \in {"draft", "sent", "accepted"}
  /\ Enter(r, "mail", [NoOp EXCEPT !.at = i, !.status = quotes[i].status])

Mail(r, sent) ==
  /\ Advance(r, "mail", "log")
  /\ op' = [op EXCEPT ![r].sent = sent /\ op[r].status = "draft"]
  /\ UNCHANGED <<docs, ghosts>>

(* appendQuoteEmailSend reads the quote again.                             *)
MarkedAnyway(r) == IF op[r].sent THEN "sent" ELSE quotes[op[r].at].status
                                                              \* slip of Marked
Marked(r) == LET s == quotes[op[r].at].status
             IN  IF op[r].sent /\ s = "draft" THEN "sent" ELSE s

LogRead(r) ==
  /\ Advance(r, "log", "keep")
  /\ quotes[op[r].at].live
  /\ op' = [op EXCEPT ![r].status = Marked(r), ![r].version = quotes[op[r].at].version,
                      ![r].sent = (Marked(r) # quotes[op[r].at].status)]
  /\ UNCHANGED <<docs, ghosts>>

LogNothing(r) ==
  /\ pc[r] = "log" /\ ~quotes[op[r].at].live
  /\ Leave(r, "log")
  /\ UNCHANGED <<docs, ghosts>>

(* The save replaces the whole log: it is refused if another has done so.  *)
LogSave(r) ==
  LET i == op[r].at
  IN  /\ Leave(r, "keep")
      /\ quotes' = IF quotes[i].version # op[r].version THEN quotes
                   ELSE [quotes EXCEPT ![i].sends = @ + 1, ![i].version = @ + 1,
                                       ![i].status = IF op[r].sent THEN op[r].status ELSE @]
      /\ UNCHANGED <<case, works, ghosts>>

(* deleteQuote: only drafts, as read.                                      *)
DeleteQuoteRead(r, i) ==
  /\ quotes[i].live /\ quotes[i].status = "draft"
  /\ Enter(r, "drop", [NoOp EXCEPT !.at = i])

DropQuote(r) ==
  /\ Leave(r, "drop")
  /\ quotes' = [quotes EXCEPT ![op[r].at].live = FALSE]
  /\ UNCHANGED <<case, works, ghosts>>

(* An exception or a restart stops a request; what it wrote stays.         *)
Stop(r) ==
  /\ stops < MaxStops
  /\ pc[r] # "idle"
  /\ stops' = stops + 1
  /\ lost' = lost + Owed[r]
  /\ Leave(r, pc[r])
  /\ UNCHANGED <<docs, byHand, crossed, doubled>>

-----------------------------------------------------------------------------
Call(r) ==
  \/ \E t \in Todos, s \in {"pending", "done", "skipped"} : TodoRead(r, t, s)
  \/ \E s \in CaseStatuses : UpdateCase(r, s)
  \/ DeleteCase(r)
  \/ CreateWorkRead(r)
  \/ CreateQuoteRead(r)
  \/ \E i \in DOMAIN works :
       \/ \E s \in WorkStatuses : UpdateWork(r, i, s)
       \/ DeleteWorkRead(r, i)
       \/ StartRead(r, i) \/ CompleteRead(r, i) \/ SignRead(r, i)
  \/ \E i \in DOMAIN quotes :
       \/ \E s \in QuoteStatuses : UpdateQuote(r, i, s)
       \/ SendRead(r, i) \/ DeleteQuoteRead(r, i)

Continue(r) ==
  \/ TodoSave(r)
  \/ ClearWorks(r) \/ VoidQuotes(r)
  \/ InsertWork(r) \/ CountWork(r)
  \/ RetireWork(r) \/ UncountWork(r)
  \/ StartWork(r) \/ CompleteWork(r) \/ SignWork(r)
  \/ GenerateNumber(r) \/ InsertQuote(r) \/ RetryQuote(r) \/ RefuseQuote(r)
  \/ \E sent \in BOOLEAN : Mail(r, sent)
  \/ LogRead(r) \/ LogNothing(r) \/ LogSave(r)
  \/ DropQuote(r)

Next == \E r \in Requests : Call(r) \/ Continue(r) \/ Stop(r)

Spec == Init /\ [][Next]_vars

-----------------------------------------------------------------------------
(***************************************************************************)
(* Properties.  Each says which overlap the code does not survive.         *)
(***************************************************************************)

(* The case answers for its content.  interventionCount, which the lists   *)
(* show, is whatever overlaps or stops off by the deletions of an          *)
(* intervention deleted in between, and by nothing else; a deleted case    *)
(* leaves neither interventions nor quotes behind, but those that a        *)
(* request in flight created after it.                                     *)
ContentAccounted ==
  /\ case.live => case.count + SumFunction(Owed) + lost
                    = Cardinality(LiveWorks) - doubled
  /\ Quiet /\ stops = 0 /\ ~case.live =>
       /\ \A i \in DOMAIN works : works[i].live => works[i].late
       /\ \A i \in DOMAIN quotes : quotes[i].live => quotes[i].late

(* updateTodo: a case whose todos are all dealt with is completed, and one *)
(* with a todo done is started, unless a user wrote the status since or    *)
(* the case was changed while the todo was being saved.                    *)
TodosAdvance ==
  ~byHand /\ ~crossed =>
    /\ AllDone(case) => case.status = "completed"
    /\ AnyDone(case) => case.status \notin {"draft", "open"}

(* What a customer has given is kept: an answer to a quote is not undone   *)
(* by a mail that was on its way, unless it came while that mail was being *)
(* logged; and without overlaps no signature is replaced, and a quote whose*)
(* status is not draft is only deleted with its case.                      *)
CustomerWordKept ==
  /\ \A i \in DOMAIN quotes :
       /\ quotes[i].answer # None /\ ~quotes[i].contested =>
            quotes[i].status = quotes[i].answer
       /\ ~overlapped /\ case.live /\ ~quotes[i].live => quotes[i].status = "draft"
  /\ \A i \in DOMAIN works : ~overlapped => works[i].signatures <= 1

(* generateQuoteNumber, "y compris soft-deleted": without overlaps, two    *)
(* quotes never have the same number, even if one is deleted, as long as   *)
(* four digits are enough.                                                 *)
NumbersNeverReused ==
  ~overlapped =>
    \A i, j \in DOMAIN quotes :
      quotes[i].number = quotes[j].number => i = j \/ quotes[i].number > Wide

===============================================================================
