---------------------------- MODULE CaseWorkProofs ----------------------------
(***************************************************************************)
(* What CaseWork promises, for any requests, todos and attempts.           *)
(***************************************************************************)
EXTENDS CaseWork, DataLemmas

-----------------------------------------------------------------------------
(* Types.  What a request has read is an intervention, a quote or a case.  *)

Op == [at: Nat, case: Case, to: Case, status: CaseStatuses \cup QuoteStatuses,
       version: Nat, number: Nat, attempt: Nat, sent: BOOLEAN]

DocsOK == case \in Case /\ works \in Seq(Work) /\ quotes \in Seq(Quote)

RequestsOK == pc \in [Requests -> Awaits \cup {"idle"}] /\ op \in [Requests -> Op]

HistoryOK ==
  /\ {byHand, crossed, overlapped} \subseteq BOOLEAN
  /\ {doubled, calls, stops} \subseteq Nat /\ lost \in Int

Shape(r) ==
  /\ op[r].at \in 0..(Len(works) + Len(quotes))
  /\ op[r].attempt <= MaxAttempts
  /\ pc[r] \in {"number", "quote"} => op[r].attempt < MaxAttempts
  /\ pc[r] = "quote" => op[r].number > 0
  /\ pc[r] \in {"retire", "start", "complete", "sign"} => op[r].at \in DOMAIN works
  /\ pc[r] \in {"mail", "log", "keep", "drop"} => op[r].at \in DOMAIN quotes
  /\ pc[r] = "keep" => op[r].status \in QuoteStatuses

TypeInv == DocsOK /\ RequestsOK /\ HistoryOK /\ \A r \in Requests : Shape(r)

-----------------------------------------------------------------------------
(***************************************************************************)
(* The inductive invariant.                                                *)
(***************************************************************************)

(* The content of a case is being deleted once the case is.                *)
CountInv ==
  /\ case.live => case.count + SumFunction(Owed) + lost = Cardinality(LiveWorks) - doubled
  /\ \A r \in Requests : pc[r] \in {"clear", "void"} => ~case.live

ClearedInv ==
  ~case.live /\ stops = 0 =>
    /\ (\A r \in Requests : pc[r] # "clear") =>
         \A i \in DOMAIN works : works[i].live => works[i].late
    /\ (\A r \in Requests : pc[r] \notin {"clear", "void"}) =>
         \A i \in DOMAIN quotes : quotes[i].live => quotes[i].late

(* A case whose status has followed its todos, as updateTodo saves it.     *)
Followed(c) ==
  /\ AllDone(c) => c.status = "completed"
  /\ AnyDone(c) => c.status \notin {"draft", "open"}

AdvanceInv ==
  /\ ~byHand /\ ~crossed => Followed(case)
  /\ \A r \in Requests : pc[r] = "todo" => Followed(op[r].to)

(* A request that logs a mail and marks its quote as sent has read a draft.*)
AnswerInv ==
  /\ \A i \in DOMAIN quotes :
       quotes[i].answer # None /\ ~quotes[i].contested => quotes[i].status = quotes[i].answer
  /\ \A r \in Requests : pc[r] = "keep" /\ op[r].sent =>
       quotes[op[r].at].answer = None \/ quotes[op[r].at].contested

(* While requests do not overlap, what one has read still holds.           *)
Alone == \A r, s \in Requests : pc[r] # "idle" /\ pc[s] # "idle" => r = s

Knows(r) ==
  /\ pc[r] = "sign" => works[op[r].at].signatures = 0
  /\ pc[r] = "drop" => quotes[op[r].at].status = "draft"
  /\ pc[r] = "keep" => quotes[op[r].at].live
  /\ pc[r] = "quote" => op[r].number = NextNumber

Drafts   == \A i \in DOMAIN quotes : case.live /\ ~quotes[i].live => quotes[i].status = "draft"
Signed   == \A i \in DOMAIN works : works[i].signatures <= 1
Numbered == \A i, j \in DOMAIN quotes :
              quotes[i].number = quotes[j].number => i = j \/ quotes[i].number > Wide

SoloInv ==
  ~overlapped =>
    Alone /\ Drafts /\ Signed /\ Numbered /\ \A r \in Requests : Knows(r)

IInv == TypeInv /\ CountInv /\ ClearedInv /\ AdvanceInv /\ AnswerInv /\ SoloInv

-----------------------------------------------------------------------------
(* The records that the operations make.                                   *)

LEMMA FreshType == Fresh \in Case
  BY DEF Fresh, Case, CaseStatuses

LEMMA NoOpType == NoOp \in Op /\ NoOp.at = 0 /\ NoOp.attempt = 0
  BY FreshType DEF NoOp, Op, CaseStatuses, QuoteStatuses

(* What a request that reads takes with it.                                *)
LEMMA AtAsked ==
  ASSUME NEW i \in Nat
  PROVE  LET o == [NoOp EXCEPT !.at = i]
         IN  o \in Op /\ o.at = i /\ o.attempt = 0
  <1>1. ASSUME NEW b \in Op
        PROVE  LET o == [b EXCEPT !.at = i]
               IN  o \in Op /\ o.at = i /\ o.attempt = b.attempt
    BY DEF Op
  <1> QED  BY <1>1, NoOpType

LEMMA MailAsked ==
  ASSUME NEW i \in Nat, NEW s \in QuoteStatuses
  PROVE  LET o == [NoOp EXCEPT !.at = i, !.status = s]
         IN  o \in Op /\ o.at = i /\ o.attempt = 0
  <1>1. ASSUME NEW b \in Op
        PROVE  LET o == [b EXCEPT !.at = i, !.status = s]
               IN  o \in Op /\ o.at = i /\ o.attempt = b.attempt
    BY DEF Op
  <1> QED  BY <1>1, NoOpType

(* The status follows the todos and changes nothing else.                  *)
LEMMA AdvancedType ==
  ASSUME NEW c \in Case
  PROVE  /\ Advanced(c) \in Case /\ Advanced(c).todos = c.todos
         /\ Followed(Advanced(c))
  <1>1. Advanced(c) \in Case /\ Advanced(c).todos = c.todos
    BY DEF Advanced, Case, CaseStatuses
  <1>2. Advanced(c).status = IF AllDone(c) THEN "completed"
                             ELSE IF AnyDone(c) /\ c.status \in {"draft", "open"}
                                  THEN "in_progress" ELSE c.status
    BY DEF Advanced, Case
  <1>3. /\ AllDone(Advanced(c)) <=> AllDone(c)
        /\ AnyDone(Advanced(c)) <=> AnyDone(c)
    BY <1>1 DEF AllDone, AnyDone
  <1> QED  BY <1>1, <1>2, <1>3 DEF Followed

LEMMA TodoSet ==
  ASSUME NEW c \in Case, NEW t \in Todos, NEW s \in {"pending", "done", "skipped"}
  PROVE  [c EXCEPT !.todos[t] = s] \in Case
  BY DEF Case

LEMMA SavedType ==
  ASSUME NEW now \in Case, NEW read \in Case, NEW to \in Case
  PROVE  /\ Saved(now, read, to) \in Case
         /\ Saved(now, read, to).live = now.live /\ Saved(now, read, to).count = now.count
         /\ now.todos = read.todos /\ now.status = read.status
              => /\ Saved(now, read, to).todos = to.todos
                 /\ Saved(now, read, to).status = to.status
  <1>1. /\ Saved(now, read, to).live = now.live
        /\ Saved(now, read, to).count = now.count
        /\ Saved(now, read, to).status
             = IF to.status = read.status THEN now.status ELSE to.status
        /\ Saved(now, read, to).todos
             = [t \in Todos |-> IF to.todos[t] = read.todos[t] THEN now.todos[t]
                                ELSE to.todos[t]]
    BY DEF Saved, Case
  <1>2. Saved(now, read, to) \in Case
    BY DEF Saved, Case
  <1>3. to.todos \in [Todos -> {"pending", "done", "skipped"}]  BY DEF Case
  <1>4. now.todos = read.todos => Saved(now, read, to).todos = to.todos
    BY <1>1, <1>3
  <1> QED  BY <1>1, <1>2, <1>4

LEMMA CountedType ==
  ASSUME case \in Case, NEW n \in Int
  PROVE  /\ Counted(n) \in Case
         /\ Counted(n).status = case.status /\ Counted(n).todos = case.todos
         /\ Counted(n).live = case.live
         /\ case.live => Counted(n).count = case.count + n
  BY DEF Counted, Case

-----------------------------------------------------------------------------
(* The numbers of the quotes.                                              *)
LEMMA MaxOf ==
  ASSUME NEW S \in SUBSET Nat, IsFiniteSet(S), S # {}
  PROVE  Max(S) \in S /\ \A y \in S : Max(S) >= y
  BY FiniteGreatest DEF Max, HasGreatest

LEMMA LastOfFacts ==
  ASSUME NEW S \in SUBSET Nat, IsFiniteSet(S)
  PROVE  /\ LastOf(S) \in Nat
         /\ \A n \in S : n <= Wide => n <= LastOf(S)
  <1> DEFINE narrow == {n \in S : n <= Wide}
  <1>1. narrow \in SUBSET Nat /\ IsFiniteSet(narrow)  BY FS_Subset
  <1>2. LastOf(S) = IF S = {} THEN 0 ELSE IF narrow = {} THEN Max(S) ELSE Max(narrow)
    BY DEF LastOf
  <1>3. Wide \in Nat  BY CaseWorkAssumption
  <1>4. CASE S = {}  BY <1>2, <1>4
  <1>5. CASE S # {} /\ narrow = {}
    <2>1. Max(S) \in S  BY <1>5, MaxOf
    <2> QED  BY <1>2, <1>3, <1>5, <2>1
  <1>6. CASE S # {} /\ narrow # {}
    <2>1. Max(narrow) \in narrow /\ \A y \in narrow : Max(narrow) >= y
      <3> HIDE DEF narrow
      <3> QED  BY <1>1, <1>6, MaxOf
    <2>2. LastOf(S) = Max(narrow)  BY <1>2, <1>6
    <2>3. \A n \in S : n \in Nat  OBVIOUS
    <2> QED  BY <1>3, <2>1, <2>2, <2>3
  <1> QED  BY <1>4, <1>5, <1>6

(* generateQuoteNumber: a number is new unless it has five digits.         *)
LEMMA NextNumberNew ==
  ASSUME quotes \in Seq(Quote)
  PROVE  /\ NextNumber \in Nat \ {0}
         /\ \A i \in DOMAIN quotes : quotes[i].number = NextNumber => quotes[i].number > Wide
  <1> DEFINE S == {quotes[i].number : i \in DOMAIN quotes}
  <1>1. IsFiniteSet(DOMAIN quotes) /\ \A i \in DOMAIN quotes : quotes[i] \in Quote
    BY SeqFacts
  <1>2. S \in SUBSET Nat  BY <1>1 DEF Quote
  <1>3. IsFiniteSet(S)
    <2> DEFINE f == [i \in DOMAIN quotes |-> quotes[i].number]
    <2>1. f \in Surjection(DOMAIN quotes, S)  BY DEF Surjection
    <2> HIDE DEF f, S
    <2> QED  BY <1>1, <2>1, FS_Surjection
  <1>4. NextNumber = LastOf(S) + 1  BY DEF NextNumber
  <1>5. \A i \in DOMAIN quotes : quotes[i].number \in S  OBVIOUS
  <1> HIDE DEF S
  <1>6. LastOf(S) \in Nat /\ \A n \in S : n <= Wide => n <= LastOf(S)
    BY <1>2, <1>3, LastOfFacts
  <1>7. Wide \in Nat  BY CaseWorkAssumption
  <1> QED  BY <1>2, <1>4, <1>5, <1>6, <1>7

-----------------------------------------------------------------------------
(* Each step keeps the types.                                              *)

LEMMA Places ==
  ASSUME TypeInv
  PROVE  /\ Len(works) \in Nat /\ DOMAIN works = 1..Len(works)
         /\ Len(quotes) \in Nat /\ DOMAIN quotes = 1..Len(quotes)
         /\ \A i \in DOMAIN works : works[i] \in Work /\ i \in Nat
         /\ \A i \in DOMAIN quotes : quotes[i] \in Quote /\ i \in Nat
  BY SeqFacts DEF TypeInv, DocsOK

(* The collections only grow.                                              *)
Grown == /\ Len(works) <= Len(works') /\ DOMAIN works \subseteq DOMAIN works'
         /\ Len(quotes) <= Len(quotes') /\ DOMAIN quotes \subseteq DOMAIN quotes'

LEMMA DocsType ==
  ASSUME TypeInv, NEW r \in Requests, Call(r) \/ Continue(r) \/ Stop(r)
  PROVE  DocsOK' /\ Grown
  <1>1. case \in Case /\ works \in Seq(Work) /\ quotes \in Seq(Quote) /\ op[r] \in Op
    BY DEF TypeInv, DocsOK, RequestsOK
  <1>2. ASSUME UNCHANGED <<works, quotes>>, case' \in Case  PROVE DocsOK' /\ Grown
    BY <1>1, <1>2, Places DEF DocsOK, Grown
  <1>3. ASSUME UNCHANGED <<case, quotes>>, NEW i \in DOMAIN works, NEW w \in Work,
               works' = [works EXCEPT ![i] = w]
        PROVE  DocsOK' /\ Grown
    BY <1>1, <1>3, Places DEF DocsOK, Grown
  <1>4. ASSUME UNCHANGED <<case, works>>, NEW i \in DOMAIN quotes, NEW q \in Quote,
               quotes' = [quotes EXCEPT ![i] = q]
        PROVE  DocsOK' /\ Grown
    BY <1>1, <1>4, Places DEF DocsOK, Grown
  <1>5. \A i \in DOMAIN works : works[i] \in Work  BY Places
  <1>6. \A i \in DOMAIN quotes : quotes[i] \in Quote  BY Places
  <1>7. CASE Call(r)
    <2>1. CASE UNCHANGED docs  BY <1>1, <1>2, <2>1 DEF docs
    <2>2. ASSUME NEW s \in CaseStatuses, UpdateCase(r, s)
          PROVE  DocsOK' /\ Grown
      <3>1. case' \in Case  BY <1>1, <2>2 DEF UpdateCase, Case, CaseStatuses
      <3> QED  BY <1>2, <2>2, <3>1 DEF UpdateCase
    <2>3. CASE DeleteCase(r)
      <3>1. case' \in Case  BY <1>1, <2>3 DEF DeleteCase, Case
      <3> QED  BY <1>2, <2>3, <3>1 DEF DeleteCase
    <2>4. ASSUME NEW i \in DOMAIN works, NEW s \in WorkStatuses, UpdateWork(r, i, s)
          PROVE  DocsOK' /\ Grown
      <3>1. [works[i] EXCEPT !.status = s] \in Work  BY <1>5 DEF Work, WorkStatuses
      <3> QED  BY <1>3, <2>4, <3>1 DEF UpdateWork
    <2>5. ASSUME NEW i \in DOMAIN quotes, NEW s \in QuoteStatuses,
                 UpdateQuote(r, i, s)
          PROVE  DocsOK' /\ Grown
      <3> DEFINE b == \E q \in Requests : pc[q] = "keep" /\ op[q].at = i
                 a == IF s \in Answers THEN s ELSE None
                 e == [quotes[i] EXCEPT !.status = s, !.answer = a, !.contested = b]
      <3>1. quotes' = [quotes EXCEPT ![i] = e]  BY <2>5 DEF UpdateQuote
      <3>2. b \in BOOLEAN /\ a \in Answers \cup {None}  OBVIOUS
      <3> HIDE DEF b, a
      <3>3. e \in Quote
        <4>1. ASSUME NEW q \in Quote, NEW x \in QuoteStatuses, NEW y \in Answers \cup {None},
                     NEW z \in BOOLEAN
              PROVE  [q EXCEPT !.status = x, !.answer = y, !.contested = z] \in Quote
          BY <4>1 DEF Quote
        <4> QED  BY <1>6, <3>2, <4>1 DEF QuoteStatuses
      <3>4. UNCHANGED <<case, works>>  BY <2>5 DEF UpdateQuote
      <3> HIDE DEF e
      <3> QED  BY <1>4, <3>1, <3>3, <3>4
    <2>6. UNCHANGED docs \/ (\E s \in CaseStatuses : UpdateCase(r, s))
          \/ DeleteCase(r)
          \/ (\E i \in DOMAIN works, s \in WorkStatuses : UpdateWork(r, i, s))
          \/ (\E i \in DOMAIN quotes, s \in QuoteStatuses :
                UpdateQuote(r, i, s))
      BY <1>7 DEF Call, TodoRead, CreateWorkRead, CreateQuoteRead, DeleteWorkRead, StartRead,
         CompleteRead, SignRead, WorkRead, SendRead, DeleteQuoteRead, Enter
    <2> QED  BY <2>1, <2>2, <2>3, <2>4, <2>5, <2>6
  <1>8. CASE UNCHANGED docs  BY <1>1, <1>2, <1>8 DEF docs
  <1>9. CASE TodoSave(r)
    <2>1. op[r].case \in Case /\ op[r].to \in Case  BY <1>1 DEF Op
    <2>2. case' \in Case  BY <1>1, <1>9, <2>1, SavedType DEF TodoSave
    <2> QED  BY <1>2, <1>9, <2>2 DEF TodoSave
  <1>10. CASE ClearWorks(r)
    <2>1. \A i \in DOMAIN works : [works[i] EXCEPT !.live = FALSE] \in Work
      BY <1>5 DEF Work
    <2>2. works' \in [DOMAIN works -> Work]  BY <1>10, <2>1 DEF ClearWorks
    <2>3. works' \in Seq(Work) /\ DOMAIN works' = DOMAIN works /\ Len(works') = Len(works)
      BY <2>2, Places
    <2> QED  BY <1>1, <1>10, <2>3, Places DEF ClearWorks, DocsOK, Grown
  <1>11. CASE VoidQuotes(r)
    <2>1. \A i \in DOMAIN quotes : [quotes[i] EXCEPT !.live = FALSE] \in Quote
      BY <1>6 DEF Quote
    <2>2. quotes' \in [DOMAIN quotes -> Quote]  BY <1>11, <2>1 DEF VoidQuotes
    <2>3. quotes' \in Seq(Quote) /\ DOMAIN quotes' = DOMAIN quotes
          /\ Len(quotes') = Len(quotes)
      BY <2>2, Places
    <2> QED  BY <1>1, <1>11, <2>3, Places DEF VoidQuotes, DocsOK, Grown
  <1>12. CASE InsertWork(r)
    <2> DEFINE w == [NewWork EXCEPT !.late = ~case.live]
    <2>1. w \in Work
      <3>1. NewWork \in Work  BY DEF NewWork, Work, WorkStatuses
      <3> QED  BY <3>1 DEF Work
    <2>2. works' = Append(works, w) /\ UNCHANGED <<case, quotes>>  BY <1>12 DEF InsertWork
    <2> HIDE DEF w
    <2> QED  BY <1>1, <2>1, <2>2, SeqAdd, Places DEF DocsOK, Grown
  <1>13. CASE CountWork(r) \/ UncountWork(r)
    <2>1. case' \in Case
      <3>1. -1 \in Int /\ 1 \in Int  OBVIOUS
      <3> QED  BY <1>1, <1>13, <3>1, CountedType DEF CountWork, UncountWork
    <2> QED  BY <1>2, <1>13, <2>1 DEF CountWork, UncountWork
  <1>14. CASE RetireWork(r)
    <2>1. op[r].at \in DOMAIN works
      BY <1>14 DEF RetireWork, Advance, TypeInv, Shape
    <2>2. [works[op[r].at] EXCEPT !.live = FALSE] \in Work  BY <1>5, <2>1 DEF Work
    <2> QED  BY <1>3, <1>14, <2>1, <2>2 DEF RetireWork
  <1>15. CASE StartWork(r) \/ CompleteWork(r) \/ SignWork(r)
    <2>1. op[r].at \in DOMAIN works
      BY <1>15 DEF StartWork, CompleteWork, SignWork, Worked, Leave, Advance, TypeInv, Shape
    <2> DEFINE w == works[op[r].at]
    <2>2. w \in Work  BY <1>5, <2>1
    <2>3. /\ [w EXCEPT !.status = "in_progress"] \in Work
          /\ [w EXCEPT !.status = "completed"] \in Work
          /\ [w EXCEPT !.signatures = @ + 1] \in Work
      <3> HIDE DEF w
      <3> QED  BY <2>2 DEF Work, WorkStatuses
    <2>4. PICK e \in Work : works' = [works EXCEPT ![op[r].at] = e]
      BY <1>15, <2>3 DEF StartWork, CompleteWork, SignWork, Worked
    <2>5. UNCHANGED <<case, quotes>>
      BY <1>15 DEF StartWork, CompleteWork, SignWork, Worked
    <2> QED  BY <1>3, <2>1, <2>4, <2>5
  <1>16. CASE InsertQuote(r)
    <2>1. op[r].number \in Nat \ {0}
      BY <1>1, <1>16 DEF InsertQuote, Leave, Advance, TypeInv, Shape, Op
    <2> DEFINE q == [NewQuote(op[r].number) EXCEPT !.late = ~case.live]
    <2>2. q \in Quote
      <3>1. NewQuote(op[r].number) \in Quote
        BY <2>1 DEF NewQuote, Quote, QuoteStatuses
      <3> QED  BY <3>1 DEF Quote
    <2>3. quotes' = Append(quotes, q) /\ UNCHANGED <<case, works>>  BY <1>16 DEF InsertQuote
    <2> HIDE DEF q
    <2> QED  BY <1>1, <2>2, <2>3, SeqAdd, Places DEF DocsOK, Grown
  <1>17. CASE LogSave(r)
    <2> DEFINE i == op[r].at
               s == IF op[r].sent THEN op[r].status ELSE quotes[i].status
               e == [quotes[i] EXCEPT !.sends = @ + 1, !.version = @ + 1, !.status = s]
    <2>1. i \in DOMAIN quotes
      BY <1>17 DEF LogSave, Leave, Advance, TypeInv, Shape
    <2>2. quotes' = quotes \/ quotes' = [quotes EXCEPT ![i] = e]
      BY <1>17 DEF LogSave
    <2>3. UNCHANGED <<case, works>>  BY <1>17 DEF LogSave
    <2>4. op[r].sent => op[r].status \in QuoteStatuses
      BY <1>17 DEF LogSave, Leave, Advance, TypeInv, Shape
    <2>5. e \in Quote
      <3>1. quotes[i] \in Quote  BY <1>6, <2>1
      <3>2. s \in QuoteStatuses  BY <2>4, <3>1 DEF Quote
      <3>3. ASSUME NEW q \in Quote, NEW x \in QuoteStatuses
            PROVE  [q EXCEPT !.sends = @ + 1, !.version = @ + 1, !.status = x] \in Quote
        <4>1. ASSUME NEW m \in Nat, NEW n \in Nat
              PROVE  [q EXCEPT !.sends = m, !.version = n, !.status = x] \in Quote
          BY DEF Quote
        <4>2. q.sends + 1 \in Nat /\ q.version + 1 \in Nat  BY DEF Quote
        <4> QED  BY <4>1, <4>2
      <3> HIDE DEF s, i
      <3> QED  BY <3>1, <3>2, <3>3
    <2>6. CASE quotes' = quotes  BY <1>1, <1>2, <2>3, <2>6
    <2>7. CASE quotes' = [quotes EXCEPT ![i] = e]
      <3> HIDE DEF e, i
      <3> QED  BY <1>4, <2>1, <2>3, <2>5, <2>7
    <2> QED  BY <2>2, <2>6, <2>7
  <1>18. CASE DropQuote(r)
    <2>1. op[r].at \in DOMAIN quotes
      BY <1>18 DEF DropQuote, Leave, Advance, TypeInv, Shape
    <2>2. [quotes[op[r].at] EXCEPT !.live = FALSE] \in Quote  BY <1>6, <2>1 DEF Quote
    <2> QED  BY <1>4, <1>18, <2>1, <2>2 DEF DropQuote
  <1>19. ASSUME Continue(r) \/ Stop(r)
         PROVE  \/ UNCHANGED docs \/ TodoSave(r) \/ ClearWorks(r) \/ VoidQuotes(r)
                \/ InsertWork(r) \/ CountWork(r) \/ UncountWork(r) \/ RetireWork(r)
                \/ StartWork(r) \/ CompleteWork(r) \/ SignWork(r) \/ InsertQuote(r)
                \/ LogSave(r) \/ DropQuote(r)
    BY <1>19 DEF Continue, Stop, GenerateNumber, RetryQuote, RefuseQuote, Mail, LogRead,
       LogNothing
  <1> QED
    BY <1>7, <1>8, <1>9, <1>10, <1>11, <1>12, <1>13, <1>14, <1>15, <1>16, <1>17, <1>18,
       <1>19

(* A request changes nothing of another one.                               *)
Mine(r) == /\ pc' = pc \/ \E p : pc' = [pc EXCEPT ![r] = p]
           /\ op' = op \/ \E o : op' = [op EXCEPT ![r] = o]

LEMMA MineOnly ==
  ASSUME NEW r \in Requests, Call(r) \/ Continue(r) \/ Stop(r)
  PROVE  Mine(r)
  <1>1. ASSUME NEW from, Leave(r, from)  PROVE Mine(r)
    BY <1>1 DEF Leave, Advance, Mine
  <1>2. ASSUME NEW from, NEW to, Advance(r, from, to),
               op' = op \/ \E o : op' = [op EXCEPT ![r] = o]
        PROVE  Mine(r)
    BY <1>2 DEF Advance, Mine
  <1>3. ASSUME NEW at, NEW o, Enter(r, at, o)  PROVE Mine(r)
    BY <1>3 DEF Enter, Mine
  <1>4. ASSUME Once(r)  PROVE Mine(r)
    BY <1>4 DEF Once, Mine
  <1>5. CASE Call(r)
    <2>1. (\E at, o : Enter(r, at, o)) \/ Once(r) \/ DeleteCase(r)
      BY <1>5 DEF Call, TodoRead, UpdateCase, CreateWorkRead, CreateQuoteRead, UpdateWork,
         DeleteWorkRead, StartRead, CompleteRead, SignRead, WorkRead, UpdateQuote, SendRead,
         DeleteQuoteRead
    <2>2. DeleteCase(r) => Mine(r)  BY DEF DeleteCase, Mine
    <2> QED  BY <1>3, <1>4, <2>1, <2>2
  <1>6. CASE \E sent \in BOOLEAN : Mail(r, sent)
    BY <1>2, <1>6 DEF Mail
  <1>7. CASE ClearWorks(r) \/ InsertWork(r) \/ RetireWork(r) \/ GenerateNumber(r)
             \/ RetryQuote(r) \/ LogRead(r)
    <2>1. op' = op \/ \E o : op' = [op EXCEPT ![r] = o]
      BY <1>7 DEF ClearWorks, InsertWork, RetireWork, GenerateNumber, RetryQuote, LogRead
    <2>2. \E from, to : Advance(r, from, to)
      BY <1>7 DEF ClearWorks, InsertWork, RetireWork, GenerateNumber, RetryQuote, LogRead
    <2> QED  BY <1>2, <2>1, <2>2
  <1>8. CASE TodoSave(r) \/ VoidQuotes(r) \/ CountWork(r) \/ UncountWork(r) \/ StartWork(r)
             \/ CompleteWork(r) \/ SignWork(r) \/ InsertQuote(r) \/ RefuseQuote(r)
             \/ LogNothing(r) \/ LogSave(r) \/ DropQuote(r) \/ Stop(r)
    <2>1. \E from : Leave(r, from)
      BY <1>8 DEF TodoSave, VoidQuotes, CountWork, UncountWork, StartWork, CompleteWork,
         SignWork, Worked, InsertQuote, RefuseQuote, LogNothing, LogSave, DropQuote, Stop
    <2> QED  BY <1>1, <2>1
  <1> QED  BY <1>5, <1>6, <1>7, <1>8 DEF Continue

LEMMA OthersStay ==
  ASSUME TypeInv, NEW r \in Requests, Call(r) \/ Continue(r) \/ Stop(r)
  PROVE  \A s \in Requests : s # r => pc'[s] = pc[s] /\ op'[s] = op[s]
  <1>1. pc \in [Requests -> Awaits \cup {"idle"}] /\ op \in [Requests -> Op]
    BY DEF TypeInv, RequestsOK
  <1> QED  BY <1>1, MineOnly DEF Mine

(* What the request itself is at, and about, stays of its shape.           *)
RequestOK(r) ==
  /\ pc' = [pc EXCEPT ![r] = pc'[r]] /\ op' = [op EXCEPT ![r] = op'[r]]
  /\ pc'[r] \in Awaits \cup {"idle"} /\ op'[r] \in Op
  /\ Shape(r)'

LEMMA EnterType ==
  ASSUME TypeInv, NEW r \in Requests, NEW at \in Awaits \ {"quote", "keep"}, NEW o \in Op,
         Enter(r, at, o), o.attempt = 0, o.at \in 0..(Len(works) + Len(quotes)),
         at \in {"retire", "start", "complete", "sign"} => o.at \in DOMAIN works,
         at \in {"mail", "log", "drop"} => o.at \in DOMAIN quotes
  PROVE  RequestOK(r) /\ pc'[r] = at /\ op'[r] = o
  <1>1. pc \in [Requests -> Awaits \cup {"idle"}] /\ op \in [Requests -> Op]
    BY DEF TypeInv, RequestsOK
  <1>2. /\ pc' = [pc EXCEPT ![r] = at] /\ op' = [op EXCEPT ![r] = o]
        /\ UNCHANGED <<works, quotes>>
    BY DEF Enter, docs
  <1>3. pc'[r] = at /\ op'[r] = o  BY <1>1, <1>2
  <1>4. MaxAttempts \in Nat \ {0}  BY CaseWorkAssumption
  <1>5. Shape(r)'  BY <1>2, <1>3, <1>4 DEF Shape
  <1> QED  BY <1>2, <1>3, <1>5 DEF RequestOK

LEMMA LeaveType ==
  ASSUME TypeInv, DocsOK', NEW r \in Requests, NEW from, Leave(r, from)
  PROVE  RequestOK(r) /\ pc[r] = from /\ pc'[r] = "idle" /\ op'[r] = NoOp
  <1>1. pc \in [Requests -> Awaits \cup {"idle"}] /\ op \in [Requests -> Op]
    BY DEF TypeInv, RequestsOK
  <1>2. pc[r] = from /\ pc' = [pc EXCEPT ![r] = "idle"] /\ op' = [op EXCEPT ![r] = NoOp]
    BY DEF Leave, Advance
  <1>3. Len(works') \in Nat /\ Len(quotes') \in Nat  BY DEF DocsOK
  <1>4. MaxAttempts \in Nat  BY CaseWorkAssumption
  <1>5. pc'[r] = "idle" /\ op'[r] = NoOp  BY <1>1, <1>2
  <1>6. Shape(r)'
    <2>1. op'[r].at = 0 /\ op'[r].attempt = 0  BY <1>5, NoOpType
    <2>2. 0 \in 0..(Len(works') + Len(quotes'))  BY <1>3
    <2> QED  BY <1>4, <1>5, <2>1, <2>2 DEF Shape
  <1> QED  BY <1>2, <1>5, <1>6, NoOpType DEF RequestOK

(* Going on with what was asked, at a later await.                         *)
LEMMA AdvanceType ==
  ASSUME TypeInv, DocsOK', Grown, NEW r \in Requests, NEW from, NEW to \in Awaits,
         Advance(r, from, to), UNCHANGED op,
         to \notin {"number", "quote", "start", "complete", "sign", "retire", "mail",
                    "log", "keep", "drop"}
  PROVE  RequestOK(r) /\ pc[r] = from /\ pc'[r] = to
  <1>1. pc \in [Requests -> Awaits \cup {"idle"}] /\ op \in [Requests -> Op] /\ Shape(r)
    BY DEF TypeInv, RequestsOK
  <1>2. pc[r] = from /\ pc' = [pc EXCEPT ![r] = to]  BY DEF Advance
  <1>3. pc'[r] = to  BY <1>1, <1>2
  <1>4. /\ Len(works) \in Nat /\ Len(quotes) \in Nat
        /\ Len(works') \in Nat /\ Len(quotes') \in Nat
    BY Places DEF DocsOK
  <1>5. Shape(r)'  BY <1>1, <1>3, <1>4 DEF Shape, Grown
  <1>6. op' = [op EXCEPT ![r] = op'[r]]  BY <1>1
  <1> QED  BY <1>1, <1>2, <1>3, <1>5, <1>6 DEF RequestOK

LEMMA CallType ==
  ASSUME TypeInv, NEW r \in Requests, Call(r), DocsOK', Grown
  PROVE  RequestOK(r)
  <1>1. /\ pc \in [Requests -> Awaits \cup {"idle"}] /\ op \in [Requests -> Op] /\ Shape(r)
        /\ case \in Case
    BY DEF TypeInv, RequestsOK, DocsOK
  <1>2. /\ Len(works) \in Nat /\ Len(quotes) \in Nat
        /\ Len(works') \in Nat /\ Len(quotes') \in Nat
        /\ DOMAIN works = 1..Len(works) /\ DOMAIN quotes = 1..Len(quotes)
    BY Places DEF DocsOK
  <1>3. ASSUME NEW t \in Todos, NEW s \in {"pending", "done", "skipped"}, TodoRead(r, t, s)
        PROVE  RequestOK(r)
    <2> DEFINE d == Advanced([case EXCEPT !.todos[t] = s])
               o == [NoOp EXCEPT !.case = case, !.to = d]
    <2>1. d \in Case  BY <1>1, TodoSet, AdvancedType
    <2> HIDE DEF d
    <2>2. o \in Op /\ o.at = 0 /\ o.attempt = 0  BY <1>1, <2>1, NoOpType DEF Op
    <2>3. Enter(r, "todo", o)  BY <1>3 DEF TodoRead, d
    <2> HIDE DEF o
    <2> QED  BY <1>2, <2>2, <2>3, EnterType DEF Awaits
  <1>4. ASSUME NEW at \in {"insert", "number"}, Enter(r, at, NoOp)  PROVE RequestOK(r)
    BY <1>2, <1>4, EnterType, NoOpType DEF Awaits
  <1>5. ASSUME NEW i \in DOMAIN works, NEW at \in {"retire", "start", "complete", "sign"},
               WorkRead(r, i, at)
        PROVE  RequestOK(r)
    <2> DEFINE o == [NoOp EXCEPT !.at = i]
    <2>1. i \in Nat /\ i \in 0..(Len(works) + Len(quotes))  BY <1>2
    <2>2. o \in Op /\ o.at = i /\ o.attempt = 0  BY <2>1, AtAsked
    <2>3. Enter(r, at, o)  BY <1>5 DEF WorkRead
    <2> HIDE DEF o
    <2> QED  BY <2>1, <2>2, <2>3, EnterType DEF Awaits
  <1>6. ASSUME NEW i \in DOMAIN quotes, SendRead(r, i) \/ DeleteQuoteRead(r, i)
        PROVE  RequestOK(r)
    <2>1. i \in Nat /\ i \in 0..(Len(works) + Len(quotes))  BY <1>2
    <2>2. CASE SendRead(r, i)
      <3> DEFINE o == [NoOp EXCEPT !.at = i, !.status = quotes[i].status]
      <3>1. quotes[i].status \in QuoteStatuses  BY Places DEF Quote
      <3>2. o \in Op /\ o.at = i /\ o.attempt = 0  BY <2>1, <3>1, MailAsked
      <3>3. Enter(r, "mail", o)  BY <2>2 DEF SendRead
      <3> HIDE DEF o
      <3> QED  BY <2>1, <3>2, <3>3, EnterType DEF Awaits
    <2>3. CASE DeleteQuoteRead(r, i)
      <3> DEFINE o == [NoOp EXCEPT !.at = i]
      <3>2. o \in Op /\ o.at = i /\ o.attempt = 0  BY <2>1, AtAsked
      <3>3. Enter(r, "drop", o)  BY <2>3 DEF DeleteQuoteRead
      <3> HIDE DEF o
      <3> QED  BY <2>1, <3>2, <3>3, EnterType DEF Awaits
    <2> QED  BY <1>6, <2>2, <2>3
  <1>7. ASSUME Once(r)  PROVE RequestOK(r)
    <2>1. pc' = pc /\ op' = op  BY <1>7 DEF Once
    <2>2. Shape(r)'  BY <1>1, <1>2, <2>1 DEF Shape, Grown
    <2> QED  BY <1>1, <2>1, <2>2 DEF RequestOK
  <1>8. CASE DeleteCase(r)
    <2>1. pc' = [pc EXCEPT ![r] = "clear"] /\ op' = op  BY <1>8 DEF DeleteCase
    <2>2. pc'[r] = "clear"  BY <1>1, <2>1
    <2>3. Shape(r)'  BY <1>1, <1>2, <2>1, <2>2 DEF Shape, Grown
    <2> QED  BY <1>1, <2>1, <2>2, <2>3 DEF RequestOK, Awaits
  <1>9. CASE CreateWorkRead(r) \/ CreateQuoteRead(r)
    BY <1>4, <1>9 DEF CreateWorkRead, CreateQuoteRead
  <1>10. CASE \E i \in DOMAIN works : DeleteWorkRead(r, i) \/ StartRead(r, i)
                                      \/ CompleteRead(r, i) \/ SignRead(r, i)
    BY <1>5, <1>10 DEF DeleteWorkRead, StartRead, CompleteRead, SignRead
  <1>11. CASE \/ \E s \in CaseStatuses : UpdateCase(r, s)
              \/ \E i \in DOMAIN works, s \in WorkStatuses : UpdateWork(r, i, s)
              \/ \E i \in DOMAIN quotes, s \in QuoteStatuses :
                   UpdateQuote(r, i, s)
    BY <1>7, <1>11 DEF UpdateCase, UpdateWork, UpdateQuote
  <1> QED  BY <1>3, <1>6, <1>8, <1>9, <1>10, <1>11 DEF Call

LEMMA ContinueType ==
  ASSUME TypeInv, NEW r \in Requests, Continue(r) \/ Stop(r), DocsOK', Grown
  PROVE  RequestOK(r)
  <1>1. /\ pc \in [Requests -> Awaits \cup {"idle"}] /\ op \in [Requests -> Op] /\ Shape(r)
        /\ op[r] \in Op /\ quotes \in Seq(Quote)
    BY DEF TypeInv, RequestsOK, DocsOK
  <1>2. MaxAttempts \in Nat \ {0}  BY CaseWorkAssumption
  <1>3. CASE ClearWorks(r) \/ InsertWork(r) \/ RetireWork(r)
    <2>1. UNCHANGED op /\ \E from, to : /\ Advance(r, from, to)
                                        /\ to \in {"void", "count", "uncount"}
      BY <1>3 DEF ClearWorks, InsertWork, RetireWork
    <2> QED  BY <2>1, AdvanceType DEF Awaits
  <1>4. CASE TodoSave(r) \/ VoidQuotes(r) \/ CountWork(r) \/ UncountWork(r) \/ StartWork(r)
             \/ CompleteWork(r) \/ SignWork(r) \/ InsertQuote(r) \/ RefuseQuote(r)
             \/ LogNothing(r) \/ LogSave(r) \/ DropQuote(r) \/ Stop(r)
    <2>1. \E from : Leave(r, from)
      BY <1>4 DEF TodoSave, VoidQuotes, CountWork, UncountWork, StartWork, CompleteWork,
         SignWork, Worked, InsertQuote, RefuseQuote, LogNothing, LogSave, DropQuote, Stop
    <2> QED  BY <2>1, LeaveType
  <1>5. ASSUME UNCHANGED <<works, quotes>>, NEW o \in Op, op' = [op EXCEPT ![r] = o],
               NEW to \in {"quote", "number", "log", "keep"}, pc' = [pc EXCEPT ![r] = to],
               o.at = op[r].at, o.attempt < MaxAttempts \/ (to \in {"log", "keep"} /\ o.attempt = op[r].attempt),
               to = "quote" => o.number > 0,
               to \in {"log", "keep"} => o.at \in DOMAIN quotes,
               to = "keep" => o.status \in QuoteStatuses
        PROVE  RequestOK(r)
    <2>1. pc'[r] = to /\ op'[r] = o  BY <1>1, <1>5
    <2>2. o.attempt <= MaxAttempts
      <3>1. o.attempt \in Nat  BY DEF Op
      <3> QED  BY <1>1, <1>2, <1>5, <3>1 DEF Shape
    <2>3. o.at \in 0..(Len(works) + Len(quotes))  BY <1>1, <1>5 DEF Shape
    <2>4. Shape(r)'  BY <1>5, <2>1, <2>2, <2>3 DEF Shape
    <2> QED  BY <1>5, <2>1, <2>4 DEF RequestOK, Awaits
  <1>6. CASE GenerateNumber(r)
    <2>1. NextNumber \in Nat \ {0}  BY <1>1, NextNumberNew
    <2> DEFINE o == [op[r] EXCEPT !.number = NextNumber]
    <2>2. o \in Op /\ o.at = op[r].at /\ o.attempt = op[r].attempt /\ o.number > 0
      <3>1. ASSUME NEW n \in Nat \ {0}
            PROVE  LET x == [op[r] EXCEPT !.number = n]
                   IN  /\ x \in Op /\ x.at = op[r].at /\ x.attempt = op[r].attempt
                       /\ x.number = n
        BY <1>1 DEF Op
      <3> QED  BY <2>1, <3>1
    <2>3. /\ op' = [op EXCEPT ![r] = o] /\ pc' = [pc EXCEPT ![r] = "quote"]
          /\ pc[r] = "number" /\ UNCHANGED <<works, quotes>>
      BY <1>6 DEF GenerateNumber, Advance, docs
    <2> HIDE DEF o
    <2>4. o.attempt < MaxAttempts  BY <1>1, <2>2, <2>3 DEF Shape
    <2> QED  BY <1>5, <2>2, <2>3, <2>4
  <1>7. CASE RetryQuote(r)
    <2> DEFINE o == [op[r] EXCEPT !.attempt = @ + 1]
    <2>1. o \in Op /\ o.at = op[r].at /\ o.attempt = op[r].attempt + 1
      <3>1. ASSUME NEW n \in Nat
            PROVE  LET x == [op[r] EXCEPT !.attempt = n]
                   IN  x \in Op /\ x.at = op[r].at /\ x.attempt = n
        BY <1>1 DEF Op
      <3>2. op[r].attempt + 1 \in Nat  BY <1>1 DEF Op
      <3> QED  BY <3>1, <3>2
    <2>2. /\ op' = [op EXCEPT ![r] = o] /\ pc' = [pc EXCEPT ![r] = "number"]
          /\ pc[r] = "quote" /\ UNCHANGED <<works, quotes>> /\ ~LastAttempt(r)
      BY <1>7 DEF RetryQuote, Advance, docs
    <2> HIDE DEF o
    <2>3. o.attempt < MaxAttempts
      <3>1. op[r].attempt \in Nat /\ op[r].attempt < MaxAttempts
            /\ op[r].attempt + 1 # MaxAttempts
        BY <1>1, <2>2 DEF Shape, Op, LastAttempt
      <3> QED  BY <1>2, <2>1, <3>1
    <2> QED  BY <1>5, <2>1, <2>2, <2>3
  <1>8. ASSUME NEW sent \in BOOLEAN, Mail(r, sent)  PROVE RequestOK(r)
    <2> DEFINE b == (sent /\ op[r].status = "draft")
               o == [op[r] EXCEPT !.sent = b]
    <2>1. b \in BOOLEAN  OBVIOUS
    <2>2. op' = [op EXCEPT ![r] = o] /\ pc' = [pc EXCEPT ![r] = "log"]
          /\ pc[r] = "mail" /\ UNCHANGED <<works, quotes>>
      BY <1>8 DEF Mail, Advance, docs
    <2> HIDE DEF b
    <2>3. o \in Op /\ o.at = op[r].at /\ o.attempt = op[r].attempt
      BY <1>1, <2>1 DEF Op
    <2> HIDE DEF o
    <2>4. op[r].at \in DOMAIN quotes  BY <1>1, <2>2 DEF Shape
    <2> QED  BY <1>5, <2>2, <2>3, <2>4
  <1>9. CASE LogRead(r)
    <2> DEFINE q == quotes[op[r].at]
               b == (Marked(r) # q.status)
               F(s, v, c) == [op[r] EXCEPT !.status = s, !.version = v, !.sent = c]
               o == F(Marked(r), q.version, b)
    <2>1. /\ op' = [op EXCEPT ![r] = o] /\ pc' = [pc EXCEPT ![r] = "keep"]
          /\ pc[r] = "log" /\ UNCHANGED <<works, quotes>>
      BY <1>9 DEF LogRead, Advance, docs
    <2>2. op[r].at \in DOMAIN quotes  BY <1>1, <2>1 DEF Shape
    <2>3. q \in Quote  BY <2>2, Places
    <2>4. Marked(r) \in QuoteStatuses /\ q.version \in Nat
      BY <2>3 DEF Marked, Quote, QuoteStatuses
    <2>5. b \in BOOLEAN  OBVIOUS
    <2>6. ASSUME NEW c \in BOOLEAN, NEW s \in QuoteStatuses, NEW v \in Nat
          PROVE  /\ F(s, v, c) \in Op /\ F(s, v, c).at = op[r].at
                 /\ F(s, v, c).attempt = op[r].attempt /\ F(s, v, c).status = s
      BY <1>1 DEF Op
    <2> HIDE DEF b, q, F
    <2>7. /\ o \in Op /\ o.at = op[r].at /\ o.attempt = op[r].attempt
          /\ o.status \in QuoteStatuses
      BY <2>4, <2>5, <2>6
    <2> HIDE DEF o
    <2> QED  BY <1>5, <2>1, <2>2, <2>7
  <1> QED  BY <1>3, <1>4, <1>6, <1>7, <1>8, <1>9 DEF Continue

LEMMA OwedType ==
  /\ Owed \in [Requests -> Int]
  /\ \A r \in Requests : pc[r] \notin {"count", "uncount"} => Owed[r] = 0
  /\ \A r \in Requests : pc[r] = "count" => Owed[r] = 1
  /\ \A r \in Requests : pc[r] = "uncount" => Owed[r] = -1
  BY DEF Owed

(* What the model remembers of the requests.                               *)
LEMMA HistoryMoves ==
  ASSUME TypeInv, NEW r \in Requests, Call(r) \/ Continue(r) \/ Stop(r)
  PROVE  /\ \/ calls' = calls + 1 /\ overlapped' = (overlapped \/ ~Quiet) /\ Call(r)
            \/ UNCHANGED <<calls, overlapped>> /\ ~Call(r)
         /\ \/ stops' = stops /\ lost' = lost
            \/ stops' = stops + 1 /\ lost' = lost + Owed[r] /\ Stop(r)
         /\ doubled' = doubled \/ (doubled' = doubled + 1 /\ RetireWork(r))
         /\ byHand' \in {byHand, TRUE, FALSE}
         /\ \/ crossed' = crossed
            \/ /\ TodoSave(r)
               /\ crossed' = (case.todos # op[r].case.todos \/ case.status # op[r].case.status)
  <1>1. CASE Call(r)
    <2>1. Called(r)
      BY <1>1 DEF Call, TodoRead, UpdateCase, CreateWorkRead, CreateQuoteRead, UpdateWork,
         DeleteWorkRead, StartRead, CompleteRead, SignRead, WorkRead, UpdateQuote, SendRead,
         DeleteQuoteRead, DeleteCase, Enter, Once
    <2>2. UNCHANGED <<crossed, doubled, lost, stops>> /\ byHand' \in {byHand, TRUE, FALSE}
      BY <1>1 DEF Call, TodoRead, UpdateCase, CreateWorkRead, CreateQuoteRead, UpdateWork,
         DeleteWorkRead, StartRead, CompleteRead, SignRead, WorkRead, UpdateQuote, SendRead,
         DeleteQuoteRead, DeleteCase, Enter, ghosts
    <2> QED  BY <1>1, <2>1, <2>2 DEF Called
  <1>2. CASE Continue(r) \/ Stop(r)
    <2>1. pc[r] # "idle" /\ UNCHANGED <<calls, overlapped>>
      <3>1. CASE \E sent \in BOOLEAN : Mail(r, sent)  BY <3>1 DEF Mail, Advance
      <3>2. CASE ~\E sent \in BOOLEAN : Mail(r, sent)
        <4>1. \/ \E from \in Awaits : \E to : Advance(r, from, to)
              \/ \E from \in Awaits : Leave(r, from)
              \/ Stop(r)
          BY <1>2, <3>2 DEF Continue, TodoSave, ClearWorks, VoidQuotes, InsertWork, CountWork,
             RetireWork, UncountWork, StartWork, CompleteWork, SignWork, Worked,
             GenerateNumber, InsertQuote, RetryQuote, RefuseQuote, LogRead, LogNothing,
             LogSave, DropQuote, Awaits
        <4> QED  BY <4>1 DEF Advance, Leave, Stop, Awaits
      <3> QED  BY <3>1, <3>2
    <2>2. ~Call(r)
      <3>1. Call(r) => Called(r)
        BY DEF Call, TodoRead, UpdateCase, CreateWorkRead, CreateQuoteRead, UpdateWork,
           DeleteWorkRead, StartRead, CompleteRead, SignRead, WorkRead, UpdateQuote, SendRead,
           DeleteQuoteRead, DeleteCase, Enter, Once
      <3> QED  BY <2>1, <3>1 DEF Called
    <2>3. CASE TodoSave(r)  BY <2>1, <2>2, <2>3 DEF TodoSave
    <2>4. CASE RetireWork(r)  BY <2>1, <2>2, <2>4 DEF RetireWork
    <2>5. CASE Stop(r)  BY <2>1, <2>2, <2>5 DEF Stop
    <2>6. CASE UNCHANGED ghosts  BY <2>1, <2>2, <2>6 DEF ghosts
    <2>7. TodoSave(r) \/ RetireWork(r) \/ Stop(r) \/ UNCHANGED ghosts
      BY <1>2 DEF Continue, ClearWorks, VoidQuotes, InsertWork, CountWork, UncountWork,
         StartWork, CompleteWork, SignWork, Worked, GenerateNumber, InsertQuote, RetryQuote,
         RefuseQuote, Mail, LogRead, LogNothing, LogSave, DropQuote
    <2> QED  BY <2>3, <2>4, <2>5, <2>6, <2>7
  <1> QED  BY <1>1, <1>2

LEMMA TypeStep == TypeInv /\ [Next]_vars => TypeInv'
  <1> SUFFICES ASSUME TypeInv, [Next]_vars  PROVE TypeInv'
    OBVIOUS
  <1>1. CASE UNCHANGED vars
    BY <1>1 DEF vars, docs, ghosts, TypeInv, DocsOK, RequestsOK, HistoryOK, Shape
  <1>2. ASSUME NEW r \in Requests, Call(r) \/ Continue(r) \/ Stop(r)
        PROVE  TypeInv'
    <2>1. DocsOK' /\ Grown  BY <1>2, DocsType
    <2>2. RequestOK(r)  BY <1>2, <2>1, CallType, ContinueType
    <2>3. pc \in [Requests -> Awaits \cup {"idle"}] /\ op \in [Requests -> Op]
      BY DEF TypeInv, RequestsOK
    <2>4. RequestsOK'
      BY <2>2, <2>3 DEF RequestOK, RequestsOK
    <2>5. \A s \in Requests : Shape(s)'
      <3>1. \A s \in Requests : s # r => pc'[s] = pc[s] /\ op'[s] = op[s]
        BY <1>2, OthersStay
      <3>2. /\ Len(works) \in Nat /\ Len(quotes) \in Nat
            /\ Len(works') \in Nat /\ Len(quotes') \in Nat
        BY <2>1, Places DEF DocsOK
      <3>3. ASSUME NEW s \in Requests, s # r  PROVE Shape(s)'
        <4>1. Shape(s)  BY DEF TypeInv
        <4>2. op[s].at \in 0..(Len(works') + Len(quotes'))
          BY <2>1, <3>2, <4>1 DEF Shape, Grown
        <4> QED  BY <2>1, <3>1, <3>3, <4>1, <4>2 DEF Shape, Grown
      <3> QED  BY <2>2, <3>3 DEF RequestOK
    <2>6. HistoryOK'
      <3>1. /\ byHand \in BOOLEAN /\ crossed \in BOOLEAN /\ overlapped \in BOOLEAN
        BY DEF TypeInv, HistoryOK
      <3>2. byHand' \in BOOLEAN /\ crossed' \in BOOLEAN /\ overlapped' \in BOOLEAN
        <4>1. byHand' \in BOOLEAN  BY <1>2, <3>1, HistoryMoves
        <4>2. crossed' \in BOOLEAN  BY <1>2, <3>1, HistoryMoves
        <4>3. overlapped' \in BOOLEAN  BY <1>2, <3>1, HistoryMoves
        <4> QED  BY <4>1, <4>2, <4>3
      <3>3. doubled' \in Nat /\ calls' \in Nat /\ stops' \in Nat /\ lost' \in Int
        <4>1. doubled \in Nat /\ calls \in Nat /\ stops \in Nat /\ lost \in Int
              /\ Owed[r] \in Int
          BY OwedType DEF TypeInv, HistoryOK
        <4>2. /\ doubled' \in {doubled, doubled + 1} /\ calls' \in {calls, calls + 1}
              /\ stops' \in {stops, stops + 1} /\ lost' \in {lost, lost + Owed[r]}
          BY <1>2, HistoryMoves
        <4> QED  BY <4>1, <4>2
      <3> QED  BY <3>2, <3>3 DEF HistoryOK
    <2> QED  BY <2>1, <2>4, <2>5, <2>6 DEF TypeInv
  <1> QED  BY <1>1, <1>2 DEF Next

LEMMA TypeInit == Init => TypeInv
  <1> SUFFICES ASSUME Init  PROVE TypeInv
    OBVIOUS
  <1>1. DocsOK  BY FreshType DEF Init, DocsOK
  <1>2. RequestsOK  BY NoOpType DEF Init, RequestsOK
  <1>3. HistoryOK
    <2>1. byHand \in BOOLEAN /\ crossed \in BOOLEAN /\ overlapped \in BOOLEAN  BY DEF Init
    <2>2. doubled \in Nat /\ calls \in Nat /\ stops \in Nat /\ lost \in Int  BY DEF Init
    <2> QED  BY <2>1, <2>2 DEF HistoryOK
  <1>4. ASSUME NEW r \in Requests  PROVE Shape(r)
    <2>1. pc[r] = "idle" /\ op[r] = NoOp  BY DEF Init
    <2>2. op[r].at = 0 /\ op[r].attempt = 0  BY <2>1, NoOpType
    <2>3. Len(works) = 0 /\ Len(quotes) = 0  BY DEF Init
    <2>4. MaxAttempts \in Nat  BY CaseWorkAssumption
    <2> QED  BY <2>1, <2>2, <2>3, <2>4 DEF Shape
  <1> QED  BY <1>1, <1>2, <1>3, <1>4 DEF TypeInv

(* The documents and the requests stay of their types: in particular a     *)
(* request only works on what has been created, and gives up a number at   *)
(* the latest after MaxAttempts.                                           *)
THEOREM CaseTypeCorrect == Spec => []TypeOK
  <1>1. TypeInv => TypeOK
    <2> SUFFICES ASSUME TypeInv  PROVE TypeOK
      OBVIOUS
    <2>1. ASSUME NEW r \in Requests
          PROVE  /\ op[r].at \in 0..(Len(works) + Len(quotes))
                 /\ {op[r].case, op[r].to} \subseteq Case
                 /\ op[r].number \in Nat /\ op[r].attempt \in 0..MaxAttempts
                 /\ pc[r] \in {"number", "quote"} => op[r].attempt < MaxAttempts
      <3>1. Shape(r) /\ op[r] \in Op  BY DEF TypeInv, RequestsOK
      <3>2. op[r].attempt \in Nat /\ MaxAttempts \in Nat
        BY <3>1, CaseWorkAssumption DEF Op
      <3>3. {op[r].case, op[r].to} \subseteq Case /\ op[r].number \in Nat
        BY <3>1 DEF Op
      <3>4. op[r].attempt \in 0..MaxAttempts  BY <3>1, <3>2 DEF Shape
      <3> QED  BY <3>1, <3>3, <3>4 DEF Shape
    <2> QED  BY <2>1 DEF TypeInv, DocsOK, RequestsOK, HistoryOK, TypeOK
  <1> QED  BY <1>1, TypeInit, TypeStep, PTL DEF Spec

-----------------------------------------------------------------------------
(* The awaits that each step leaves and comes to.                          *)

LEMMA CallPath ==
  ASSUME TypeInv, NEW r \in Requests, Call(r)
  PROVE  /\ pc[r] = "idle"
         /\ pc'[r] \in {"idle", "todo", "clear", "insert", "retire", "start", "complete",
                        "sign", "number", "mail", "drop"}
         /\ pc'[r] = "clear" => DeleteCase(r)
  <1>1. pc \in [Requests -> Awaits \cup {"idle"}]  BY DEF TypeInv, RequestsOK
  <1> DEFINE Reads == {"todo", "insert", "retire", "start", "complete", "sign", "number",
                       "mail", "drop"}
  <1>2. ASSUME NEW at \in Reads, NEW o, Enter(r, at, o)
        PROVE  pc[r] = "idle" /\ pc'[r] = at
    BY <1>1, <1>2 DEF Enter, Called
  <1>3. ASSUME Once(r)  PROVE pc[r] = "idle" /\ pc'[r] = "idle"
    BY <1>3 DEF Once, Called
  <1>4. ASSUME DeleteCase(r)  PROVE pc[r] = "idle" /\ pc'[r] = "clear"
    BY <1>1, <1>4 DEF DeleteCase, Called
  <1>5. Once(r) \/ DeleteCase(r) \/ \E at \in Reads : \E o : Enter(r, at, o)
    <2>1. ASSUME NEW t \in Todos, NEW s, TodoRead(r, t, s)
          PROVE  \E at \in Reads : \E o : Enter(r, at, o)
      BY <2>1 DEF TodoRead
    <2>2. ASSUME NEW i, \E at \in {"retire", "start", "complete", "sign"} : WorkRead(r, i, at)
          PROVE  \E at \in Reads : \E o : Enter(r, at, o)
      BY <2>2 DEF WorkRead
    <2>3. ASSUME NEW i, SendRead(r, i) \/ DeleteQuoteRead(r, i)
          PROVE  \E at \in Reads : \E o : Enter(r, at, o)
      BY <2>3 DEF SendRead, DeleteQuoteRead
    <2>4. ASSUME CreateWorkRead(r) \/ CreateQuoteRead(r)
          PROVE  \E at \in Reads : \E o : Enter(r, at, o)
      BY <2>4 DEF CreateWorkRead, CreateQuoteRead
    <2> HIDE DEF Reads
    <2> QED
      BY <2>1, <2>2, <2>3, <2>4 DEF Call, UpdateCase, UpdateWork, UpdateQuote, DeleteWorkRead,
         StartRead, CompleteRead, SignRead
  <1> QED  BY <1>2, <1>3, <1>4, <1>5

LEMMA ContinuePath ==
  ASSUME TypeInv, NEW r \in Requests
  PROVE  /\ TodoSave(r)      => pc[r] = "todo"     /\ pc'[r] = "idle"
         /\ ClearWorks(r)    => pc[r] = "clear"    /\ pc'[r] = "void"
         /\ VoidQuotes(r)    => pc[r] = "void"     /\ pc'[r] = "idle"
         /\ InsertWork(r)    => pc[r] = "insert"   /\ pc'[r] = "count"
         /\ CountWork(r)     => pc[r] = "count"    /\ pc'[r] = "idle"
         /\ RetireWork(r)    => pc[r] = "retire"   /\ pc'[r] = "uncount"
         /\ UncountWork(r)   => pc[r] = "uncount"  /\ pc'[r] = "idle"
         /\ StartWork(r)     => pc[r] = "start"    /\ pc'[r] = "idle"
         /\ CompleteWork(r)  => pc[r] = "complete" /\ pc'[r] = "idle"
         /\ SignWork(r)      => pc[r] = "sign"     /\ pc'[r] = "idle"
         /\ GenerateNumber(r) => pc[r] = "number"  /\ pc'[r] = "quote"
         /\ InsertQuote(r)   => pc[r] = "quote"    /\ pc'[r] = "idle"
         /\ RetryQuote(r)    => pc[r] = "quote"    /\ pc'[r] = "number"
         /\ RefuseQuote(r)   => pc[r] = "quote"    /\ pc'[r] = "idle"
         /\ (\E sent \in BOOLEAN : Mail(r, sent)) => pc[r] = "mail" /\ pc'[r] = "log"
         /\ LogRead(r)       => pc[r] = "log"      /\ pc'[r] = "keep"
         /\ LogNothing(r)    => pc[r] = "log"      /\ pc'[r] = "idle"
         /\ LogSave(r)       => pc[r] = "keep"     /\ pc'[r] = "idle"
         /\ DropQuote(r)     => pc[r] = "drop"     /\ pc'[r] = "idle"
         /\ Stop(r)          => pc[r] # "idle"     /\ pc'[r] = "idle"
  <1>1. pc \in [Requests -> Awaits \cup {"idle"}]  BY DEF TypeInv, RequestsOK
  <1>2. ASSUME NEW from, NEW to, Advance(r, from, to)  PROVE pc[r] = from /\ pc'[r] = to
    BY <1>1, <1>2 DEF Advance
  <1>3. ASSUME NEW from, Leave(r, from)  PROVE pc[r] = from /\ pc'[r] = "idle"
    BY <1>2, <1>3 DEF Leave
  <1> QED
    BY <1>2, <1>3 DEF TodoSave, ClearWorks, VoidQuotes, InsertWork, CountWork, RetireWork,
       UncountWork, StartWork, CompleteWork, SignWork, Worked, GenerateNumber, InsertQuote,
       RetryQuote, RefuseQuote, Mail, LogRead, LogNothing, LogSave, DropQuote, Stop

-----------------------------------------------------------------------------
(* The count of interventions.                                             *)

(* A deleted case stays deleted.                                           *)
LEMMA CaseMoves ==
  ASSUME TypeInv, NEW r \in Requests, Call(r) \/ Continue(r) \/ Stop(r)
  PROVE  \/ /\ UNCHANGED <<case, quotes>>
         \/ /\ UNCHANGED <<case, works>>
         \/ /\ UNCHANGED <<works, quotes>>
            /\ \/ /\ DeleteCase(r) /\ case.live /\ ~case'.live
                  /\ case'.status = case.status /\ case'.todos = case.todos
               \/ /\ \E s \in CaseStatuses : UpdateCase(r, s)
                  /\ case'.live = case.live /\ case'.count = case.count
               \/ /\ TodoSave(r)
                  /\ case'.live = case.live /\ case'.count = case.count
               \/ /\ CountWork(r)
                  /\ case'.live = case.live /\ case'.status = case.status
                  /\ case'.todos = case.todos
                  /\ case.live => case'.count = case.count + 1
               \/ /\ UncountWork(r)
                  /\ case'.live = case.live /\ case'.status = case.status
                  /\ case'.todos = case.todos
                  /\ case.live => case'.count = case.count + (-1)
  <1>1. case \in Case /\ op[r] \in Op  BY DEF TypeInv, DocsOK, RequestsOK
  <1>2. CASE DeleteCase(r)
    BY <1>1, <1>2 DEF DeleteCase, Case
  <1>3. ASSUME NEW s \in CaseStatuses, UpdateCase(r, s)
        PROVE  /\ UNCHANGED <<works, quotes>>
               /\ case'.live = case.live /\ case'.count = case.count
    BY <1>1, <1>3 DEF UpdateCase, Case
  <1>4. ASSUME TodoSave(r)
        PROVE  /\ UNCHANGED <<works, quotes>>
               /\ case'.live = case.live /\ case'.count = case.count
    <2>1. op[r].case \in Case /\ op[r].to \in Case  BY <1>1 DEF Op
    <2> QED  BY <1>1, <1>4, <2>1, SavedType DEF TodoSave
  <1>5. 1 \in Int /\ -1 \in Int  OBVIOUS
  <1>6. CASE CountWork(r)
    <2>1. case' = Counted(1) /\ UNCHANGED <<works, quotes>>  BY <1>6 DEF CountWork
    <2>2. /\ case'.live = case.live /\ case'.status = case.status
          /\ case'.todos = case.todos
          /\ case.live => case'.count = case.count + 1
      BY <1>1, <1>5, <2>1, CountedType
    <2> QED  BY <1>6, <2>1, <2>2
  <1>7. CASE UncountWork(r)
    <2>1. case' = Counted(-1) /\ UNCHANGED <<works, quotes>>  BY <1>7 DEF UncountWork
    <2>2. /\ case'.live = case.live /\ case'.status = case.status
          /\ case'.todos = case.todos
          /\ case.live => case'.count = case.count + (-1)
      BY <1>1, <1>5, <2>1, CountedType
    <2> QED  BY <1>6, <1>7, <2>1, <2>2
  <1>8. \/ UNCHANGED <<case, quotes>> \/ UNCHANGED <<case, works>>
        \/ DeleteCase(r) \/ (\E s \in CaseStatuses : UpdateCase(r, s))
        \/ TodoSave(r) \/ CountWork(r) \/ UncountWork(r)
    <2>1. CASE Call(r)
      BY <2>1 DEF Call, TodoRead, CreateWorkRead, CreateQuoteRead, UpdateWork, DeleteWorkRead,
         StartRead, CompleteRead, SignRead, WorkRead, UpdateQuote, SendRead, DeleteQuoteRead,
         Enter, docs
    <2>2. CASE Continue(r) \/ Stop(r)
      BY <2>2 DEF Continue, ClearWorks, VoidQuotes, InsertWork, RetireWork, StartWork,
         CompleteWork, SignWork, Worked, GenerateNumber, InsertQuote, RetryQuote, RefuseQuote,
         Mail, LogRead, LogNothing, LogSave, DropQuote, Stop, docs
    <2> QED  BY <2>1, <2>2
  <1> QED  BY <1>2, <1>3, <1>4, <1>6, <1>7, <1>8

LEMMA StaysDeleted ==
  ASSUME TypeInv, NEW r \in Requests, Call(r) \/ Continue(r) \/ Stop(r), case'.live
  PROVE  case.live
  BY CaseMoves

(* What InsertWork and RetireWork do to the collection.                    *)
LEMMA WorkInserted ==
  ASSUME TypeInv, NEW r \in Requests, InsertWork(r)
  PROVE  /\ DOMAIN works' = DOMAIN works \cup {Len(works) + 1}
         /\ Len(works) + 1 \notin DOMAIN works
         /\ \A i \in DOMAIN works : works'[i] = works[i]
         /\ works'[Len(works) + 1].live
         /\ works'[Len(works) + 1].late = ~case.live
         /\ works'[Len(works) + 1].signatures = 0
  <1>1. works \in Seq(Work)  BY DEF TypeInv, DocsOK
  <1> DEFINE w == [NewWork EXCEPT !.late = ~case.live]
  <1>2. NewWork \in Work /\ NewWork.live /\ NewWork.signatures = 0
    BY DEF NewWork, Work, WorkStatuses
  <1>3. w \in Work /\ w.live /\ w.signatures = 0
    <2>1. ASSUME NEW x \in Work, x.live, x.signatures = 0
          PROVE  LET y == [x EXCEPT !.late = ~case.live]
                 IN  y \in Work /\ y.live /\ y.signatures = 0
      BY <2>1 DEF Work
    <2> QED  BY <1>2, <2>1
  <1>4. w.late = ~case.live
    <2>1. ASSUME NEW x \in Work
          PROVE  [x EXCEPT !.late = ~case.live].late = ~case.live
      BY DEF Work
    <2> QED  BY <1>2, <2>1
  <1>5. works' = Append(works, w)  BY DEF InsertWork
  <1> HIDE DEF w
  <1> QED  BY <1>1, <1>3, <1>4, <1>5, SeqAdd

LEMMA WorkRetired ==
  ASSUME TypeInv, NEW r \in Requests, RetireWork(r)
  PROVE  /\ op[r].at \in DOMAIN works /\ DOMAIN works' = DOMAIN works
         /\ \A i \in DOMAIN works : i # op[r].at => works'[i] = works[i]
         /\ ~works'[op[r].at].live
         /\ works'[op[r].at].signatures = works[op[r].at].signatures
  <1>1. op[r].at \in DOMAIN works /\ \A i \in DOMAIN works : works[i] \in Work
    BY Places DEF RetireWork, Advance, TypeInv, Shape
  <1> QED  BY <1>1 DEF RetireWork, Work

(* The interventions that are not deleted: one more, one less or the same. *)
WorkKept(i) == /\ works'[i].live = works[i].live /\ works'[i].late = works[i].late
               /\ works'[i].signatures = works[i].signatures

LEMMA WorkMoves ==
  ASSUME TypeInv, NEW r \in Requests, Call(r) \/ Continue(r) \/ Stop(r)
  PROVE  \/ UNCHANGED works
         \/ ClearWorks(r) /\ DOMAIN works' = DOMAIN works
            /\ \A i \in DOMAIN works : /\ ~works'[i].live
                                       /\ works'[i].signatures = works[i].signatures
         \/ /\ InsertWork(r)
            /\ DOMAIN works' = DOMAIN works \cup {Len(works) + 1}
            /\ Len(works) + 1 \notin DOMAIN works
            /\ \A i \in DOMAIN works : works'[i] = works[i]
            /\ works'[Len(works) + 1].live
            /\ works'[Len(works) + 1].late = ~case.live
            /\ works'[Len(works) + 1].signatures = 0
         \/ /\ RetireWork(r) /\ op[r].at \in DOMAIN works /\ DOMAIN works' = DOMAIN works
            /\ \A i \in DOMAIN works : i # op[r].at => works'[i] = works[i]
            /\ ~works'[op[r].at].live
            /\ works'[op[r].at].signatures = works[op[r].at].signatures
         \/ /\ SignWork(r) /\ op[r].at \in DOMAIN works /\ DOMAIN works' = DOMAIN works
            /\ \A i \in DOMAIN works : i # op[r].at => works'[i] = works[i]
            /\ works'[op[r].at].live = works[op[r].at].live
            /\ works'[op[r].at].late = works[op[r].at].late
            /\ works'[op[r].at].signatures = works[op[r].at].signatures + 1
         \/ /\ DOMAIN works' = DOMAIN works
            /\ \A i \in DOMAIN works : WorkKept(i)
            /\ StartWork(r) \/ CompleteWork(r)
               \/ \E i \in DOMAIN works, s \in WorkStatuses : UpdateWork(r, i, s)
  <1>1. /\ works \in Seq(Work) /\ Shape(r)
        /\ \A i \in DOMAIN works : works[i] \in Work
    BY Places DEF TypeInv, DocsOK
  <1>2. CASE ClearWorks(r)
    BY <1>1, <1>2 DEF ClearWorks, Work
  <1>3. CASE InsertWork(r)  BY <1>3, WorkInserted
  <1>4. CASE RetireWork(r)  BY <1>4, WorkRetired
  <1>5. CASE SignWork(r)
    <2>1. op[r].at \in DOMAIN works
      BY <1>1, <1>5 DEF SignWork, Worked, Leave, Advance, Shape
    <2> QED  BY <1>1, <1>5, <2>1 DEF SignWork, Worked, Work
  <1>6. CASE StartWork(r) \/ CompleteWork(r)
    <2>1. op[r].at \in DOMAIN works
      BY <1>1, <1>6 DEF StartWork, CompleteWork, Worked, Leave, Advance, Shape
    <2>2. CASE StartWork(r)
      BY <1>1, <2>1, <2>2 DEF StartWork, Worked, Work, WorkKept
    <2>3. CASE CompleteWork(r)
      BY <1>1, <2>1, <2>3 DEF CompleteWork, Worked, Work, WorkKept
    <2> QED  BY <1>6, <2>2, <2>3
  <1>7. ASSUME NEW i \in DOMAIN works, NEW s \in WorkStatuses, UpdateWork(r, i, s)
        PROVE  DOMAIN works' = DOMAIN works /\ \A j \in DOMAIN works : WorkKept(j)
    BY <1>1, <1>7 DEF UpdateWork, Work, WorkKept
  <1>8. \/ UNCHANGED works \/ ClearWorks(r) \/ InsertWork(r) \/ RetireWork(r) \/ SignWork(r)
        \/ StartWork(r) \/ CompleteWork(r)
        \/ \E i \in DOMAIN works, s \in WorkStatuses : UpdateWork(r, i, s)
    <2>1. CASE Call(r)
      BY <2>1 DEF Call, TodoRead, UpdateCase, DeleteCase, CreateWorkRead, CreateQuoteRead,
         DeleteWorkRead, StartRead, CompleteRead, SignRead, WorkRead, UpdateQuote, SendRead,
         DeleteQuoteRead, Enter, docs
    <2>2. CASE Continue(r) \/ Stop(r)
      BY <2>2 DEF Continue, TodoSave, VoidQuotes, CountWork, UncountWork, GenerateNumber,
         InsertQuote, RetryQuote, RefuseQuote, Mail, LogRead, LogNothing, LogSave, DropQuote,
         Stop, docs
    <2> QED  BY <2>1, <2>2
  <1> QED  BY <1>2, <1>3, <1>4, <1>5, <1>6, <1>7, <1>8

(* What a step does to the count shows in the interventions.               *)
LEMMA Balanced ==
  ASSUME TypeInv, TypeInv', CountInv, NEW r \in Requests, case.live,
         \A s \in Requests : s # r => Owed'[s] = Owed[s],
         (case'.count - case.count) + (Owed'[r] - Owed[r]) + (lost' - lost)
           = (Cardinality(LiveWorks') - Cardinality(LiveWorks)) - (doubled' - doubled)
  PROVE  case'.count + SumFunction(Owed') + lost' = Cardinality(LiveWorks') - doubled'
  <1>1. Owed \in [Requests -> Int] /\ Owed' \in [Requests -> Int]
    <2>1. (Owed \in [Requests -> Int])'  BY OwedType, PTL
    <2> QED  BY <2>1, OwedType
  <1>2. /\ SumFunction(Owed) = SumFunctionOnSet(Owed, Requests)
        /\ SumFunction(Owed') = SumFunctionOnSet(Owed', Requests)
    BY DEF SumFunction, Owed
  <1>3. /\ SumFunctionOnSet(Owed', Requests)
             = SumFunctionOnSet(Owed, Requests) + Owed'[r] - Owed[r]
        /\ SumFunctionOnSet(Owed, Requests) \in Int
    <2>1. \A s \in Requests : Owed[s] \in Int /\ Owed'[s] \in Int  BY <1>1
    <2>2. IsFiniteSet(Requests)  BY CaseWorkAssumption
    <2> QED  BY <2>1, <2>2, SumChanged, SumType
  <1>4. /\ case.count \in Int /\ case'.count \in Int /\ lost \in Int /\ lost' \in Int
        /\ doubled \in Int /\ doubled' \in Int
    BY DEF TypeInv, DocsOK, HistoryOK, Case
  <1>5. Cardinality(LiveWorks) \in Int /\ Cardinality(LiveWorks') \in Int
    <2>1. IsFiniteSet(LiveWorks) /\ IsFiniteSet(LiveWorks')
      <3>1. IsFiniteSet(DOMAIN works) /\ IsFiniteSet(DOMAIN works')
        BY SeqFacts DEF TypeInv, DocsOK
      <3> QED  BY <3>1, FS_Subset DEF LiveWorks
    <2> QED  BY <2>1, FS_CardinalityType
  <1>6. Owed[r] \in Int /\ Owed'[r] \in Int  BY <1>1
  <1>7. case.count + SumFunction(Owed) + lost = Cardinality(LiveWorks) - doubled
    BY DEF CountInv
  <1>8. ASSUME NEW c \in Int, NEW d \in Int, NEW l \in Int, NEW m \in Int,
               NEW x \in Int, NEW y \in Int, NEW a \in Int, NEW b \in Int,
               NEW k \in Int, NEW n \in Int, NEW u \in Int, NEW v \in Int,
               c + x + l = k - u, y = x + b - a,
               (d - c) + (b - a) + (m - l) = (n - k) - (v - u)
        PROVE  d + y + m = n - v
    BY <1>8
  <1>9. SumFunction(Owed) \in Int /\ SumFunction(Owed') \in Int
        /\ SumFunction(Owed') = SumFunction(Owed) + Owed'[r] - Owed[r]
    BY <1>2, <1>3, <1>6
  <1> QED  BY <1>4, <1>5, <1>6, <1>7, <1>8, <1>9

LEMMA CountStep ==
  ASSUME TypeInv, TypeInv', CountInv, NEW r \in Requests, Call(r) \/ Continue(r) \/ Stop(r)
  PROVE  CountInv'
  <1>1. /\ pc \in [Requests -> Awaits \cup {"idle"}]
        /\ case.count \in Int /\ lost \in Int /\ doubled \in Nat
    BY DEF TypeInv, DocsOK, RequestsOK, HistoryOK, Case
  <1>2. \A s \in Requests : s # r => pc'[s] = pc[s] /\ Owed'[s] = Owed[s]
    BY OthersStay DEF Owed
  <1>3. \A s \in Requests : pc'[s] \in {"clear", "void"} => ~case'.live
    <2>1. \A s \in Requests : pc[s] \in {"clear", "void"} => ~case'.live
      BY StaysDeleted DEF CountInv
    <2>2. pc'[r] \in {"clear", "void"} => pc[r] \in {"clear", "void"} \/ ~case'.live
      <3>1. DeleteCase(r) => ~case'.live  BY DEF DeleteCase, TypeInv, DocsOK, Case
      <3> QED  BY <3>1, CallPath, ContinuePath DEF Continue
    <2> QED  BY <1>2, <2>1, <2>2
  <1>4. ASSUME case'.live
        PROVE  (case'.count - case.count) + (Owed'[r] - Owed[r]) + (lost' - lost)
                 = (Cardinality(LiveWorks') - Cardinality(LiveWorks)) - (doubled' - doubled)
    <2>1. case.live  BY <1>4, StaysDeleted
    <2>2. pc[r] # "clear"  BY <2>1 DEF CountInv
    <2>3. IsFiniteSet(LiveWorks)
      <3>1. IsFiniteSet(DOMAIN works)  BY SeqFacts DEF TypeInv, DocsOK
      <3> QED  BY <3>1, FS_Subset DEF LiveWorks
    <2>4. Cardinality(LiveWorks) \in Int  BY <2>3, FS_CardinalityType
    <2>5. Owed'[r] = IF pc'[r] = "count" THEN 1 ELSE IF pc'[r] = "uncount" THEN -1 ELSE 0
      BY DEF Owed
    <2>6. Owed[r] = IF pc[r] = "count" THEN 1 ELSE IF pc[r] = "uncount" THEN -1 ELSE 0
      BY DEF Owed
    <2>8. CASE InsertWork(r)
      <3>1. pc[r] = "insert" /\ pc'[r] = "count" /\ UNCHANGED <<case, lost, doubled>>
        BY <2>8, ContinuePath DEF InsertWork, ghosts
      <3>2. /\ DOMAIN works' = DOMAIN works \cup {Len(works) + 1}
            /\ Len(works) + 1 \notin DOMAIN works
            /\ \A i \in DOMAIN works : works'[i] = works[i]
            /\ works'[Len(works) + 1].live
        BY <2>8, WorkInserted
      <3>3. LiveWorks' = LiveWorks \cup {Len(works) + 1} /\ Len(works) + 1 \notin LiveWorks
        BY <3>2 DEF LiveWorks
      <3>4. Cardinality(LiveWorks') = Cardinality(LiveWorks) + 1
        BY <2>3, <3>3, FS_AddElement
      <3> QED  BY <1>1, <2>4, <2>5, <2>6, <3>1, <3>4
    <2>9. CASE RetireWork(r)
      <3> DEFINE i == op[r].at
      <3>1. pc[r] = "retire" /\ pc'[r] = "uncount" /\ UNCHANGED <<case, lost>>
            /\ doubled' = IF works[i].live THEN doubled ELSE doubled + 1
        BY <2>9, ContinuePath DEF RetireWork
      <3>2. /\ i \in DOMAIN works /\ DOMAIN works' = DOMAIN works /\ ~works'[i].live
            /\ \A j \in DOMAIN works : j # i => works'[j] = works[j]
        BY <2>9, WorkRetired
      <3>3. LiveWorks' = LiveWorks \ {i} /\ (works[i].live <=> i \in LiveWorks)
        <4> HIDE DEF i
        <4> QED  BY <3>2 DEF LiveWorks
      <3> HIDE DEF i
      <3>4. CASE works[i].live
        <4>1. Cardinality(LiveWorks') = Cardinality(LiveWorks) - 1
          BY <2>3, <3>3, <3>4, FS_RemoveElement
        <4> QED  BY <1>1, <2>4, <2>5, <2>6, <3>1, <3>4, <4>1
      <3>5. CASE ~works[i].live
        <4>1. LiveWorks' = LiveWorks  BY <3>3, <3>5
        <4> QED  BY <1>1, <2>4, <2>5, <2>6, <3>1, <3>5, <4>1
      <3> QED  BY <3>4, <3>5
    <2>10. CASE ~InsertWork(r) /\ ~RetireWork(r)
      <3>1. LiveWorks' = LiveWorks
        BY <2>2, <2>10, WorkMoves, ContinuePath DEF LiveWorks, WorkKept
      <3>2. doubled' = doubled  BY <2>10, HistoryMoves
      <3>3. CASE Stop(r)
        <4>1. lost' = lost + Owed[r] /\ UNCHANGED case
          BY <3>3 DEF Stop, docs
        <4>2. Owed'[r] = 0  BY <2>5, <3>3, ContinuePath
        <4>3. Owed[r] \in Int  BY <2>6
        <4> QED  BY <1>1, <2>4, <3>1, <3>2, <4>1, <4>2, <4>3
      <3>4. CASE ~Stop(r)
        <4>1. lost' = lost  BY <3>4, HistoryMoves
        <4>2. CASE CountWork(r)
          <5>1. pc[r] = "count" /\ pc'[r] = "idle" /\ case' = Counted(1)
            BY <4>2, ContinuePath DEF CountWork
          <5>2. case \in Case /\ 1 \in Int  BY DEF TypeInv, DocsOK
          <5>3. case'.count = case.count + 1
            BY <2>1, <5>1, <5>2, CountedType
          <5> QED  BY <1>1, <2>4, <2>5, <2>6, <3>1, <3>2, <4>1, <5>1, <5>3
        <4>3. CASE UncountWork(r)
          <5>1. pc[r] = "uncount" /\ pc'[r] = "idle" /\ case' = Counted(-1)
            BY <4>3, ContinuePath DEF UncountWork
          <5>2. case \in Case /\ -1 \in Int  BY DEF TypeInv, DocsOK
          <5>3. case'.count = case.count + (-1)
            BY <2>1, <5>1, <5>2, CountedType
          <5> QED  BY <1>1, <2>4, <2>5, <2>6, <3>1, <3>2, <4>1, <5>1, <5>3
        <4>4. CASE ~CountWork(r) /\ ~UncountWork(r)
          <5>1. case'.count = case.count  BY <1>4, <4>4, CaseMoves
          <5>2. pc[r] \notin {"count", "uncount"} /\ pc'[r] \notin {"count", "uncount"}
            BY <2>10, <3>4, <4>4, CallPath, ContinuePath DEF Continue
          <5> QED  BY <1>1, <2>4, <2>5, <2>6, <3>1, <3>2, <4>1, <5>1, <5>2
        <4> QED  BY <4>2, <4>3, <4>4
      <3> QED  BY <3>3, <3>4
    <2> QED  BY <2>8, <2>9, <2>10
  <1>5. ASSUME case'.live
        PROVE  case'.count + SumFunction(Owed') + lost' = Cardinality(LiveWorks') - doubled'
    <2>1. case.live  BY <1>5, StaysDeleted
    <2> QED  BY <1>2, <1>4, <1>5, <2>1, Balanced
  <1> QED  BY <1>3, <1>5 DEF CountInv

-----------------------------------------------------------------------------
(* The content of a deleted case, and the quotes.                          *)

QuoteKept(i) ==
  /\ quotes'[i].number = quotes[i].number /\ quotes'[i].answer = quotes[i].answer
  /\ quotes'[i].contested = quotes[i].contested /\ quotes'[i].late = quotes[i].late

OtherQuotes(i) ==
  DOMAIN quotes' = DOMAIN quotes /\ \A j \in DOMAIN quotes : j # i => quotes'[j] = quotes[j]

LEMMA QuoteInserted ==
  ASSUME TypeInv, NEW r \in Requests, InsertQuote(r)
  PROVE  /\ DOMAIN quotes' = DOMAIN quotes \cup {Len(quotes) + 1}
         /\ Len(quotes) + 1 \notin DOMAIN quotes
         /\ \A i \in DOMAIN quotes : quotes'[i] = quotes[i]
         /\ quotes'[Len(quotes) + 1].number = op[r].number
         /\ quotes'[Len(quotes) + 1].answer = None
         /\ quotes'[Len(quotes) + 1].live
         /\ quotes'[Len(quotes) + 1].late = ~case.live
  <1>1. quotes \in Seq(Quote) /\ op[r].number \in Nat \ {0}
    BY DEF TypeInv, DocsOK, RequestsOK, InsertQuote, Leave, Advance, Shape, Op
  <1> DEFINE n == op[r].number
             q == [NewQuote(n) EXCEPT !.late = ~case.live]
  <1>2. /\ NewQuote(n) \in Quote /\ NewQuote(n).number = n /\ NewQuote(n).answer = None
        /\ NewQuote(n).live
    BY <1>1 DEF NewQuote, Quote, QuoteStatuses
  <1>3. q \in Quote /\ q.number = n /\ q.answer = None /\ q.live
    <2>1. ASSUME NEW x \in Quote, x.live
          PROVE  LET y == [x EXCEPT !.late = ~case.live]
                 IN  y \in Quote /\ y.number = x.number /\ y.answer = x.answer /\ y.live
      BY <2>1 DEF Quote
    <2> HIDE DEF n
    <2> QED  BY <1>2, <2>1
  <1>4. q.late = ~case.live
    <2>1. ASSUME NEW x \in Quote
          PROVE  [x EXCEPT !.late = ~case.live].late = ~case.live
      BY DEF Quote
    <2> QED  BY <1>2, <2>1
  <1>5. quotes' = Append(quotes, q)  BY DEF InsertQuote
  <1> HIDE DEF q
  <1> QED  BY <1>1, <1>3, <1>4, <1>5, SeqAdd

(* The answer of the customer: the status and the answer at once.          *)
Answered(i, s) ==
  /\ quotes'[i].status = s /\ quotes'[i].answer = IF s \in Answers THEN s ELSE None
  /\ quotes'[i].contested = \E q \in Requests : pc[q] = "keep" /\ op[q].at = i

LEMMA QuoteAnswered ==
  ASSUME TypeInv, NEW r \in Requests, NEW i \in DOMAIN quotes,
         NEW s \in QuoteStatuses, UpdateQuote(r, i, s)
  PROVE  /\ OtherQuotes(i) /\ Answered(i, s) /\ quotes[i].live
         /\ quotes'[i].number = quotes[i].number /\ quotes'[i].late = quotes[i].late
         /\ quotes'[i].live = quotes[i].live
  <1> DEFINE b == \E q \in Requests : pc[q] = "keep" /\ op[q].at = i
             a == IF s \in Answers THEN s ELSE None
             e == [quotes[i] EXCEPT !.status = s, !.answer = a, !.contested = b]
  <1>1. quotes' = [quotes EXCEPT ![i] = e] /\ quotes[i].live  BY DEF UpdateQuote
  <1>2. quotes[i] \in Quote  BY Places
  <1>3. ASSUME NEW c \in BOOLEAN, NEW x
        PROVE  LET y == [quotes[i] EXCEPT !.status = s, !.answer = x, !.contested = c]
               IN  /\ y.status = s /\ y.answer = x
                   /\ y.number = quotes[i].number
    BY <1>2 DEF Quote
  <1>4. ASSUME NEW c \in BOOLEAN, NEW x
        PROVE  [quotes[i] EXCEPT !.status = s, !.answer = x, !.contested = c].contested = c
    BY <1>2 DEF Quote
  <1>5. ASSUME NEW c \in BOOLEAN, NEW x
        PROVE  LET y == [quotes[i] EXCEPT !.status = s, !.answer = x, !.contested = c]
               IN  y.late = quotes[i].late /\ y.live = quotes[i].live
    BY <1>2 DEF Quote
  <1>6. b \in BOOLEAN  OBVIOUS
  <1> HIDE DEF b, a
  <1>7. /\ e.status = s /\ e.answer = a /\ e.number = quotes[i].number
        /\ e.contested = b /\ e.late = quotes[i].late /\ e.live = quotes[i].live
    BY <1>3, <1>4, <1>5, <1>6
  <1> HIDE DEF e
  <1>8. /\ DOMAIN quotes' = DOMAIN quotes /\ quotes'[i] = e
        /\ \A j \in DOMAIN quotes : j # i => quotes'[j] = quotes[j]
    BY <1>1
  <1> QED  BY <1>1, <1>7, <1>8 DEF OtherQuotes, Answered, a, b

LEMMA QuoteLogged ==
  ASSUME TypeInv, NEW r \in Requests, LogSave(r), quotes' # quotes
  PROVE  LET i == op[r].at
         IN  /\ i \in DOMAIN quotes /\ OtherQuotes(i) /\ QuoteKept(i)
             /\ quotes'[i].live = quotes[i].live
             /\ quotes'[i].status = IF op[r].sent THEN op[r].status ELSE quotes[i].status
  <1> DEFINE i == op[r].at
             s == IF op[r].sent THEN op[r].status ELSE quotes[i].status
             e == [quotes[i] EXCEPT !.sends = @ + 1, !.version = @ + 1, !.status = s]
  <1>1. quotes' = [quotes EXCEPT ![i] = e]  BY DEF LogSave
  <1>2. i \in DOMAIN quotes  BY DEF LogSave, Leave, Advance, TypeInv, Shape
  <1>3. quotes[i] \in Quote  BY <1>2, Places
  <1>4. ASSUME NEW x, NEW m, NEW n, NEW q \in Quote
        PROVE  LET y == [q EXCEPT !.sends = m, !.version = n, !.status = x]
               IN  /\ y.status = x /\ y.number = q.number /\ y.answer = q.answer
                   /\ y.contested = q.contested /\ y.late = q.late /\ y.live = q.live
    BY DEF Quote
  <1> HIDE DEF s
  <1>5. /\ e.status = s /\ e.number = quotes[i].number /\ e.answer = quotes[i].answer
        /\ e.contested = quotes[i].contested /\ e.late = quotes[i].late
        /\ e.live = quotes[i].live
    <2> HIDE DEF i
    <2> QED  BY <1>3, <1>4
  <1> HIDE DEF e
  <1>6. /\ DOMAIN quotes' = DOMAIN quotes /\ quotes'[i] = e
        /\ \A j \in DOMAIN quotes : j # i => quotes'[j] = quotes[j]
    BY <1>1, <1>2
  <1> QED  BY <1>2, <1>5, <1>6 DEF OtherQuotes, QuoteKept, s

LEMMA QuoteDropped ==
  ASSUME TypeInv, NEW r \in Requests, DropQuote(r)
  PROVE  LET i == op[r].at
         IN  /\ i \in DOMAIN quotes /\ OtherQuotes(i) /\ QuoteKept(i)
             /\ ~quotes'[i].live /\ quotes'[i].status = quotes[i].status
  <1>1. op[r].at \in DOMAIN quotes  BY DEF DropQuote, Leave, Advance, TypeInv, Shape
  <1>2. quotes[op[r].at] \in Quote  BY <1>1, Places
  <1> QED  BY <1>1, <1>2 DEF DropQuote, OtherQuotes, QuoteKept, Quote

LEMMA QuotesVoided ==
  ASSUME TypeInv, NEW r \in Requests, VoidQuotes(r)
  PROVE  DOMAIN quotes' = DOMAIN quotes
         /\ \A i \in DOMAIN quotes : /\ QuoteKept(i) /\ ~quotes'[i].live
                                     /\ quotes'[i].status = quotes[i].status
  <1>1. \A i \in DOMAIN quotes : quotes[i] \in Quote  BY Places
  <1> QED  BY <1>1 DEF VoidQuotes, QuoteKept, Quote

(* The steps that change a quote.                                          *)
LEMMA QuoteMoves ==
  ASSUME TypeInv, NEW r \in Requests, Call(r) \/ Continue(r) \/ Stop(r)
  PROVE  \/ UNCHANGED quotes
         \/ VoidQuotes(r) \/ InsertQuote(r) \/ DropQuote(r)
         \/ \E i \in DOMAIN quotes, s \in QuoteStatuses :
              UpdateQuote(r, i, s)
         \/ LogSave(r) /\ quotes' # quotes
  <1>1. CASE Call(r)
    BY <1>1 DEF Call, TodoRead, UpdateCase, DeleteCase, CreateWorkRead, CreateQuoteRead,
       UpdateWork, DeleteWorkRead, StartRead, CompleteRead, SignRead, WorkRead, SendRead,
       DeleteQuoteRead, Enter, docs
  <1>2. CASE Continue(r) \/ Stop(r)
    BY <1>2 DEF Continue, TodoSave, ClearWorks, InsertWork, CountWork, RetireWork,
       UncountWork, StartWork, CompleteWork, SignWork, Worked, GenerateNumber, RetryQuote,
       RefuseQuote, Mail, LogRead, LogNothing, Stop, docs
  <1> QED  BY <1>1, <1>2

LEMMA ClearedStep ==
  ASSUME TypeInv, TypeInv', CountInv, ClearedInv,
         NEW r \in Requests, Call(r) \/ Continue(r) \/ Stop(r)
  PROVE  ClearedInv'
  <1> SUFFICES ASSUME ~case'.live, stops' = 0
               PROVE  /\ (\A s \in Requests : pc'[s] # "clear") =>
                           \A i \in DOMAIN works' : works'[i].live => works'[i].late
                      /\ (\A s \in Requests : pc'[s] \notin {"clear", "void"}) =>
                           \A i \in DOMAIN quotes' : quotes'[i].live => quotes'[i].late
    BY DEF ClearedInv
  <1>1. stops = 0 /\ ~Stop(r)
    <2>1. stops \in Nat  BY DEF TypeInv, HistoryOK
    <2>2. stops' \in {stops, stops + 1}  BY HistoryMoves
    <2>3. Stop(r) => stops' = stops + 1  BY DEF Stop
    <2> QED  BY <2>1, <2>2, <2>3
  <1>2. \A s \in Requests : s # r => pc'[s] = pc[s]  BY OthersStay
  <1>3. CASE case.live
    <2>1. DeleteCase(r)  BY <1>3, CaseMoves DEF TypeInv, DocsOK
    <2>2. pc'[r] = "clear"  BY <2>1 DEF DeleteCase, TypeInv, RequestsOK
    <2> QED  BY <2>2
  <1>4. CASE ~case.live
    <2>1. ASSUME \A s \in Requests : pc'[s] # "clear",
                 NEW i \in DOMAIN works', works'[i].live
          PROVE  works'[i].late
      <3>1. CASE ClearWorks(r)
        <4>1. \A j \in DOMAIN works : works[j] \in Work  BY Places
        <4> QED  BY <2>1, <3>1, <4>1 DEF ClearWorks, Work
      <3>2. CASE ~ClearWorks(r)
        <4>1. pc[r] # "clear"
          BY <1>1, <3>2, CallPath, ContinuePath DEF Continue
        <4>2. \A j \in DOMAIN works : works[j].live => works[j].late
          BY <1>1, <1>2, <1>4, <2>1, <4>1 DEF ClearedInv
        <4>3. CASE InsertWork(r)  BY <1>4, <2>1, <4>2, <4>3, WorkInserted
        <4>4. CASE RetireWork(r)  BY <2>1, <4>2, <4>4, WorkRetired
        <4>5. CASE ~InsertWork(r) /\ ~RetireWork(r)
          BY <2>1, <3>2, <4>2, <4>5, WorkMoves DEF WorkKept
        <4> QED  BY <4>3, <4>4, <4>5
      <3> QED  BY <3>1, <3>2
    <2>2. ASSUME \A s \in Requests : pc'[s] \notin {"clear", "void"},
                 NEW i \in DOMAIN quotes', quotes'[i].live
          PROVE  quotes'[i].late
      <3>1. CASE VoidQuotes(r)  BY <2>2, <3>1, QuotesVoided
      <3>2. CASE ~VoidQuotes(r)
        <4>1. pc[r] \notin {"clear", "void"}
          BY <1>1, <2>2, <3>2, CallPath, ContinuePath DEF Continue
        <4>2. \A j \in DOMAIN quotes : quotes[j].live => quotes[j].late
          BY <1>1, <1>2, <1>4, <2>2, <4>1 DEF ClearedInv
        <4>3. CASE InsertQuote(r)  BY <1>4, <2>2, <4>2, <4>3, QuoteInserted
        <4>4. ASSUME NEW j \in DOMAIN quotes, NEW s \in QuoteStatuses,
                     UpdateQuote(r, j, s)
              PROVE  quotes'[i].late
          BY <2>2, <4>2, <4>4, QuoteAnswered DEF OtherQuotes
        <4>5. CASE LogSave(r) /\ quotes' # quotes
          BY <2>2, <4>2, <4>5, QuoteLogged DEF OtherQuotes, QuoteKept
        <4>6. CASE DropQuote(r)
          BY <2>2, <4>2, <4>6, QuoteDropped DEF OtherQuotes, QuoteKept
        <4>7. CASE UNCHANGED quotes  BY <2>2, <4>2, <4>7
        <4> QED  BY <3>2, <4>3, <4>4, <4>5, <4>6, <4>7, QuoteMoves
      <3> QED  BY <3>1, <3>2
    <2> QED  BY <2>1, <2>2
  <1> QED  BY <1>3, <1>4

-----------------------------------------------------------------------------
(* The status that follows the todos.                                      *)

LEMMA FollowedBy ==
  ASSUME NEW c, NEW d, c.todos = d.todos, c.status = d.status, Followed(c)
  PROVE  Followed(d)
  BY DEF Followed, AllDone, AnyDone

LEMMA AdvanceStep ==
  ASSUME TypeInv, TypeInv', AdvanceInv, NEW r \in Requests, Call(r) \/ Continue(r) \/ Stop(r)
  PROVE  AdvanceInv'
  <1>1. case \in Case /\ op[r] \in Op  BY DEF TypeInv, DocsOK, RequestsOK
  <1>2. ASSUME ~byHand', ~crossed'  PROVE Followed(case')
    <2>1. CASE TodoSave(r)
      <3>1. op[r].case \in Case /\ op[r].to \in Case  BY <1>1 DEF Op
      <3>2. /\ case' = Saved(case, op[r].case, op[r].to)
            /\ case.todos = op[r].case.todos /\ case.status = op[r].case.status
        BY <1>2, <2>1 DEF TodoSave
      <3>3. case'.todos = op[r].to.todos /\ case'.status = op[r].to.status
        BY <1>1, <3>1, <3>2, SavedType
      <3>4. Followed(op[r].to)  BY <2>1, ContinuePath DEF AdvanceInv
      <3> QED  BY <3>3, <3>4, FollowedBy
    <2>2. CASE ~TodoSave(r)
      <3>1. ~\E s \in CaseStatuses : UpdateCase(r, s)
        BY <1>2 DEF UpdateCase
      <3>2. UNCHANGED <<byHand, crossed>>
        <4>1. CASE Call(r)
          BY <3>1, <4>1 DEF Call, TodoRead, DeleteCase, CreateWorkRead, CreateQuoteRead,
             UpdateWork, DeleteWorkRead, StartRead, CompleteRead, SignRead, WorkRead,
             UpdateQuote, SendRead, DeleteQuoteRead, Enter, ghosts
        <4>2. CASE Continue(r) \/ Stop(r)
          BY <2>2, <4>2 DEF Continue, ClearWorks, VoidQuotes, InsertWork, CountWork,
             RetireWork, UncountWork, StartWork, CompleteWork, SignWork, Worked,
             GenerateNumber, InsertQuote, RetryQuote, RefuseQuote, Mail, LogRead,
             LogNothing, LogSave, DropQuote, Stop, ghosts
        <4> QED  BY <4>1, <4>2
      <3>3. case'.todos = case.todos /\ case'.status = case.status
        BY <2>2, <3>1, CaseMoves
      <3>4. Followed(case)  BY <1>2, <3>2 DEF AdvanceInv
      <3> QED  BY <3>3, <3>4, FollowedBy
    <2> QED  BY <2>1, <2>2
  <1>3. ASSUME pc'[r] = "todo"  PROVE Followed(op'[r].to)
    <2>1. Call(r)  BY <1>3, ContinuePath DEF Continue
    <2>2. PICK t \in Todos, s \in {"pending", "done", "skipped"} : TodoRead(r, t, s)
      <3>1. ASSUME NEW at, NEW o, at # "todo", Enter(r, at, o)  PROVE FALSE
        BY <1>3, <3>1 DEF Enter, TypeInv, RequestsOK
      <3>2. ~Once(r) /\ ~DeleteCase(r)
        BY <1>3 DEF Once, DeleteCase, Called, TypeInv, RequestsOK
      <3> QED
        BY <2>1, <3>1, <3>2 DEF Call, UpdateCase, CreateWorkRead, CreateQuoteRead, UpdateWork,
           DeleteWorkRead, StartRead, CompleteRead, SignRead, WorkRead, UpdateQuote,
           SendRead, DeleteQuoteRead
    <2> DEFINE d == [case EXCEPT !.todos[t] = s]
    <2>3. d \in Case  BY <1>1, TodoSet
    <2> HIDE DEF d
    <2>4. Advanced(d) \in Case /\ Followed(Advanced(d))  BY <2>3, AdvancedType
    <2>5. op'[r] = [NoOp EXCEPT !.case = case, !.to = Advanced(d)]
      BY <2>2 DEF TodoRead, Enter, TypeInv, RequestsOK, d
    <2>6. op'[r].to = Advanced(d)  BY <1>1, <2>4, <2>5, NoOpType DEF Op
    <2> QED  BY <2>4, <2>6
  <1>4. \A s \in Requests : s # r => pc'[s] = pc[s] /\ op'[s] = op[s]  BY OthersStay
  <1>5. \A s \in Requests : pc'[s] = "todo" => Followed(op'[s].to)
    BY <1>3, <1>4 DEF AdvanceInv
  <1> QED  BY <1>2, <1>5 DEF AdvanceInv

-----------------------------------------------------------------------------
(* The answer of the customer.                                             *)

AnswerKept(q) == q.answer # None /\ ~q.contested => q.status = q.answer

LEMMA AnswerStep ==
  ASSUME TypeInv, TypeInv', AnswerInv, NEW r \in Requests, Call(r) \/ Continue(r) \/ Stop(r)
  PROVE  AnswerInv'
  <1>1. /\ \A i \in DOMAIN quotes : AnswerKept(quotes[i])
        /\ \A s \in Requests : pc[s] = "keep" => op[s].at \in DOMAIN quotes
    BY DEF AnswerInv, AnswerKept, TypeInv, Shape
  <1>2. \A s \in Requests : pc[s] = "keep" /\ op[s].sent =>
          quotes[op[s].at].answer = None \/ quotes[op[s].at].contested
    BY DEF AnswerInv
  <1>3. \A s \in Requests : s # r => pc'[s] = pc[s] /\ op'[s] = op[s]  BY OthersStay
  <1>4. ASSUME NEW i \in DOMAIN quotes'  PROVE AnswerKept(quotes'[i])
    <2>1. CASE InsertQuote(r)
      BY <1>1, <1>4, <2>1, QuoteInserted DEF AnswerKept
    <2>2. ASSUME NEW j \in DOMAIN quotes, NEW s \in QuoteStatuses,
                 UpdateQuote(r, j, s)
          PROVE  AnswerKept(quotes'[i])
      <3>1. OtherQuotes(j) /\ Answered(j, s)  BY <2>2, QuoteAnswered
      <3>2. quotes'[j].status = s /\ (quotes'[j].answer = s \/ quotes'[j].answer = None)
        BY <3>1 DEF Answered
      <3>3. CASE i = j  BY <3>2, <3>3 DEF AnswerKept
      <3>4. CASE i # j  BY <1>1, <1>4, <3>1, <3>4 DEF OtherQuotes
      <3> QED  BY <3>3, <3>4
    <2>3. CASE LogSave(r) /\ quotes' # quotes
      <3> DEFINE j == op[r].at
      <3>1. CASE i = j
        <4>1. AnswerKept(quotes[j]) /\ i \in DOMAIN quotes
          BY <1>1, <1>4, <2>3, <3>1, QuoteLogged DEF OtherQuotes
        <4>2. op[r].sent => quotes[j].answer = None \/ quotes[j].contested
          BY <1>2, <2>3, ContinuePath
        <4> QED  BY <2>3, <3>1, <4>1, <4>2, QuoteLogged DEF QuoteKept, AnswerKept
      <3>2. CASE i # j
        BY <1>1, <1>4, <2>3, <3>2, QuoteLogged DEF OtherQuotes
      <3> QED  BY <3>1, <3>2
    <2>4. CASE DropQuote(r)
      BY <1>1, <1>4, <2>4, QuoteDropped DEF OtherQuotes, QuoteKept, AnswerKept
    <2>5. CASE VoidQuotes(r)
      BY <1>1, <1>4, <2>5, QuotesVoided DEF QuoteKept, AnswerKept
    <2>6. CASE UNCHANGED quotes  BY <1>1, <1>4, <2>6
    <2> QED  BY <2>1, <2>2, <2>3, <2>4, <2>5, <2>6, QuoteMoves
  <1>5. ASSUME NEW s \in Requests, pc[s] = "keep", pc'[s] = pc[s], op'[s] = op[s], op[s].sent
        PROVE  quotes'[op[s].at].answer = None \/ quotes'[op[s].at].contested
    <2> DEFINE k == op[s].at
    <2>1. k \in DOMAIN quotes /\ (quotes[k].answer = None \/ quotes[k].contested)
      BY <1>1, <1>2, <1>5
    <2>2. CASE InsertQuote(r)  BY <2>1, <2>2, QuoteInserted
    <2>3. ASSUME NEW j \in DOMAIN quotes, NEW a \in QuoteStatuses,
                 UpdateQuote(r, j, a)
          PROVE  quotes'[k].answer = None \/ quotes'[k].contested
      BY <1>5, <2>1, <2>3, QuoteAnswered DEF OtherQuotes, Answered
    <2>4. CASE LogSave(r) /\ quotes' # quotes
      BY <2>1, <2>4, QuoteLogged DEF OtherQuotes, QuoteKept
    <2>5. CASE DropQuote(r)
      BY <2>1, <2>5, QuoteDropped DEF OtherQuotes, QuoteKept
    <2>6. CASE VoidQuotes(r)
      BY <2>1, <2>6, QuotesVoided DEF QuoteKept
    <2>7. CASE UNCHANGED quotes  BY <2>1, <2>7
    <2> QED  BY <2>2, <2>3, <2>4, <2>5, <2>6, <2>7, QuoteMoves
  <1>6. ASSUME pc'[r] = "keep", op'[r].sent
        PROVE  quotes'[op'[r].at].answer = None \/ quotes'[op'[r].at].contested
    <2>1. LogRead(r)  BY <1>6, CallPath, ContinuePath DEF Continue
    <2> DEFINE i == op[r].at
    <2>2. i \in DOMAIN quotes /\ op[r] \in Op
      BY <2>1 DEF LogRead, Advance, TypeInv, Shape, RequestsOK
    <2>3. quotes[i] \in Quote /\ AnswerKept(quotes[i])  BY <1>1, <2>2, Places
    <2>4. op'[r] = [op[r] EXCEPT !.status = Marked(r), !.version = quotes[i].version,
                                 !.sent = (Marked(r) # quotes[i].status)]
      BY <2>1 DEF LogRead, TypeInv, RequestsOK
    <2>5. op'[r].at = i /\ Marked(r) # quotes[i].status
      <3>1. ASSUME NEW o \in Op, NEW x, NEW v, NEW c \in BOOLEAN
            PROVE  [o EXCEPT !.status = x, !.version = v, !.sent = c].at = o.at
        BY DEF Op
      <3>2. ASSUME NEW o \in Op, NEW x, NEW v, NEW c \in BOOLEAN
            PROVE  [o EXCEPT !.status = x, !.version = v, !.sent = c].sent = c
        BY DEF Op
      <3> DEFINE m == Marked(r)
                 v == quotes[i].version
                 c == m # quotes[i].status
      <3>3. c \in BOOLEAN  OBVIOUS
      <3>4. op'[r] = [op[r] EXCEPT !.status = m, !.version = v, !.sent = c]  BY <2>4
      <3>5. c => Marked(r) # quotes[i].status  OBVIOUS
      <3> HIDE DEF m, v, c
      <3>6. op'[r].at = i  BY <2>2, <3>1, <3>3, <3>4
      <3>7. op'[r].sent = c  BY <2>2, <3>2, <3>3, <3>4
      <3> QED  BY <1>6, <3>5, <3>6, <3>7
    <2>6. quotes[i].status = "draft"  BY <2>5 DEF Marked
    <2>7. quotes[i].answer \in Answers \cup {None}  BY <2>3 DEF Quote
    <2>8. quotes' = quotes  BY <2>1 DEF LogRead, docs
    <2> QED  BY <2>3, <2>5, <2>6, <2>7, <2>8 DEF AnswerKept, Answers
  <1>7. \A s \in Requests : pc'[s] = "keep" /\ op'[s].sent =>
          quotes'[op'[s].at].answer = None \/ quotes'[op'[s].at].contested
    BY <1>3, <1>5, <1>6
  <1> QED  BY <1>4, <1>7 DEF AnswerInv, AnswerKept

-----------------------------------------------------------------------------
(* Requests that do not overlap.                                           *)

(* What a request has just read holds.                                     *)
LEMMA KnowsRead ==
  ASSUME TypeInv, NEW r \in Requests, Call(r) \/ Continue(r) \/ Stop(r)
  PROVE  Knows(r)'
  <1>1. pc \in [Requests -> Awaits \cup {"idle"}] /\ op \in [Requests -> Op]
    BY DEF TypeInv, RequestsOK
  <1>2. ASSUME NEW at, NEW o, Enter(r, at, o)
        PROVE  pc'[r] = at /\ op'[r] = o /\ UNCHANGED <<works, quotes>>
    BY <1>1, <1>2 DEF Enter, docs
  <1>3. ASSUME Once(r)  PROVE pc'[r] = "idle"  BY <1>3 DEF Once, Called
  <1>4. CASE Call(r)
    <2>1. ASSUME NEW i \in DOMAIN works, SignRead(r, i)
          PROVE  Knows(r)'
      <3>1. Enter(r, "sign", [NoOp EXCEPT !.at = i]) /\ works[i].signatures = 0
        BY <2>1 DEF SignRead, MaySign, WorkRead
      <3>2. i \in Nat  BY Places
      <3>3. op'[r].at = i /\ pc'[r] = "sign" /\ UNCHANGED works
        BY <1>2, <3>1, <3>2, AtAsked
      <3> QED  BY <3>1, <3>3 DEF Knows
    <2>2. ASSUME NEW i \in DOMAIN quotes, DeleteQuoteRead(r, i)
          PROVE  Knows(r)'
      <3>1. Enter(r, "drop", [NoOp EXCEPT !.at = i]) /\ quotes[i].status = "draft"
        BY <2>2 DEF DeleteQuoteRead
      <3>2. i \in Nat  BY Places
      <3>3. op'[r].at = i /\ pc'[r] = "drop" /\ UNCHANGED quotes
        BY <1>2, <3>1, <3>2, AtAsked
      <3> QED  BY <3>1, <3>3 DEF Knows
    <2>3. CASE /\ ~\E i \in DOMAIN works : SignRead(r, i)
               /\ ~\E i \in DOMAIN quotes : DeleteQuoteRead(r, i)
      <3>1. pc'[r] \notin {"sign", "drop", "keep", "quote"}
        <4>1. DeleteCase(r) => pc'[r] = "clear"  BY <1>1 DEF DeleteCase
        <4>2. ASSUME NEW at, NEW o, Enter(r, at, o),
                     at \notin {"sign", "drop", "keep", "quote"}
              PROVE  pc'[r] \notin {"sign", "drop", "keep", "quote"}
          BY <1>2, <4>2
        <4>3. ASSUME NEW i, \E at \in {"retire", "start", "complete"} : WorkRead(r, i, at)
              PROVE  pc'[r] \notin {"sign", "drop", "keep", "quote"}
          BY <4>2, <4>3 DEF WorkRead
        <4>4. ASSUME CreateWorkRead(r) \/ CreateQuoteRead(r)
                     \/ (\E i : SendRead(r, i)) \/ (\E t \in Todos : \E s : TodoRead(r, t, s))
              PROVE  pc'[r] \notin {"sign", "drop", "keep", "quote"}
          <5>1. ASSUME NEW i, SendRead(r, i)  PROVE \E o : Enter(r, "mail", o)
            BY <5>1 DEF SendRead
          <5>2. ASSUME NEW t, NEW z, TodoRead(r, t, z)  PROVE \E o : Enter(r, "todo", o)
            BY <5>2 DEF TodoRead
          <5>3. CASE CreateWorkRead(r) \/ CreateQuoteRead(r)
            BY <4>2, <5>3 DEF CreateWorkRead, CreateQuoteRead
          <5> QED  BY <4>2, <4>4, <5>1, <5>2, <5>3
        <4>5. ASSUME NEW i, DeleteWorkRead(r, i) \/ StartRead(r, i) \/ CompleteRead(r, i)
              PROVE  pc'[r] \notin {"sign", "drop", "keep", "quote"}
          BY <4>3, <4>5 DEF DeleteWorkRead, StartRead, CompleteRead
        <4>6. /\ \A z \in CaseStatuses : UpdateCase(r, z) => Once(r)
              /\ \A i, z : UpdateWork(r, i, z) => Once(r)
              /\ \A i, z : UpdateQuote(r, i, z) => Once(r)
          BY DEF UpdateCase, UpdateWork, UpdateQuote
        <4>7. \/ Once(r) \/ DeleteCase(r) \/ CreateWorkRead(r) \/ CreateQuoteRead(r)
              \/ (\E i : SendRead(r, i)) \/ (\E t \in Todos : \E s : TodoRead(r, t, s))
              \/ \E i : DeleteWorkRead(r, i) \/ StartRead(r, i) \/ CompleteRead(r, i)
          BY <1>4, <2>3, <4>6 DEF Call
        <4> QED  BY <1>3, <4>1, <4>4, <4>5, <4>7
      <3> QED  BY <3>1 DEF Knows
    <2> QED  BY <2>1, <2>2, <2>3
  <1>5. CASE LogRead(r)
    <2>1. /\ pc'[r] = "keep" /\ quotes[op[r].at].live /\ UNCHANGED quotes
          /\ op'[r].at = op[r].at
      <3> DEFINE m == Marked(r)
                 v == quotes[op[r].at].version
                 c == m # quotes[op[r].at].status
      <3>1. op'[r] = [op[r] EXCEPT !.status = m, !.version = v, !.sent = c]
        BY <1>1, <1>5 DEF LogRead
      <3>2. op[r] \in Op  BY <1>1
      <3> HIDE DEF m, v, c
      <3>3. op'[r].at = op[r].at  BY <3>1, <3>2 DEF Op
      <3>4. quotes[op[r].at].live /\ UNCHANGED quotes  BY <1>5 DEF LogRead, docs
      <3> QED  BY <1>5, <3>3, <3>4, ContinuePath
    <2> QED  BY <2>1 DEF Knows
  <1>6. CASE GenerateNumber(r)
    <2>1. pc'[r] = "quote" /\ UNCHANGED quotes  BY <1>6, ContinuePath DEF GenerateNumber, docs
    <2>2. op'[r] = [op[r] EXCEPT !.number = NextNumber] /\ op[r] \in Op
      BY <1>1, <1>6 DEF GenerateNumber
    <2>3. op'[r].number = NextNumber  BY <2>2 DEF Op
    <2>4. NextNumber' = NextNumber  BY <2>1 DEF NextNumber
    <2> QED  BY <2>1, <2>3, <2>4 DEF Knows
  <1>7. CASE (Continue(r) \/ Stop(r)) /\ ~LogRead(r) /\ ~GenerateNumber(r)
    <2>1. pc'[r] \notin {"sign", "drop", "keep", "quote"}
      BY <1>7, ContinuePath DEF Continue
    <2> QED  BY <2>1 DEF Knows
  <1> QED  BY <1>4, <1>5, <1>6, <1>7

LEMMA SoloStep ==
  ASSUME TypeInv, TypeInv', CountInv, SoloInv,
         NEW r \in Requests, Call(r) \/ Continue(r) \/ Stop(r)
  PROVE  SoloInv'
  <1> SUFFICES ASSUME ~overlapped'
               PROVE  Alone' /\ Drafts' /\ Signed' /\ Numbered' /\ \A s \in Requests : Knows(s)'
    BY DEF SoloInv
  <1>1. ~overlapped /\ (Call(r) => Quiet)
    <2>1. overlapped \in BOOLEAN  BY DEF TypeInv, HistoryOK
    <2>2. Call(r) => (overlapped' = (overlapped \/ ~Quiet))
      <3>1. Call(r) => Called(r)
        BY DEF Call, TodoRead, UpdateCase, CreateWorkRead, CreateQuoteRead, UpdateWork,
           DeleteWorkRead, StartRead, CompleteRead, SignRead, WorkRead, UpdateQuote, SendRead,
           DeleteQuoteRead, DeleteCase, Enter, Once
      <3> QED  BY <3>1 DEF Called
    <2>3. ~Call(r) => overlapped' = overlapped  BY HistoryMoves
    <2> QED  BY <2>1, <2>2, <2>3
  <1>2. Alone /\ Drafts /\ Signed /\ Numbered /\ \A s \in Requests : Knows(s)
    BY <1>1 DEF SoloInv
  <1>3. \A s \in Requests : s # r => pc'[s] = "idle"
    <2>1. \A s \in Requests : s # r => pc'[s] = pc[s]  BY OthersStay
    <2>2. CASE Call(r)  BY <1>1, <2>1, <2>2 DEF Quiet
    <2>3. CASE Continue(r) \/ Stop(r)
      <3>1. pc[r] # "idle"  BY <2>3, ContinuePath DEF Continue
      <3> QED  BY <1>2, <2>1, <3>1 DEF Alone
    <2> QED  BY <2>2, <2>3
  <1>4. Alone'  BY <1>3 DEF Alone
  <1>5. \A s \in Requests : Knows(s)'  BY <1>3, KnowsRead DEF Knows
  <1>6. Drafts'
    <2> SUFFICES ASSUME case'.live, NEW i \in DOMAIN quotes', ~quotes'[i].live
                 PROVE  quotes'[i].status = "draft"
      BY DEF Drafts
    <2>1. case.live  BY StaysDeleted
    <2>2. \A j \in DOMAIN quotes : ~quotes[j].live => quotes[j].status = "draft"
      BY <1>2, <2>1 DEF Drafts
    <2>3. ~VoidQuotes(r)  BY <2>1, ContinuePath DEF CountInv
    <2>4. CASE InsertQuote(r)  BY <2>2, <2>4, QuoteInserted
    <2>5. ASSUME NEW j \in DOMAIN quotes, NEW s \in QuoteStatuses,
                 UpdateQuote(r, j, s)
          PROVE  quotes'[i].status = "draft"
      BY <2>2, <2>5, QuoteAnswered DEF OtherQuotes
    <2>6. CASE LogSave(r) /\ quotes' # quotes
      <3>1. quotes[op[r].at].live  BY <1>2, <2>6, ContinuePath DEF Knows
      <3> QED  BY <2>2, <2>6, <3>1, QuoteLogged DEF OtherQuotes
    <2>7. CASE DropQuote(r)
      <3>1. quotes[op[r].at].status = "draft"  BY <1>2, <2>7, ContinuePath DEF Knows
      <3> QED  BY <2>2, <2>7, <3>1, QuoteDropped DEF OtherQuotes
    <2>8. CASE UNCHANGED quotes  BY <2>2, <2>8
    <2> QED  BY <2>3, <2>4, <2>5, <2>6, <2>7, <2>8, QuoteMoves
  <1>7. Signed'
    <2> SUFFICES ASSUME NEW i \in DOMAIN works'  PROVE works'[i].signatures <= 1
      BY DEF Signed
    <2>1. \A j \in DOMAIN works : works[j].signatures <= 1  BY <1>2 DEF Signed
    <2>2. CASE InsertWork(r)  BY <2>1, <2>2, WorkInserted
    <2>3. CASE RetireWork(r)  BY <2>1, <2>3, WorkRetired
    <2>4. CASE SignWork(r)
      <3>1. works[op[r].at].signatures = 0  BY <1>2, <2>4, ContinuePath DEF Knows
      <3>2. /\ op[r].at \in DOMAIN works /\ DOMAIN works' = DOMAIN works
            /\ \A j \in DOMAIN works : j # op[r].at => works'[j] = works[j]
            /\ works'[op[r].at].signatures = works[op[r].at].signatures + 1
        <4>1. op[r].at \in DOMAIN works
          BY <2>4 DEF SignWork, Worked, Leave, Advance, TypeInv, Shape
        <4>2. works[op[r].at] \in Work  BY <4>1, Places
        <4> QED  BY <2>4, <4>1, <4>2 DEF SignWork, Worked, Work
      <3> QED  BY <2>1, <3>1, <3>2
    <2>5. CASE ~InsertWork(r) /\ ~RetireWork(r) /\ ~SignWork(r)
      BY <2>1, <2>5, WorkMoves DEF WorkKept
    <2> QED  BY <2>2, <2>3, <2>4, <2>5
  <1>8. Numbered'
    <2>1. CASE InsertQuote(r)
      <3> DEFINE n == Len(quotes) + 1
      <3>1. op[r].number = NextNumber  BY <1>2, <2>1, ContinuePath DEF Knows
      <3>2. \A i \in DOMAIN quotes : quotes[i].number = NextNumber => quotes[i].number > Wide
        BY NextNumberNew DEF TypeInv, DocsOK
      <3>3. /\ DOMAIN quotes' = DOMAIN quotes \cup {n} /\ n \notin DOMAIN quotes
            /\ \A i \in DOMAIN quotes : quotes'[i] = quotes[i]
            /\ quotes'[n].number = NextNumber
        BY <2>1, <3>1, QuoteInserted
      <3> HIDE DEF n
      <3> QED  BY <1>2, <3>2, <3>3 DEF Numbered
    <2>2. CASE ~InsertQuote(r)
      <3>1. DOMAIN quotes' = DOMAIN quotes
            /\ \A i \in DOMAIN quotes : quotes'[i].number = quotes[i].number
        <4>1. ASSUME NEW j \in DOMAIN quotes, NEW s \in QuoteStatuses,
                     UpdateQuote(r, j, s)
              PROVE  DOMAIN quotes' = DOMAIN quotes
                     /\ \A i \in DOMAIN quotes : quotes'[i].number = quotes[i].number
          BY <4>1, QuoteAnswered DEF OtherQuotes
        <4>2. CASE LogSave(r) /\ quotes' # quotes
          BY <4>2, QuoteLogged DEF OtherQuotes, QuoteKept
        <4>3. CASE DropQuote(r)  BY <4>3, QuoteDropped DEF OtherQuotes, QuoteKept
        <4>4. CASE VoidQuotes(r)  BY <4>4, QuotesVoided DEF QuoteKept
        <4> QED  BY <2>2, <4>1, <4>2, <4>3, <4>4, QuoteMoves
      <3> QED  BY <1>2, <3>1 DEF Numbered
    <2> QED  BY <2>1, <2>2
  <1> QED  BY <1>4, <1>5, <1>6, <1>7, <1>8

-----------------------------------------------------------------------------
(* The theorems.                                                           *)

LEMMA IInvInit == Init => IInv
  <1> SUFFICES ASSUME Init  PROVE IInv
    OBVIOUS
  <1>1. TypeInv  BY TypeInit
  <1>2. CountInv
    <2>1. LiveWorks = {}  BY DEF Init, LiveWorks
    <2>2. SumFunction(Owed) = 0
      <3>1. \A r \in Requests : Owed[r] = 0  BY OwedType DEF Init
      <3>2. SumFunction(Owed) = SumFunctionOnSet(Owed, Requests)  BY DEF SumFunction, Owed
      <3> QED  BY <3>1, <3>2, SumZero, CaseWorkAssumption
    <2>3. case.count = 0 /\ lost = 0 /\ doubled = 0  BY DEF Init, Fresh
    <2>4. Cardinality(LiveWorks) = 0  BY <2>1, FS_EmptySet
    <2> QED  BY <2>2, <2>3, <2>4 DEF CountInv, Init
  <1>3. ClearedInv  BY DEF Init, Fresh, ClearedInv
  <1>4. AdvanceInv
    <2>1. case.todos = [t \in Todos |-> "pending"]  BY DEF Init, Fresh
    <2>2. Todos # {}  BY CaseWorkAssumption
    <2>3. ~AllDone(case) /\ ~AnyDone(case)  BY <2>1, <2>2 DEF AllDone, AnyDone
    <2> QED  BY <2>3 DEF AdvanceInv, Followed, Init
  <1>5. AnswerInv  BY DEF Init, AnswerInv
  <1>6. SoloInv  BY DEF Init, SoloInv, Alone, Drafts, Signed, Numbered, Knows
  <1> QED  BY <1>1, <1>2, <1>3, <1>4, <1>5, <1>6 DEF IInv

LEMMA IInvStep == IInv /\ [Next]_vars => IInv'
  <1> SUFFICES ASSUME IInv, [Next]_vars  PROVE IInv'
    OBVIOUS
  <1>1. TypeInv'  BY TypeStep DEF IInv
  <1>2. ASSUME NEW r \in Requests, Call(r) \/ Continue(r) \/ Stop(r)
        PROVE  IInv'
    BY <1>1, <1>2, CountStep, ClearedStep, AdvanceStep, AnswerStep, SoloStep DEF IInv
  <1>3. CASE UNCHANGED vars
    <2>1. UNCHANGED <<case, works, quotes, pc, op, byHand, crossed, doubled, lost, stops,
                      overlapped>>
      BY <1>3 DEF vars, docs, ghosts
    <2>2. Owed' = Owed /\ LiveWorks' = LiveWorks /\ NextNumber' = NextNumber
      BY <2>1 DEF Owed, LiveWorks, NextNumber
    <2>3. CountInv'  BY <2>1, <2>2 DEF IInv, CountInv, SumFunction
    <2>4. ClearedInv'  BY <2>1 DEF IInv, ClearedInv
    <2>5. AdvanceInv'  BY <2>1 DEF IInv, AdvanceInv
    <2>6. AnswerInv'  BY <2>1 DEF IInv, AnswerInv
    <2>7. SoloInv'
      BY <2>1, <2>2 DEF IInv, SoloInv, Alone, Drafts, Signed, Numbered, Knows
    <2> QED  BY <1>1, <2>3, <2>4, <2>5, <2>6, <2>7 DEF IInv
  <1> QED  BY <1>2, <1>3 DEF Next

LEMMA IInvAlways == Spec => []IInv
  BY IInvInit, IInvStep, PTL DEF Spec

(* interventionCount is off by the deletions of what was already deleted   *)
(* and by what requests that stopped owed it, and by nothing else; what a  *)
(* deleted case leaves behind was created after it.                        *)
THEOREM CaseContentAccounted == Spec => []ContentAccounted
  <1>1. IInv => ContentAccounted
    BY DEF IInv, CountInv, ClearedInv, ContentAccounted, Quiet
  <1> QED  BY <1>1, IInvAlways, PTL

(* The status of a case has followed its todos, unless a user wrote it     *)
(* since or the case was changed while the todo was being saved.           *)
THEOREM CaseTodosAdvance == Spec => []TodosAdvance
  <1>1. IInv => TodosAdvance
    BY DEF IInv, AdvanceInv, Followed, TodosAdvance
  <1> QED  BY <1>1, IInvAlways, PTL

(* An answer is only undone by a mail that was being logged when it came;  *)
(* without overlaps there is one signature, and a quote whose status is not*)
(* draft is only deleted with its case.                                    *)
THEOREM CaseCustomerWordKept == Spec => []CustomerWordKept
  <1>1. IInv => CustomerWordKept
    BY DEF IInv, AnswerInv, SoloInv, Drafts, Signed, CustomerWordKept
  <1> QED  BY <1>1, IInvAlways, PTL

(* Without overlaps, no number of four digits is given twice.              *)
THEOREM CaseNumbersNeverReused == Spec => []NumbersNeverReused
  <1>1. IInv => NumbersNeverReused
    BY DEF IInv, SoloInv, Numbered, NumbersNeverReused
  <1> QED  BY <1>1, IInvAlways, PTL

===============================================================================
