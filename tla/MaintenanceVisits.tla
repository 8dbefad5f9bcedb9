--------------------------- MODULE MaintenanceVisits ---------------------------
(***************************************************************************)
(* Maintenance contracts: MaintenanceContractsService, driven by the       *)
(* requests of users, by the hourly job of the worker that plans the due   *)
(* visits and by the hourly job of the notifier that reminds of them.      *)
(*                                                                         *)
(* Planning a visit opens a case, plans an intervention on it and records  *)
(* both on the contract, in three documents.  Every step works on the      *)
(* contract as it was read some awaits before.                             *)
(*                                                                         *)
(* A month is never longer than two months together, which is all that is  *)
(* said of the calendar.                                                   *)
(***************************************************************************)
EXTENDS Naturals, Sequences, Functions, FiniteSets

CONSTANTS
  Requests,     (* requests of users that may be in flight at the same time *)
  Worker,       (* the process of MaintenanceContractVisitsScheduler        *)
  Notifiers,    (* runs of MaintenanceVisitReminderScheduler in flight at   *)
                (* the same time: nothing keeps it from overlapping itself  *)
  Contracts,
  MonthDays,    (* the lengths of the months, over and over                 *)
  Dates,        (* due dates that users write on a contract                 *)
  Ends,         (* end dates that they write                                *)
  Chosen,       (* statuses that they write                                 *)
  Recurrences,  (* recurrenceMonths that they write                         *)
  Notices,      (* remindBeforeDays that they write                         *)
  None,         (* no date                                                  *)
  MaxDay,       (* bound on the days that pass                              *)
  MaxCalls,     (* bound on the requests                                    *)
  MaxFaults     (* bound on the failures and restarts                       *)

ASSUME MaintenanceAssumption ==
  /\ MonthDays \in Seq(Nat \ {0}) /\ MonthDays # << >>
  /\ \A i, j, k \in DOMAIN MonthDays : MonthDays[i] <= MonthDays[j] + MonthDays[k]
  /\ Contracts # {}
  /\ Dates \subseteq Nat /\ Ends \subseteq Nat \cup {None} /\ None \notin Nat
  /\ Chosen \subseteq {"draft", "active", "suspended", "ended"}
  /\ Recurrences \subseteq Nat \ {0}
  /\ Notices \subseteq Nat
  /\ Worker \notin Requests \cup Notifiers /\ Notifiers \cap Requests = {}
  /\ {MaxDay, MaxCalls, MaxFaults} \subseteq Nat

VARIABLES
  today,        (* the date                                                 *)
  contract,     (* maintenance_contracts                                    *)
  cases,        (* cases opened for a visit, in the order of their creation *)
  pc,           (* requests and jobs: the await each is at                  *)
  op,           (* requests and jobs: the contract at work, read and to be  *)
  round,        (* jobs: the contracts read, those left, and when           *)
  running,      (* MaintenanceContractVisitsScheduler.running               *)
  notices,      (* due dates of which somebody was notified, per contract   *)
  moved,        (* contracts whose due date or recurrence a user wrote      *)
  calls,        (* requests so far                                          *)
  faults,       (* failures and restarts so far                             *)
  conflicts,    (* saves that the version of the document refused           *)
  overlapped    (* two have been in flight at the same time                 *)

jobVars == <<pc, op, round, running>>
history == <<notices, moved, calls, faults, conflicts, overlapped>>
vars    == <<today, contract, cases, jobVars, history>>

Jobs      == {Worker} \cup Notifiers
Processes == Requests \cup Jobs

-----------------------------------------------------------------------------
(* Dates are day numbers.  Date.UTC(y, m + n, d) is d - 1 days after the   *)
(* first of a month, whatever the length of that month.                    *)

FirstDay[m \in Nat] ==
  IF m = 0 THEN 0
           ELSE FirstDay[m - 1] + MonthDays[1 + ((m - 1) % Len(MonthDays))]

MonthOf(d) == CHOOSE m \in 0..d : FirstDay[m] <= d /\ d < FirstDay[m + 1]

FromOne(d, n)   == FirstDay[MonthOf(d) + 1 + n] + (d - FirstDay[MonthOf(d)])
                                                        \* slip of AddMonths
AddMonths(d, n) == FirstDay[MonthOf(d) + n] + (d - FirstDay[MonthOf(d)])

MaxNotice == CHOOSE n \in Notices : \A x \in Notices : x <= n

-----------------------------------------------------------------------------
Statuses == {"draft", "active", "suspended", "ended"}
Modes    == {"auto_plan", "schedule_with_client"}
Day      == Nat \cup {None}
Entry    == [visit: Nat \ {0}, due: Nat]

Contract ==
  [status: Statuses, mode: Modes, due: Nat, ends: Day, every: Recurrences,
   notice: Notices, pending: BOOLEAN, reminded: Day, visits: Seq(Entry),
   version: Nat, live: BOOLEAN]

(* Contracts as `create` makes them.                                       *)
Created ==
  [status: Chosen, mode: Modes, due: Dates, ends: Ends, every: Recurrences,
   notice: Notices, pending: {FALSE}, reminded: {None}, visits: {<< >>}, version: {0}, live: {TRUE}]

Blank == CHOOSE x \in Created : TRUE
NoOp  == [contract |-> None, read |-> Blank, to |-> Blank, visit |-> 0]
NoRound == [left |-> {}, read |-> [c \in Contracts |-> Blank], day |-> 0]

Awaits == {"save", "close", "open", "plan", "record", "search", "round", "sift",
           "notify", "mark"}

TypeOK ==
  /\ today \in 0..MaxDay
  /\ contract \in [Contracts -> Contract]
  /\ cases \in Seq([contract: Contracts, due: Nat, planned: BOOLEAN])
  /\ pc \in [Processes -> Awaits \cup {"idle"}]
  /\ op \in [Processes -> [contract: Contracts \cup {None}, read: Contract,
                           to: Contract, visit: Nat]]
  /\ round \in [Jobs -> [left: SUBSET Contracts, read: [Contracts -> Contract],
                         day: 0..MaxDay]]
  /\ running \in BOOLEAN
  /\ notices \in [Contracts -> Seq(Nat)]
  /\ moved \subseteq Contracts
  /\ {calls, faults, conflicts} \subseteq Nat
  /\ overlapped \in BOOLEAN

Init ==
  /\ today = 0
  /\ contract \in [Contracts -> Created]
  /\ cases = << >>
  /\ pc = [p \in Processes |-> "idle"]
  /\ op = [p \in Processes |-> NoOp]
  /\ round = [j \in Jobs |-> NoRound]
  /\ running = FALSE
  /\ notices = [c \in Contracts |-> << >>]
  /\ moved = {}
  /\ calls = 0 /\ faults = 0 /\ conflicts = 0
  /\ overlapped = FALSE

-----------------------------------------------------------------------------
(* Vocabulary.                                                             *)

Quiet == \A p \in Processes : pc[p] = "idle"

Enters == overlapped' = (overlapped \/ ~Quiet)

Working(p, at, c, read, to) ==
  /\ pc' = [pc EXCEPT ![p] = at]
  /\ op' = [op EXCEPT ![p] = [contract |-> c, read |-> read, to |-> to, visit |-> 0]]

(* A request ends; a job goes on with its next contract.                   *)
Resume(p) == IF p = Worker THEN "round" ELSE IF p \in Notifiers THEN "notify" ELSE "idle"
Done(p) ==
  /\ pc' = [pc EXCEPT ![p] = Resume(p)]
  /\ op' = [op EXCEPT ![p] = NoOp]

(* `doc.save()` writes the fields that differ from what was read, to the   *)
(* document of that _id, deleted or not.                                   *)
Merged(now, read, to) ==
  [now EXCEPT
    !.status   = IF to.status = read.status THEN @ ELSE to.status,
    !.mode     = IF to.mode = read.mode THEN @ ELSE to.mode,
    !.due      = IF to.due = read.due THEN @ ELSE to.due,
    !.ends     = IF to.ends = read.ends THEN @ ELSE to.ends,
    !.every    = IF to.every = read.every THEN @ ELSE to.every,
    !.notice   = IF to.notice = read.notice THEN @ ELSE to.notice,
    !.pending  = IF to.pending = read.pending THEN @ ELSE to.pending,
    !.reminded = IF to.reminded = read.reminded THEN @ ELSE to.reminded,
    !.live     = IF to.live = read.live THEN @ ELSE to.live]

Save(c, read, to) ==
  contract' = [contract EXCEPT ![c] = Merged(@, read, to)]

Expired(d) == [d EXCEPT !.status = "expired"]           \* slip of Ended
Ended(d)   == [d EXCEPT !.status = "ended"]
PastEnd(d) == d.ends # None /\ d.due > d.ends
After(d, day)    == d.due < day                         \* slip of IsDue
IsDue(d, day)    == d.due <= day
InWindow(d, day) == day + d.notice >= d.due

-----------------------------------------------------------------------------
(* Requests of users.                                                      *)

Called(r) ==
  /\ pc[r] = "idle"
  /\ calls < MaxCalls
  /\ calls' = calls + 1
  /\ Enters
  /\ UNCHANGED <<today, contract, cases, round, running, notices, faults, conflicts>>

(* update: a new due date forgets the reminder of the former one.          *)
Edits(d) ==
       {[d EXCEPT !.due = x, !.reminded = None] : x \in Dates}
  \cup {[d EXCEPT !.status = x]   : x \in Chosen}
  \cup {[d EXCEPT !.mode = x]     : x \in Modes}
  \cup {[d EXCEPT !.ends = x]     : x \in Ends}
  \cup {[d EXCEPT !.every = x]    : x \in Recurrences}
  \cup {[d EXCEPT !.notice = x]   : x \in Notices}

UpdateRead(r, c) ==
  LET d == contract[c]
  IN  /\ d.live
      /\ Called(r)
      /\ \E to \in Edits(d) \ {d} :
           /\ Working(r, "save", c, d, to)
           /\ moved' = IF \/ to.due # d.due \/ to.reminded # d.reminded
                         \/ to.every # d.every
                      THEN moved \cup {c} ELSE moved

RemoveRead(r, c) ==
  LET d == contract[c]
  IN  /\ d.live
      /\ Called(r)
      /\ Working(r, "save", c, d, [d EXCEPT !.live = FALSE])
      /\ UNCHANGED moved

(* The save of an update, of a deletion, of a mark of the notifier.        *)
SaveContract(p) ==
  /\ pc[p] = "save"
  /\ Save(op[p].contract, op[p].read, op[p].to)
  /\ Done(p)
  /\ UNCHANGED <<today, cases, round, running, history>>

-----------------------------------------------------------------------------
(* generateVisit, by a user or by the worker.                              *)

Plannable(c, force) ==
  contract[c].live /\ (contract[c].status = "active" \/ force)

PlanRead(p, c) ==
  LET d == contract[c]
  IN  IF PastEnd(d) THEN Working(p, "close", c, d, Ended(d))
                    ELSE Working(p, "open", c, d, d)

Generate(r, c, force) ==
  /\ Plannable(c, force)
  /\ Called(r)
  /\ PlanRead(r, c)
  /\ UNCHANGED moved

(* The contract is past its end: it is closed, and the request refused.    *)
CloseContract(p) ==
  /\ pc[p] = "close"
  /\ Save(op[p].contract, op[p].read, op[p].to)
  /\ Done(p)
  /\ UNCHANGED <<today, cases, round, running, history>>

OpenCase(p) ==
  /\ pc[p] = "open"
  /\ cases' = Append(cases, [contract |-> op[p].contract, due |-> op[p].read.due,
                             planned |-> FALSE])
  /\ pc' = [pc EXCEPT ![p] = "plan"]
  /\ op' = [op EXCEPT ![p].visit = Len(cases')]
  /\ UNCHANGED <<today, contract, round, running, history>>

PlanIntervention(p) ==
  /\ pc[p] = "plan"
  /\ cases' = [cases EXCEPT ![op[p].visit].planned = TRUE]
  /\ pc' = [pc EXCEPT ![p] = "record"]
  /\ UNCHANGED <<today, contract, op, round, running, history>>

(* The contract with its next due date, and the visit on top of visits.    *)
Standing(d) == [d EXCEPT !.pending = FALSE, !.reminded = None]  \* slip of Advanced
Advanced(d) ==
  LET next == AddMonths(d.due, d.every)
  IN  [d EXCEPT !.status   = IF d.ends # None /\ next > d.ends THEN "ended" ELSE @,
                !.due      = next,
                !.pending  = FALSE,
                !.reminded = None]

(* visitHistory is replaced as a whole, so mongoose saves only the version *)
(* that was read and throws otherwise.                                     *)
Unversioned(p) == TRUE                                  \* slip of SameVersion
SameVersion(p) == contract[op[p].contract].version = op[p].read.version

RecordVisit(p) ==
  LET c == op[p].contract
      d == op[p].read
      k == Merged(contract[c], d, Advanced(d))
  IN  /\ pc[p] = "record"
      /\ Done(p)
      /\ IF SameVersion(p)
         THEN /\ contract' = [contract EXCEPT ![c] =
                   [k EXCEPT !.visits  = <<[visit |-> op[p].visit, due |-> d.due]>> \o d.visits,
                             !.version = @ + 1]]
              /\ UNCHANGED conflicts
         ELSE /\ conflicts' = conflicts + 1
              /\ UNCHANGED contract
      /\ UNCHANGED <<today, cases, round, running, notices, moved, calls, faults,
                     overlapped>>

-----------------------------------------------------------------------------
(* The hourly job of the worker; it does not start while it runs.          *)
StartRound ==
  /\ ~running
  /\ pc[Worker] = "idle"
  /\ running' = TRUE
  /\ pc' = [pc EXCEPT ![Worker] = "search"]
  /\ Enters
  /\ UNCHANGED <<today, contract, cases, op, round, notices, moved, calls, faults,
                 conflicts>>

(* The start of the run is recorded outside the try block: when that fails *)
(* nothing resets `running`.                                               *)
FailToStart ==
  /\ faults < MaxFaults
  /\ ~running
  /\ pc[Worker] = "idle"
  /\ running' = TRUE
  /\ faults' = faults + 1
  /\ UNCHANGED <<today, contract, cases, pc, op, round, notices, moved, calls,
                 conflicts, overlapped>>

(* processDueContracts reads its candidates ...                            *)
Candidates == {c \in Contracts : /\ contract[c].live
                                 /\ contract[c].status = "active"
                                 /\ contract[c].due <= today + MaxNotice}

SearchDue ==
  /\ pc[Worker] = "search"
  /\ pc' = [pc EXCEPT ![Worker] = "round"]
  /\ round' = [round EXCEPT ![Worker] =
                [left |-> Candidates, read |-> contract, day |-> today]]
  /\ UNCHANGED <<today, contract, cases, op, running, history>>

(* ... and for each one closes it, plans its visit, queues it to be        *)
(* scheduled with the client, or passes.                                   *)
ProcessContract(c) ==
  LET d == round[Worker].read[c]
      day == round[Worker].day
      stay == pc' = pc /\ op' = op
  IN  /\ pc[Worker] = "round"
      /\ c \in round[Worker].left
      /\ round' = [round EXCEPT ![Worker].left = @ \ {c}]
      /\ \/ /\ PastEnd(d)
            /\ Save(c, d, Ended(d))
            /\ stay
         \/ /\ ~PastEnd(d) /\ d.mode = "auto_plan"
            /\ IF IsDue(d, day) /\ Plannable(c, FALSE) THEN PlanRead(Worker, c)
                                                    ELSE stay
            /\ UNCHANGED contract
         \/ /\ ~PastEnd(d) /\ d.mode = "schedule_with_client"
            /\ IF InWindow(d, day) /\ ~d.pending
               THEN Save(c, d, [d EXCEPT !.pending = TRUE])
               ELSE UNCHANGED contract
            /\ stay
      /\ UNCHANGED <<today, cases, running, history>>

EndRound ==
  /\ pc[Worker] = "round"
  /\ round[Worker].left = {}
  /\ pc' = [pc EXCEPT ![Worker] = "idle"]
  /\ round' = [round EXCEPT ![Worker] = NoRound]
  /\ running' = FALSE
  /\ UNCHANGED <<today, contract, cases, op, history>>

-----------------------------------------------------------------------------
(* The hourly job of the notifier: listReminderCandidates ...              *)
Remindable(docs, day) ==
  {c \in Contracts : /\ docs[c].live
                     /\ docs[c].status = "active"
                     /\ docs[c].mode = "schedule_with_client"
                     /\ InWindow(docs[c], day)
                     /\ docs[c].reminded # docs[c].due}

SearchReminders(n) ==
  /\ pc[n] = "idle"
  /\ Remindable(contract, today) # {}
  /\ pc' = [pc EXCEPT ![n] = "sift"]
  /\ round' = [round EXCEPT ![n] =
                [left |-> Remindable(contract, today), read |-> contract, day |-> today]]
  /\ Enters
  /\ UNCHANGED <<today, contract, cases, op, running, notices, moved, calls, faults,
                 conflicts>>

(* ... queues those that were not queued yet ...                           *)
QueueReminder(n, c) ==
  LET d == round[n].read[c]
  IN  /\ pc[n] = "sift"
      /\ c \in round[n].left
      /\ round' = [round EXCEPT ![n].left = @ \ {c}]
      /\ Save(c, d, [d EXCEPT !.pending = TRUE])
      /\ UNCHANGED <<today, cases, pc, op, running, history>>

EndQueue(n) ==
  LET it == round[n]
  IN  /\ pc[n] = "sift"
      /\ it.left = {}
      /\ pc' = [pc EXCEPT ![n] = "notify"]
      /\ round' = [round EXCEPT ![n].left = Remindable(it.read, it.day)]
      /\ UNCHANGED <<today, contract, cases, op, running, history>>

(* ... then, for each of them, the members who want it are notified and    *)
(* the reminder is marked; without a subscription or a member it is not.   *)
NotifyNobody(n, c) ==                                      \* slip of NotifyMembers
  /\ Working(n, "mark", c, Blank, Blank)
  /\ UNCHANGED notices
NotifyMembers(n, c) ==
  /\ Working(n, "mark", c, Blank, Blank)
  /\ notices' = [notices EXCEPT ![c] = Append(@, round[n].read[c].due)]

Remind(n, c) ==
  /\ pc[n] = "notify"
  /\ c \in round[n].left
  /\ round' = [round EXCEPT ![n].left = @ \ {c}]
  /\ \/ NotifyMembers(n, c)
     \/ UNCHANGED <<pc, op, notices>>
  /\ UNCHANGED <<today, contract, cases, running, moved, calls, faults, conflicts,
                 overlapped>>

(* markReminded reads the contract again.                                  *)
MarkRead(n) ==
  LET c == op[n].contract
      d == contract[c]
  IN  /\ pc[n] = "mark"
      /\ IF d.live
         THEN Working(n, "save", c, d,
                      [d EXCEPT !.reminded = d.due, !.pending = TRUE])
         ELSE Done(n)
      /\ UNCHANGED <<today, contract, cases, round, running, history>>

EndReminders(n) ==
  /\ pc[n] = "notify"
  /\ round[n].left = {}
  /\ pc' = [pc EXCEPT ![n] = "idle"]
  /\ round' = [round EXCEPT ![n] = NoRound]
  /\ UNCHANGED <<today, contract, cases, op, running, history>>

-----------------------------------------------------------------------------
(* A call throws: a request fails, a job goes on with its next contract.   *)
Fail(p) ==
  /\ faults < MaxFaults
  /\ pc[p] \in {"save", "close", "open", "plan", "record", "mark"}
  /\ Done(p)
  /\ faults' = faults + 1
  /\ UNCHANGED <<today, contract, cases, round, running, notices, moved, calls,
                 conflicts, overlapped>>

(* The process of a job restarts.                                          *)
Restart(j) ==
  /\ faults < MaxFaults
  /\ pc[j] # "idle" \/ (j = Worker /\ running)
  /\ pc' = [pc EXCEPT ![j] = "idle"]
  /\ op' = [op EXCEPT ![j] = NoOp]
  /\ round' = [round EXCEPT ![j] = NoRound]
  /\ running' = IF j = Worker THEN FALSE ELSE running
  /\ faults' = faults + 1
  /\ UNCHANGED <<today, contract, cases, notices, moved, calls, conflicts, overlapped>>

NewDay ==
  /\ today < MaxDay
  /\ today' = today + 1
  /\ UNCHANGED <<contract, cases, jobVars, history>>

-----------------------------------------------------------------------------
Visit(p) ==
  \/ CloseContract(p) \/ OpenCase(p) \/ PlanIntervention(p) \/ RecordVisit(p)

Call(r) ==
  \E c \in Contracts :
    \/ UpdateRead(r, c)
    \/ RemoveRead(r, c)
    \/ \E force \in BOOLEAN : Generate(r, c, force)

WorkerStep ==
  \/ StartRound \/ SearchDue
  \/ \E c \in Contracts : ProcessContract(c)
  \/ Visit(Worker)
  \/ EndRound

NotifierStep(n) ==
  \/ SearchReminders(n)
  \/ \E c \in Contracts : QueueReminder(n, c) \/ Remind(n, c)
  \/ EndQueue(n) \/ MarkRead(n) \/ SaveContract(n) \/ EndReminders(n)

Next ==
  \/ \E r \in Requests : Call(r) \/ Visit(r) \/ SaveContract(r)
  \/ WorkerStep
  \/ \E n \in Notifiers : NotifierStep(n)
  \/ FailToStart
  \/ \E p \in Processes : Fail(p)
  \/ \E j \in Jobs : Restart(j)
  \/ NewDay

(* The job of the worker runs every hour, and the event loop gets to what  *)
(* is ready.  Users owe nothing.                                           *)
Fairness == WF_vars(WorkerStep)

Spec == Init /\ [][Next]_vars /\ Fairness

-----------------------------------------------------------------------------
VisitsOf(c) == {contract[c].visits[i].visit : i \in DOMAIN contract[c].visits}
Recorded    == UNION {VisitsOf(c) : c \in Contracts}
InFlight    == {op[p].visit : p \in {q \in Processes : pc[q] \in {"plan", "record"}}}
Lost        == DOMAIN cases \ (Recorded \cup InFlight)

(* A case opened for a visit is recorded on its contract, with its         *)
(* intervention, unless a call failed or a save was refused: the history   *)
(* of visits loses nothing to users and jobs that plan at the same time.   *)
VisitsAccounted ==
  /\ Cardinality(Lost) <= faults + conflicts
  /\ \A c \in Contracts : \A i \in DOMAIN contract[c].visits :
       LET e == contract[c].visits[i]
       IN  cases[e.visit] = [contract |-> c, due |-> e.due, planned |-> TRUE]

(* "Echeance couverte par cette generation": unless a user moved it, no    *)
(* due date is covered twice in the history, newest first, and the next    *)
(* one has not been covered.                                               *)
OneVisitPerDue ==
  \A c \in Contracts \ moved :
    LET v == contract[c].visits
    IN  /\ \A i, j \in DOMAIN v : i < j => v[i].due > v[j].due
        /\ v # << >> => contract[c].due > v[1].due

(* Unless a user moved it, the due dates of a contract, newest first.      *)
DueDates(c) ==
  <<contract[c].due>> \o [i \in DOMAIN contract[c].visits |-> contract[c].visits[i].due]

(* The month in which dues[i] falls if nothing slips from dues[j] on.      *)
MonthAimed(c, i, j) == MonthOf(DueDates(c)[j]) + (j - i) * contract[c].every

(* A visit whose month lacks the day is made in the month after, and the  *)
(* next ones are counted from there.  Those slips do not add up: between   *)
(* any two of its visits a contract is never ahead of its recurrence, and  *)
(* never behind it by more than one month, however many short months it    *)
(* meets.                                                                  *)
SlipsOnce ==
  \A c \in Contracts \ moved : \A i, j \in DOMAIN DueDates(c) :
    i < j => MonthOf(DueDates(c)[i]) \in MonthAimed(c, i, j) .. (MonthAimed(c, i, j) + 1)

(* "Echeance pour laquelle un rappel a deja ete envoye (dedup)": while     *)
(* users and jobs do not overlap somebody was notified of the due date     *)
(* marked as such and, if nothing failed, once.                            *)
RemindedTruly ==
  ~overlapped => \A c \in Contracts :
    /\ contract[c].reminded # None =>
         \E i \in DOMAIN notices[c] : notices[c][i] = contract[c].reminded
    /\ faults = 0 /\ c \notin moved => IsInjective(notices[c])

(* An active contract planned automatically whose due date has come.       *)
Overdue(c) ==
  LET d == contract[c]
  IN  d.live /\ d.status = "active" /\ d.mode = "auto_plan" /\ d.due <= today

Jammed == running /\ pc[Worker] = "idle"

(* "a l'echeance, Planwise cree automatiquement un dossier et une          *)
(* intervention": an overdue contract catches up, whatever users do and    *)
(* whatever fails on the way, except the start of the job.                 *)
DueVisitsGenerated ==
  \A c \in Contracts : Overdue(c) ~> (~Overdue(c) \/ Jammed)

(* The same, with no exception.                                            *)
DueVisitsAlways ==
  \A c \in Contracts : Overdue(c) ~> ~Overdue(c)

===============================================================================
