SPECIFICATION Spec
CONSTANTS
  Requests = {r1}
  Worker = Worker
  Notifiers = {n1}
  Contracts = {c1}
  MonthDays <- ShortMonths
  Dates = {2}
  Ends = {None, 3}
  Chosen = {"draft", "active"}
  Recurrences = {1}
  Notices = {1}
  None = None
  MaxDay = 5
  MaxCalls = 1
  MaxFaults = 1
CHECK_DEADLOCK FALSE
INVARIANT TypeOK
INVARIANT VisitsAccounted
INVARIANT OneVisitPerDue
INVARIANT SlipsOnce
INVARIANT RemindedTruly
PROPERTY DueVisitsGenerated
