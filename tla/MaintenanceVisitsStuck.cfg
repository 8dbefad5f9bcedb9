SPECIFICATION Spec
CONSTANTS
  Requests = {r1}
  Worker = Worker
  Notifiers = {n1}
  Contracts = {c1}
  MonthDays <- ShortMonths
  Dates = {2}
  Ends = {None}
  Chosen = {"active"}
  Recurrences = {1}
  Notices = {1}
  None = None
  MaxDay = 5
  MaxCalls = 0
  MaxFaults = 1
CHECK_DEADLOCK FALSE
PROPERTY DueVisitsAlways
