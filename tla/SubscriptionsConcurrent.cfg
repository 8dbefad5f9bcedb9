SPECIFICATION FairSpec
CONSTANTS
  Handlers = {h1, h2}
  Subs = {s1, s2}
  NoSub = NoSub
  TrialDays = 1
  PeriodDays = 1
  MaxTrialExtensions = 2
  Serial = FALSE
  MaxDay = 1
  MaxSeats = 0
  MaxEvents = 3
  MaxFailures = 1
  MaxStaff = 0
CHECK_DEADLOCK FALSE
INVARIANT StatusWasReported
PROPERTY EveryEventRecorded
