SPECIFICATION Spec
CONSTANTS
  Handlers = {h1}
  Subs = {s1, s2}
  NoSub = NoSub
  TrialDays = 1
  PeriodDays = 1
  MaxTrialExtensions = 2
  Serial = TRUE
  MaxDay = 4
  MaxSeats = 1
  MaxEvents = 6
  MaxFailures = 0
  MaxStaff = 1
SYMMETRY Symmetry
CHECK_DEADLOCK FALSE
INVARIANT TypeOK
INVARIANT MirrorsStripe
INVARIANT TrialExtensionsCapped
PROPERTY PaidNotDemoted
