SPECIFICATION Spec
CONSTANTS
  Requests = {r1, r2}
  Todos = {t1, t2}
  Wide = 2
  MaxAttempts = 2
  None = None
  MaxCalls = 5
  MaxStops = 1
SYMMETRY Symmetry
CHECK_DEADLOCK FALSE
INVARIANT TypeOK
INVARIANT ContentAccounted
INVARIANT TodosAdvance
INVARIANT CustomerWordKept
INVARIANT NumbersNeverReused
