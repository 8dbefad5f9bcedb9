SPECIFICATION Spec
CONSTANTS
  Requests = {r1, r2}
  Locations = {l1, l2}
  NoLocation = NoLocation
  MaxQuantity = 1
  MaxCalls = 5
  MaxAborts = 1
SYMMETRY Symmetry
CHECK_DEADLOCK FALSE
INVARIANT TypeOK
INVARIANT TotalAccounted
INVARIANT LocationsSane
INVARIANT TransfersConserve
INVARIANT ReturnsCapped
