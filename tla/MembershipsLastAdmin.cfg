SPECIFICATION Spec
CONSTANTS
  Requests = {r1, r2}
  Users = {founder, u1}
  Founder = founder
  Elsewhere = {}
  Nobody = Nobody
  MaxSeats = 2
  MaxCalls = 4
  MaxAborts = 0
SYMMETRY Symmetry
CHECK_DEADLOCK FALSE
INVARIANT AdministratorAlways
