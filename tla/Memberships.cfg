SPECIFICATION Spec
CONSTANTS
  Requests = {r1, r2}
  Users = {founder, u1, u2}
  Founder = founder
  Elsewhere = {u2}
  Nobody = Nobody
  MaxSeats = 2
  MaxCalls = 5
  MaxAborts = 1
SYMMETRY Symmetry
CHECK_DEADLOCK FALSE
INVARIANT TypeOK
INVARIANT AdministratorRemains
INVARIANT InvitationsAnswerable
INVARIANT SuspendedHasNoSession
PROPERTY FollowsRoster
