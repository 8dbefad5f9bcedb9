SPECIFICATION Spec
CONSTANTS
  Requests = {r1, r2}
  Ids = {i1, i2}
  MaxYear = 1
  MaxSends = 0
  MaxAborts = 0
  NoNumber = NoNumber
  NoInvoice = NoInvoice
SYMMETRY Symmetry
CHECK_DEADLOCK FALSE
INVARIANT IssuedNeverDeleted
