SPECIFICATION Spec
CONSTANTS
  Requests = {r1}
  Ids = {i1, i2, i3}
  MaxYear = 2
  MaxSends = 2
  MaxAborts = 0
  NoNumber = NoNumber
  NoInvoice = NoInvoice
SYMMETRY Symmetry
CHECK_DEADLOCK FALSE
INVARIANT EveryAttemptLogged
PROPERTY ImplementsLedger
PROPERTY IssuedFrozen
