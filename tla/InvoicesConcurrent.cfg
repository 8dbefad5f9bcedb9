SPECIFICATION Spec
CONSTANTS
  Requests = {r1, r2}
  Ids = {i1, i2}
  MaxYear = 1
  MaxSends = 2
  MaxAborts = 1
  NoNumber = NoNumber
  NoInvoice = NoInvoice
SYMMETRY Symmetry
CHECK_DEADLOCK FALSE
INVARIANT TypeOK
INVARIANT NumbersUnique
INVARIANT CreditNotesOfNumbered
PROPERTY NumberNeverFreed
PROPERTY SendLogAppendOnly
