SPECIFICATION Spec
CONSTANTS
  Requests = {r1}
  QuoteTotal = 2
  MaxCustom = 1
  MaxInvoices = 3
  MaxAborts = 1
CHECK_DEADLOCK FALSE
INVARIANT TypeOK
INVARIANT SituationsDistinct
INVARIANT QuoteNotExceeded
INVARIANT BillingCaughtUp
INVARIANT WorkOffered
