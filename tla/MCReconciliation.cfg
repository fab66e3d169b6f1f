SPECIFICATION FairSpec
CONSTANTS
  daily = daily
  manual = manual
  None = None
  Invoices = {i1}
  Keys = {k1}
  Workers = {daily, manual}
  Amounts = {0, 1, 2}
  Threshold = 2
  MaxMoves = 5
  MaxFailures = 2
  Retries <- MCRetries
INVARIANTS RunIsWhole ChargedInvoiceNeverReported
PROPERTIES RunIsFrozen LastingDifferenceReported RequestIsServed
CHECK_DEADLOCK FALSE
