SPECIFICATION FairSpec
CONSTANTS
  k1 = k1
  k2 = k2
  c1 = c1
  c2 = c2
  s1 = s1
  s2 = s2
  Keys = {k1, k2}
  Closes = {c1, c2}
  Syncs = {s1, s2}
  Start <- MCStart
  End <- MCEnd
  LastHour = 2
  TicksPerHour = 2
  Price = 1
  MaxQuantity = 1
  MaxRetries = 1
  MaxFailures = 1
INVARIANTS BilledOnceAndAlike NoHourBilledTwice
PROPERTIES ImplementsBilling InvoiceIsSynced
CHECK_DEADLOCK FALSE
