SPECIFICATION Spec
CONSTANTS
  k1 = k1
  k2 = k2
  r1 = r1
  r2 = r2
  w1 = w1
  w2 = w2
  Keys = {k1, k2}
  Requests = {r1, r2}
  Workers = {w1}
  MaxTime = 2
  Recorded = {0, 1, 2}
  TicksPerHour = 1
  TicksPerMonth = 2
  Lookback = 1
  MaxBatch = 2
  MaxFailures = 1
  None = None
  PeriodStart = 3
  PeriodEnd = 6
  TicksPerDay = 2
  PlanFeatures <- MCPlanFeatures
  Quantities = {1, 2}
  Standings <- MCStandings
SYMMETRY Symm
CHECK_DEADLOCK FALSE
INVARIANT KeyStoredOnce
