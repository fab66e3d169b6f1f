SPECIFICATION FairSpec
CONSTANTS
  k1 = k1
  k2 = k2
  r1 = r1
  r2 = r2
  w1 = w1
  w2 = w2
  Keys = {k1}
  Requests = {r1, r2}
  Workers = {w1, w2}
  MaxTime = 5
  Recorded = {1, 3, 4}
  TicksPerHour = 2
  TicksPerMonth = 4
  Lookback = 4
  MaxBatch = 1
  MaxFailures = 1
  None = None
  PeriodStart = 3
  PeriodEnd = 6
  TicksPerDay = 2
  PlanFeatures <- MCPlanFeatures
  Quantities = {0, 1, 2}
  Standings <- MCStandings
PROPERTY AggregatesConverge
CHECK_DEADLOCK FALSE

INVARIANTS HardLimitHolds DenialIsEarned AcknowledgedStoredOncePerMonth AggregateCountsStoredEvents
