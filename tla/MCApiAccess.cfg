SPECIFICATION Spec
CONSTANTS
  adm = adm
  a = a
  n = n
  p1 = p1
  p2 = p2
  r1 = r1
  r2 = r2
  None = None
  Keys = {adm, a, n}
  RootRow <- MCRootRow
  Procs = {p1, p2}
  Requests = {r1, r2}
  ProcOf <- MCProcOf
  TTL = 1
  Lag = 1
  Window = 3
  Phase = 2
  LimitOf <- MCLimitOf
  Asks <- MCAsks
  Wanted <- MCWanted
  Delay = 1
  RedisDelay = 2
  MaxNow = 5
  Loads <- MCLoads
CHECK_DEADLOCK FALSE
INVARIANT RevocationBites
INVARIANT RefusalIsJustified
INVARIANT ReplacementOfLiveKey
INVARIANT BurstBounded
SYMMETRY MCSymmetry
