SPECIFICATION FairSpec
CONSTANTS
  api1 = api1
  api2 = api2
  r1 = r1
  r2 = r2
  r3 = r3
  w1 = w1
  None = None
  Procs = {api1, api2}
  Readers = {r1, r3}
  Writers = {w1}
  ProcOf <- MCProcOf
  WriteKinds = {"change", "cancel"}
  HasReplica = TRUE
  MaxWrites = 2
  MaxExpiries = 1
  MaxFaults = 1
INVARIANTS StampedeBounded
PROPERTIES EvaluateEnds StalenessEnds
