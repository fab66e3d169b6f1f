SPECIFICATION Spec
CONSTANTS
  api1 = api1
  api2 = api2
  r1 = r1
  r2 = r2
  r3 = r3
  w1 = w1
  None = None
  Procs = {api1, api2}
  Readers = {r1}
  Writers = {w1}
  ProcOf <- MCProcOf
  WriteKinds = {"change"}
  HasReplica = FALSE
  MaxWrites = 1
  MaxExpiries = 0
  MaxFaults = 0
INVARIANT NoSnapshotOlderThanBump
