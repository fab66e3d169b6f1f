SPECIFICATION Spec
CONSTANTS
  s1 = s1
  s2 = s2
  p1 = p1
  p2 = p2
  f1 = f1
  f2 = f2
  Sessions = {s1, s2}
  Products = {d1}
  Features = {f1, f2}
  Plans = {p1, p2}
  Amounts = {5}
  Inputs <- MCInputs
  FeatureTypes = {"quota", "gauge"}
  Orgs = {o1}
  None = None
SYMMETRY Symm
CHECK_DEADLOCK FALSE
INVARIANTS VersionsDense SubscriberTermsStable SnapshotClosed
