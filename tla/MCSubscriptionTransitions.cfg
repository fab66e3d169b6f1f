SPECIFICATION Spec
CONSTANTS
  s1 = s1
  paid1 = paid1
  paid2 = paid2
  failed1 = failed1
  failed2 = failed2
  other1 = other1
  stray1 = stray1
  p1 = p1
  p2 = p2
  NoPlan = NoPlan
  PlanKeys = {k1}
  PlanPrice <- MCPlanPrice
  Endless = {p2}
  DunningEnabled = TRUE
  NoSub = NoSub
  NoWorkOn = NoWorkOn
  Subs = {s1}
  Events = {paid1, paid2, failed1}
  Workers = {w1, w2}
  MaxRequests = 5
  EventType <- MCEventType
  EventSub <- MCEventSub
PROPERTIES LegalTransitionsOnly
CHECK_DEADLOCK FALSE
