CONSTANTS
  o1 = o1
  p1 = p1
  t1 = t1
  t2 = t2
  v1 = v1
  v2 = v2
  Ids = {o1}
  Pointers = {p1}
  NoTarget = NoTarget
  BadTarget = BadTarget
  NumCases = 1
  NoContent = NoContent
  NonFinite = inf
  Values <- MCValues
  Contents <- MCContents3
  Templates <- MCTemplates
  Behaviour <- MCBehaviour3
  RepairAttempts = 2
  MaxEdits = 1
  MaxRounds = 3
SPECIFICATION Spec
INVARIANT OnlyConfirmedIsDelivered
CHECK_DEADLOCK FALSE
