CONSTANTS
  o1 = o1
  p1 = p1
  t1 = t1
  t2 = t2
  v1 = v1
  v2 = v2
  Ids = {o1}
  Pointers = {p1}
  NoTarget = NoTarget
  BadTarget = BadTarget
  NumCases = 1
  NoContent = NoContent
  NonFinite = inf
  Values <- MCValues
  Contents <- MCContents
  Templates <- MCTemplates
  Behaviour <- MCBehaviour
  RepairAttempts = 2
  MaxEdits = 2
  MaxRounds = 3
SPECIFICATION Spec
INVARIANTS
  TypeOK
  MatchedIsAttested
  BudgetKept
PROPERTIES
  EditsUnconfirm
  RunsEnd
CHECK_DEADLOCK FALSE
