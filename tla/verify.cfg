CONSTANTS
  NumCases = 2
  Values = {v1, v2}
  NonFinite = inf
SPECIFICATION Spec
INVARIANTS
  TypeOK
  MatchedIsEarned
  EngineGated
  CasesAccounted
  NothingLingers
  ErrorsAreHonest
PROPERTY ImplementsContract
CHECK_DEADLOCK FALSE
