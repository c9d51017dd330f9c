CONSTANTS
  m = m
  r = r
  Fixtures = {m, r}
  Expect <- MCExpect
  Unknown = Unknown
  Baselines <- MCBaselines
  RunsPerFixture = 2
  AuthoringTarget = 90
  AdversarialTarget = 100
  InfraCap = 10
  ToolBudget = 3
  MaxBatch = 2
SPECIFICATION Spec
INVARIANTS
  GreenIsMeasured
  BlameIsRight
  BudgetIsHard
PROPERTIES
  BaselineIsEarned
  LoopEnds
CHECK_DEADLOCK FALSE
