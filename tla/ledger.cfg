CONSTANTS
  Families = {FR, AC}
  MaxId = 2
  Updaters = {u1}
  Checkers = {c1}
  MaxEdits = 2
SPECIFICATION Spec
INVARIANTS
  TypeOK
  LedgerContiguous
  NothingForgotten
PROPERTY AppendOnly
CHECK_DEADLOCK FALSE
