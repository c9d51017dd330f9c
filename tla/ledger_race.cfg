CONSTANTS
  Families = {FR, AC}
  MaxId = 2
  Updaters = {u1, u2}
  Checkers = {}
  MaxEdits = 2
SPECIFICATION Spec
PROPERTY AppendOnly
CHECK_DEADLOCK FALSE
