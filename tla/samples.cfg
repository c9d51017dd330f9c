CONSTANTS
  Ids = {o1, o2}
  Pointers = {p1}
  NoTarget = NoTarget
  BadTarget = BadTarget
  EditKinds <- MCKinds
  EditShapes <- MCShapes
  MaxItems = 3
  Keys <- MCKeys
  Depth = 3
  Cases <- MCCases
SPECIFICATION MatchSpec
INVARIANTS
  GapsDecide
  EvidenceForAll
  MatchIsEquality
PROPERTY EvidenceIsMonotone
SYMMETRY MCSymmetry
CHECK_DEADLOCK FALSE
