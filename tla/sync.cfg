CONSTANTS
  e1 = e1
  e2 = e2
  e3 = e3
  example = example
  Engines = {e1, e2, e3}
  Served = {e1, e2}
  Version3 = {e1, e2}
  Examples <- MCExamples
  Syncs = {s1, s2}
  None = None
  Versions = {v1, v2}
  Levels = {1, 2}
  MaxLines = 4
SPECIFICATION RecordSpec
INVARIANTS
  GreenIsOneEngine
  SyncedIsGreen
  EntryIsTopmost
  GreenIsReleased
PROPERTIES
  SidecarSurvives
SYMMETRY MCSymmetry
CHECK_DEADLOCK FALSE
