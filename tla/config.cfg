CONSTANTS
  Runs = {r1, r2, r3}
  Prior = Prior
  NoFile = NoFile
SPECIFICATION Spec
INVARIANTS
  TypeOK
  NoLitter
  SuccessStands
PROPERTIES
  NoClobber
  ImplementsRegister
SYMMETRY MCSymmetry
CHECK_DEADLOCK FALSE
