SPECIFICATION Spec
CONSTANTS
  Runs = {r1, r2, r3}
  MaxRunning = 2
  nil = nil
SYMMETRY RunSymmetry
INVARIANTS
  CollectorTypeOK
  OnlyOverlapsMisuse
PROPERTIES
  AloneLeavesNothing
