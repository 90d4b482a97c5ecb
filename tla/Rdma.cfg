SPECIFICATION Spec
CONSTANTS
  WorldSize = 3
  Programs <- MCPrograms
  QDepth = 16
  PageUnits = 8
  RegUnits = 16
INVARIANTS
  InOrder
  Barrier
  Reachable
PROPERTY Completes
CHECK_DEADLOCK FALSE
