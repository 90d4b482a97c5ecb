SPECIFICATION Spec
CONSTANTS
  Programs <- Progs
  MaxTime = 160
INVARIANTS
  NoneMissing
  NoneLeft
PROPERTIES
  InOrder
  Completes
CHECK_DEADLOCK FALSE
