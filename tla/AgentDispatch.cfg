CONSTANTS
  Size = 4
  MaxPackets = 4
  Window = 3
  max_slot = 1
  Descriptors = 2
  Stall = 1
SPECIFICATION FairSpec
INVARIANTS
  StagedIsLive
  CompleteMeansMoved
  BarrierOrders
  ReadIndexExact
PROPERTIES
  CompletesUnlessSkipped
CHECK_DEADLOCK FALSE
