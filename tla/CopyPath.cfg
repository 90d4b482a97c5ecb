CONSTANTS
  Lengths = {0, 1, 2, 3}
  Strides = {0, 1, 5, 7}
  paddr = 100
  Stall = 4
  Cols = {2, 6}
  MaxPush = 6
  Copies <- MCCopies
  Col = 2
  EB = 4
  Mapped = 32
  MaxOther = 2
  bitor <- orBits
SPECIFICATION FairPathSpec
INVARIANTS
  RowsInOrder
  DoneMeansCopied
  ExecutedUnlessLapped
  RegionCopied
PROPERTIES
  CallReturns
  RefinesLane
CHECK_DEADLOCK FALSE
