CONSTANTS
  Lengths = {1}
  Strides = {0}
  paddr = 100
  Stall = 4
  Cols = {2, 6}
  MaxPush = 6
  Copies <- CdmaPackets
  Col = 2
  EB = 4
  Mapped = 32
  MaxOther = 0
  bitor <- orBits
SPECIFICATION FairPathSpec
INVARIANT CdmaCopies
CHECK_DEADLOCK FALSE
