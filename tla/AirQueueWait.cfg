CONSTANTS
  Size = 2
  MaxPackets = 2
  Window = 2
  SignalMod = 4
SPECIFICATION FairSpec
PROPERTY WaitReturnsEventually
CHECK_DEADLOCK FALSE
