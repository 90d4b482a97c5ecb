\* Rings of 2 slots; one of them is given a third packet, or both are given barriers.
SPECIFICATION FairSpec
CONSTANTS
  Agents = {0, 1}
  Size = 2
  MaxPackets = 4
  Loads <- McLoads
  NumDeps = 2
  Word = 4
INVARIANT Delays
PROPERTY OnlyMisledWaitForever
CHECK_DEADLOCK FALSE
