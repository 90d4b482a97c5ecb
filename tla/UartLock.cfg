SPECIFICATION FairSpec
CONSTANTS
  Ids = {0, 1, 2}
  MaxLocks = 2
  Booted = FALSE
INVARIANTS ExclusiveUnlessOverlapped NotLostUnlessOverlapped
PROPERTY EveryoneGetsIt
CHECK_DEADLOCK FALSE
