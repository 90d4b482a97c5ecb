\* A ring of 3 slots that wraps twice, up to 3 packets in flight.
CONSTANTS
  Size = 3
  MaxPackets = 6
  Window = 3
  SignalMod = 3
SPECIFICATION FairSpec
INVARIANTS
  InOrderOnce
  WaitIsSound
  NoOverwrite
PROPERTIES
  EveryPacketHandled
  RefinesFifo
CHECK_DEADLOCK FALSE
