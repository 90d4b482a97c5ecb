SPECIFICATION Spec
CONSTANTS
  Modules <- MCModules
  Array <- MCArray
  Buffers <- MCBuffers
  Kernels <- MCKernels
  MaxDepth = 2
INVARIANTS
  Disjoint
  NoRoomLeft
  FlowsMatch
  HerdLoaded
  Delivered
PROPERTY Completes
CHECK_DEADLOCK FALSE
