SPECIFICATION LoopSpec
CONSTANTS
  Functions <- Fns
  Labels <- LabelOptions
  PostLabels <- Posts
  TileSizes <- Sizes
  Orders <- Orders2and3
  MergeLevels <- Merges
  Depths <- AllDepths
  MaxPasses = 3
INVARIANT SameExecution
CHECK_DEADLOCK FALSE
