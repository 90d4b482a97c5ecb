SPECIFICATION NSpec
CONSTANTS
  Programs <- Progs
  Tiled <- TiledProgs
INVARIANTS Dominated OrderKept SameOrder SameData
CHECK_DEADLOCK FALSE
