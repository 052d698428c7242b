CONSTANTS
  PipeCap = 2
  OptSets <- MCTimeout
  Downloads = {d1, d2, d3}
  Chunks = 1
  TildeRun = 2
  ReplyCap = 3
  MaxDrops = 0
  MaxOuts = 0
SPECIFICATION Spec
CHECK_DEADLOCK FALSE
INVARIANTS
  WorkListIsSound
