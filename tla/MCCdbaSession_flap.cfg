CONSTANTS
  PipeCap = 2
  OptSets <- MCCycle
  Downloads = {d1, d2, d3}
  Chunks = 1
  TildeRun = 2
  ReplyCap = 3
  MaxDrops = 1
  MaxOuts = 2
SPECIFICATION Spec
CHECK_DEADLOCK FALSE
INVARIANTS
  BootsTheFile
