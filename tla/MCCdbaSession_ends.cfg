CONSTANTS
  PipeCap = 2
  OptSets <- MCEnds
  Downloads = {d1, d2, d3}
  Chunks = 1
  TildeRun = 2
  ReplyCap = 3
  MaxDrops = 0
  MaxOuts = 0
SPECIFICATION FairSpec
CHECK_DEADLOCK FALSE
INVARIANTS
  NullOnlyUnselected
PROPERTIES
  ClientEnds
  BoardIsReleased
