CONSTANTS
  Boards <- MCBoards
  MaxRuns = 2
  MaxOps = 3
  MaxLost = 1
SPECIFICATION FairSpec
CHECK_DEADLOCK FALSE
INVARIANTS
  LeavesAsPromised
  OpenStartsClean
PROPERTIES
  LinesAsTold
  WriteRepairs
  OpeningNeverPowers
  ToolEnds
