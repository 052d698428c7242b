CONSTANTS
  Scripts <- MCScripts
  Chunks = 2
  MaxBoots = 2
  MaxInfos = 2
  MaxLate = 2
SPECIFICATION FairSpec
CHECK_DEADLOCK FALSE
INVARIANTS
  InStep
PROPERTIES
  BootsWhole
  BootEnds
