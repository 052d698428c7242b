CONSTANTS
  Devices <- MCDevices
  ConnectDelay = 1
  PressDelay = 2
  PulseDelay = 1
  FbDelay = 3
  MaxOps = 4
SPECIFICATION FairSpec
CHECK_DEADLOCK FALSE
INVARIANTS
  PowerFollowsCommand
  KeysMatchState
PROPERTIES
  HoldsFastbootKeyAlone
  ReachesRunning
