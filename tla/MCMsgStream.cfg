CONSTANTS
  Size = 8
  HdrLen = 3
  Lens <- MCLens
  PipeCap = 9
  MaxMsgs = 4
  MaxTorn = 12
SPECIFICATION FairSpec
CHECK_DEADLOCK FALSE
INVARIANTS
  InOrder
  NothingHeldAsleep
PROPERTIES
  ChannelSpec
  EveryMsgArrives
