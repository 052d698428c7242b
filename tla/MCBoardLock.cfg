CONSTANTS
  Servers = {s1, s2}
  None = None
  MsgLen = 2
  MaxBytes = 2
  MaxSessions = 2
SPECIFICATION FairSpec
CHECK_DEADLOCK FALSE
INVARIANTS
  OffWhenFree
PROPERTIES
  SessionsAreSerial
  LockIsFreed
  WaitsForSomebody
  GoneClientIsNoticed
