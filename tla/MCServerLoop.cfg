CONSTANTS
  Devices <- MCDevices
  Replies <- MCReplies
  Routes <- MCRoutes
  Greetings <- MCGreetings
  ReadSizes = {4}
  MaxHangs = 1
  MaxMsgs <- MCMaxMsgs
  MaxText <- MCMaxText
  MaxLines <- MCMaxLines
SPECIFICATION FairSpec
CHECK_DEADLOCK FALSE
INVARIANTS
  NeverBlocks
  EndsForCause
  AnswerIsRead
  OnePoll
  ReportedIsMeasured
PROPERTIES
  Served
  EndIsNoticed
