CONSTANTS
  Devices <- MCQcomlt
  Replies <- MCReplies
  Routes <- MCRoutes
  Greetings <- MCGreetings
  ReadSizes = {4}
  MaxHangs = 1
  MaxMsgs <- MCMaxMsgs
  MaxText <- MCMaxText
  MaxLines <- MCMaxLines
SPECIFICATION Spec
CHECK_DEADLOCK FALSE
INVARIANTS
  EveryMeasureReported
