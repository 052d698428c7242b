CONSTANTS
  Files <- MCFiles
  LineEntries <- MCLineEntries
  LegacyTexts <- MCLegacyTexts
  Callers = {"u1", "u2"}
  Names = {"b1", "b2"}
  MaxLines = 2
SPECIFICATION Spec
CHECK_DEADLOCK FALSE
INVARIANTS
  MeansItsText
  ListedIsUsable
  OnlyAllowed
