SPECIFICATION ReadSpec
CONSTANTS
  Prompts = {"p1", "p2"}
  Other = "other"
  NewLine = "nl"
  NoPrompt = "none"
  Attempts = 2
  MaxCells = 7
  MaxReads = 4
  MaxRewrites = 1
INVARIANTS
  CursorAtLineEnd
  LinesInOrder
PROPERTIES
  FirstMissIsPassed
CHECK_DEADLOCK FALSE
