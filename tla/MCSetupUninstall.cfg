SPECIFICATION Spec
CONSTANTS
  Tools = {"codex", "gemini"}
  MaxParams = 1
  MaxCommands = 3
  MaxEdits = 0
  MaxBreaks = 0
  MaxLines = 2
  MaxEntries = 1
PROPERTIES
  UninstallRemovesAll
CHECK_DEADLOCK FALSE
