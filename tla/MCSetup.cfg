SPECIFICATION Spec
CONSTANTS
  Tools = {"claude_code", "codex"}
  MaxParams = 2
  MaxCommands = 3
  MaxEdits = 1
  MaxBreaks = 1
  MaxLines = 4
  MaxEntries = 2
INVARIANTS
  RecordedToolHasHook
  CodexFileRefines
  ClaudeFileRefines
PROPERTIES
  SetupEndsConsistent
  UninstallCleansRecorded
  OwnContentKept
CHECK_DEADLOCK FALSE
