SPECIFICATION FairSpec
CONSTANTS
  Terminals = {t1, t2}
  Lifetimes = {2}
  MaxInterval = 2
  MaxAge = 3
  MaxCommands = 3
  MaxKills = 1
INVARIANTS
  SavedWhole
PROPERTIES
  TimeoutIsFair
  LoginEnds
CHECK_DEADLOCK FALSE
