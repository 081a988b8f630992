SPECIFICATION FairSpec
CONSTANTS
  MaxCalls = 4
  QueueMax = 2
  Low = 0
  High = 2
  MaxLoad = 2
  MaxInterval = 2
INVARIANTS
  Backpressure
  StopLeavesOneAtMost
PROPERTIES
  SerialSpec
  Paced
  CallsEnd
CHECK_DEADLOCK FALSE
