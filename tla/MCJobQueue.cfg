SPECIFICATION FairSpec
CONSTANTS
  Jobs <- MCJobs
  Keys <- MCKeys
  Key <- MCKey
  NoJob = NoJob
  Requested = 2
  MaxAccepted = 5
  MaxDropped = 2
INVARIANTS
  InflightExact
  FifoOnce
PROPERTIES
  DropMeansDistinctBacklog
  CloseEndsConsumer
  AbstractSpec
