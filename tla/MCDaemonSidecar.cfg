SPECIFICATION FairSpec
CONSTANTS
  MaxActive = 2
  Jobs <- MCJobs
  Keys = {"A", "B"}
  Key <- MCKey
  NoJob = NoJob
  Requested = 1
  MaxAccepted = 2
  MaxDropped = 1
  MaxRestarts = 1
INVARIANTS
  SidecarDiesWithDaemon
CHECK_DEADLOCK FALSE
