SPECIFICATION BackendFairSpec
CONSTANTS
  MaxRestarts = 3
  Files = {"weights", "tokenizer"}
  Sentinel = "weights"
  MaxBuild = 2
  MaxLives = 3
INVARIANTS
  OneChild
  NoOrphan
  StopOpensGate
  SentinelVouches
  SidecarHasModel
PROPERTIES
  ReplacementReady
  GateOpens
CHECK_DEADLOCK FALSE
