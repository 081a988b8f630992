SPECIFICATION Spec
CONSTANTS
  Hooks = {h1, h2}
  Contexts = {A, B}
  None = None
  MaxRuns = 4
  MaxKills = 1
  MaxChanges = 3
  Ports = {p, q}
  MaxDaemons = 2
SYMMETRY Interchangeable
INVARIANTS
  SigIsReported
  ReportedOnce
  SteadyIsHeard
CHECK_DEADLOCK FALSE
