SPECIFICATION Spec
CONSTANTS
  m1 = m1
  m2 = m2
  m3 = m3
  m4 = m4
  Batches <- OneByOne
  RoleOf <- Roles
  HostOps = {"clear"}
  QueueModes = {}
  BatchModes = {"sequential", "parallel"}
  ThrowOn <- KeyFaults
  MaxRuns = 2
  MaxTurns = 1
  MaxCalls = 2
  MaxResets = 1
INVARIANTS
  PendingMatchesTasks
  IdleMeansEnded
PROPERTIES
  AbortSettles
CHECK_DEADLOCK FALSE
