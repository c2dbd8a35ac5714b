SPECIFICATION Spec
CONSTANTS
  m1 = m1
  m2 = m2
  m3 = m3
  m4 = m4
  Batches <- WithPair
  RoleOf <- Roles
  HostOps = {"continue", "steer", "followUp", "remove"}
  QueueModes = {"all"}
  BatchModes = {}
  ThrowOn = {}
  MaxRuns = 2
  MaxTurns = 2
  MaxCalls = 0
  MaxResets = 0
INVARIANTS
  BatchesStayTogether
  QueuesAreFIFO
  NothingLostWithoutFailure
SYMMETRY SingleBatches
