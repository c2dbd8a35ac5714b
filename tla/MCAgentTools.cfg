SPECIFICATION Spec
CONSTANTS
  m1 = m1
  m2 = m2
  m3 = m3
  m4 = m4
  Batches <- OneByOne
  RoleOf <- Roles
  HostOps = {"steer"}
  QueueModes = {}
  BatchModes = {"sequential", "parallel"}
  ThrowOn <- Faults
  MaxRuns = 2
  MaxTurns = 2
  MaxCalls = 2
  MaxResets = 0
INVARIANTS
  TypeOK
  RequestSeesTranscript
  CallsAnswered
  AgentEndReportsRun
  AgentEndIsFinal
PROPERTIES
  ToolStartIsJustified
CHECK_DEADLOCK FALSE
