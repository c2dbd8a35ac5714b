SPECIFICATION Spec
CONSTANTS
  c1 = c1
  c2 = c2
  Callers = {c1, c2}
  Backends = {"local"}
  MaxConcurrency = 2
  MaxJobs = 2
  WritesFail = FALSE
  MaxIds = 2
  MaxRestarts = 1
INVARIANTS
  TypeOK
  TerminalMeansEnded
  NoGhosts
  DisposeKills
  FileIsCurrent
PROPERTIES
  EveryJobSettles
CHECK_DEADLOCK FALSE
