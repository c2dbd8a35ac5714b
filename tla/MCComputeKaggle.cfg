SPECIFICATION Spec
CONSTANTS
  c1 = c1
  c2 = c2
  Callers = {c1, c2}
  Backends = {"local", "kaggle"}
  MaxConcurrency = 2
  MaxJobs = 1
  WritesFail = TRUE
  MaxIds = 2
  MaxRestarts = 1
INVARIANTS
  CountersMatch
  JobBudget
SYMMETRY CallerSymmetry
CHECK_DEADLOCK FALSE
