SPECIFICATION Spec
CONSTANTS
  w1 = w1
  w2 = w2
  None = None
  Workers = {w1, w2}
  Plain = {"prompt"}
  Aborts = {"abort"}
  Target <- Targets
  MaxTries = 1
  MaxSweeps = 1
  MaxConns <- Conns
  MaxInputs <- Inputs
INVARIANTS
  FencesAreQuiet
  CommittedIsSaved
  ManifestIsFinal
  
PROPERTIES
  PreparationEnds
CHECK_DEADLOCK FALSE
