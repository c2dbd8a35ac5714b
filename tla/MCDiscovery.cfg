SPECIFICATION Spec
CONSTANTS
  Experiences = {e1, e2}
  Calls = {c1, c2}
  MaxExperiences = 2
  MaxComputeJobs = 2
  Seeds = {1, 2}
  MaxScore = 2
  MaxAttached = 1
  MaxScored = 1
  MaxCrashes = 1
INVARIANTS
  OverrunIsBounded
  JobsCountedOnce
  ElitesAscend
  FileIsCurrent
  RunningIsAwaited
SYMMETRY CampaignSymmetry
