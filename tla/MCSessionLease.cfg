SPECIFICATION Spec
CONSTANTS
  p1 = p1
  p2 = p2
  p3 = p3
  a = a
  b = b
  None = None
  Procs = {p1, p2, p3}
  Sessions = {a, b}
  Pid <- ReusedPid
  Identified = {p1, p3}
  Ops = {1}
  MaxLeases = 3
INVARIANTS
  HolderKeepsDirectory
  OneWriter
  AcquisitionDecides
SYMMETRY SessionSymmetry
CHECK_DEADLOCK FALSE
