SPECIFICATION Spec
CONSTANTS
  p1 = p1
  p2 = p2
  p3 = p3
  a1 = a1
  a2 = a2
  None = None
  Supervisors = {p1, p2, p3}
  Coordinators = {a1, a2}
  Sockets = {"daemon.sock", "other.sock"}
  Socket <- SharedSocket
  Descriptors <- SharedDescriptors
  MaxExpiries = 2
INVARIANTS
  OneOwner
  OwnerKeepsRecord
  NoStartUnderAdmission
  RestartReplaces
SYMMETRY HandoverSymmetry
CHECK_DEADLOCK FALSE
VIEW HandoverView
