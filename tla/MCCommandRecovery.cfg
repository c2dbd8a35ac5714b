SPECIFICATION Spec
CONSTANTS
  NumCommands = 2
  MaxConns = 3
  MaxCrashes = 2
  CompactAfter = 3
  TornStops = {2}
INVARIANTS
  AtMostOnce
PROPERTIES
  ServiceSpec
  EveryRequestSettles
CHECK_DEADLOCK FALSE
