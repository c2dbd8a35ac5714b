SPECIFICATION Spec
CONSTANTS
  NumCommands = 1
  MaxConns = 3
  MaxCrashes = 2
  CompactAfter = 3
  TornStops = {1}
INVARIANTS
  AtMostOnce
CHECK_DEADLOCK FALSE
