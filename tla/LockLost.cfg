SPECIFICATION RoutingSpec
CONSTANTS
  MaxDepth = 6
  Singles = {"redlock", "mixed"}
  Pairs = {}
  Apps <- MCComposed
  Processes <- MCProcesses
CHECK_DEADLOCK FALSE
INVARIANT LockedWhenInvoked
