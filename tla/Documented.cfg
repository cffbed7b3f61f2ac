\* What the READMEs show, and an example application twice in one process.
SPECIFICATION RoutingSpec
CONSTANTS
  MaxDepth = 6
  Singles = {}
  Pairs = {}
  Apps <- MCComposed
  Processes <- DocumentedProcesses
CHECK_DEADLOCK FALSE
INVARIANT DocumentedUseWorks
