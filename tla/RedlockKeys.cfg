\* One node, two calls with overlapping sets of keys, retries, extensions,
\* a connection that fails or resends or a node that restarts, scripts not
\* cached.  What was started also settles.
CONSTANTS
  r1 = r1
  r2 = r2
  NoVal = NoVal
  Nodes = {n1}
  Calls = {c1, c2}
  Resources = {r1, r2}
  Keys <- Overlapping
  Duration = 2
  DriftPercent = 1
  Skew = 1
  MaxAttempts = 2
  InitialScripts = {}
  MaxTime = 2
  MaxRounds = 2
  MaxFaults = 1
  MaxRestarts = 1
SPECIFICATION FairSpec
INVARIANTS LeaseBacked
PROPERTIES KeysUntouched OperationsReturn
