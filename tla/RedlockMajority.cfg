\* Three nodes, two calls for one key, one attempt each.
CONSTANTS
  r1 = r1
  r2 = r2
  NoVal = NoVal
  Nodes = {n1, n2, n3}
  Calls = {c1, c2}
  Resources = {r1}
  Keys <- OneKey
  Duration = 2
  DriftPercent = 1
  Skew = 1
  MaxAttempts = 1
  InitialScripts = {"acquire", "extend", "release"}
  MaxTime = 2
  MaxRounds = 1
  MaxFaults = 0
  MaxRestarts = 0
SYMMETRY Symmetry
SPECIFICATION Spec
INVARIANTS TypeOK Exclusion LeaseBacked AttemptCanEnd CleanedUp
