\* One node, two calls of withLock() for one key; the extension timer fires
\* one tick before the handle expires.
CONSTANTS
  r1 = r1
  NoVal = NoVal
  Nodes = {n1}
  Calls = {c1, c2}
  Resources = {r1}
  Keys <- OneKey
  Duration = 4
  DriftPercent = 1
  Skew = 1
  Threshold = 1
  MaxAttempts = 2
  InitialScripts = {"acquire", "extend", "release"}
  MaxTime = 4
  MaxRounds = 3
  MaxFaults = 1
  MaxRestarts = 0
SYMMETRY Symmetry
SPECIFICATION WithLockSpec
INVARIANTS WithLockTypeOK LeaseBacked OverlapOnlyWhileExtending ReleasedForGood
PROPERTIES LeaseSpec
