\* Three calls, two connections, two keys, one fault.
CONSTANTS
  c1 = c1
  c2 = c2
  c3 = c3
  a = a
  b = b
  Calls = {c1, c2, c3}
  Resources = {a, b}
  Keys <- CrossedKeys
  Conns = {s1, s2}
  NoConn = NoConn
  MaxFaults = 1
SPECIFICATION FairSpec
INVARIANTS TypeOK PgExclusion LeaksOnlyOnError
PROPERTIES CallsReturn
