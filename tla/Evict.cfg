SPECIFICATION Spec
CONSTANTS
  Calls = {c1, c2}
  Nobody = Nobody
  NoOp = NoOp
  NoRecord = "norecord"
  NoNamespace = "nonamespace"
  Methods <- MCMethods
  Args <- MCArgs
  Ops <- MCOps
  Records <- MCRecords
  Kind <- MCKind
  Keyed <- MCKeyed
  Builder <- MCBuilder
  Namespaced <- MCNamespaced
  Namespace <- MCNamespace
  MethodName <- MCMethodName
  Json <- MCJson
  Ttl <- MCTtl
  Subject <- MCSubject
  Writes <- MCWrites
  Deletes <- MCDeletes
  MaxFaults = 1
PROPERTY EvictedBeforeMethod
CHECK_DEADLOCK FALSE
