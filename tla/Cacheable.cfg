SPECIFICATION Spec
CONSTANTS
  Calls = {c1, c2, c3}
  Nobody = Nobody
  NoOp = NoOp
  NoRecord = "norecord"
  NoNamespace = "nonamespace"
  Methods <- MCMethods
  Args <- MCArgs
  Ops <- MCOps
  Records <- MCRecords
  Kind <- MCKind
  Keyed = {"find", "save", "remove"}
  Builder <- MCBuilder
  Namespaced = {"history"}
  Namespace <- MCNamespace
  MethodName <- MCMethodName
  Json <- MCJson
  Ttl <- MCTtl
  Subject <- MCSubject
  Writes <- MCWrites
  Deletes <- MCDeletes
  MaxFaults = 1
INVARIANTS
  TypeOK
  PendingIsLive
  OwnValue
  ReadsSeeWrites
PROPERTIES
  StaleEntriesGo
  CallsSettle
CHECK_DEADLOCK FALSE
