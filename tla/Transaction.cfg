\* A transaction with two calls in it, both adapters, a pool of two, one fault.
CONSTANTS
  outer = outer
  inner = inner
  other = other
  NoCall = NoCall
  Calls = {outer, inner, other}
  Caller <- Family
  Listeners <- FamilyListeners
  Adapters = {"typeorm", "mongoose"}
  Options <- FamilyOptions
  PoolSize = 2
  Concurrent = FALSE
  MaxFaults = 1
SPECIFICATION FairSpec
INVARIANTS TypeOK EventsMatchOutcome DeliveredOnce Atomic ResultMatchesOutcome ConnectionsReturned
PROPERTIES CallsSettle
