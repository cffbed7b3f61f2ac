SPECIFICATION RoutingSpec
CONSTANTS
  MaxDepth = 6
  Singles = {"cacheable", "redlock", "pglock", "redis", "typeorm", "mongoose", "feign", "redisToken", "noClients", "redlockLocal", "redlockGlobal", "redlockReadme", "extras", "aliasFirst", "aliasLast", "factory", "checkout", "twoAdapters", "mixed", "intercepted", "clients", "noAdapter"}
  Pairs = {"redis", "mongoose", "aliasLast", "redisToken", "mixed"}
  Apps <- MCComposed
  Processes <- MCProcesses
CHECK_DEADLOCK FALSE
INVARIANTS TypeOK DeclaredInEffect DecoratedOnce WritesJoin ExamplesWork
