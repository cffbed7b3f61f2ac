------------------------------- MODULE MCEvict -------------------------------
(* The cache under the ProductService of example/cacheable, with the       *)
(* options its decorators come out with.  "()" stands for no argument.     *)
EXTENDS Cacheable

Decorated == INSTANCE Examples

MCIds == {"p1"}
MCArgs == MCIds \cup {"()"}
Service == Decorated!ProductService(MCArgs).methods
MetadataOf(m) == Decorated!Metadata(Service[m].decorators)

(* What CacheableMetadataExplorer makes of a method that is as written.    *)
Wrapped(m) == Decorated!CacheableOnMethod(MetadataOf(m), <<>>, <<>>)[1]
Having(option) == {m \in DOMAIN Service : option \in DOMAIN Wrapped(m).options}

MCMethods == DOMAIN Service
MCKeyed == Having("key")
MCNamespaced == Having("namespace")
MCBuilder == [m \in MCKeyed |-> Wrapped(m).options.key]
MCNamespace == [m \in MCNamespaced |-> Wrapped(m).options.namespace]
MCTtl == [m \in MCMethods |-> IF m \in Having("ttl") THEN Wrapped(m).options.ttl ELSE 0]
MCKind == [m \in MCMethods |-> Wrapped(m).by]
MCMethodName == [m \in MCMethods |-> m]
MCJson == [a \in MCArgs |-> a]

MCRecords == MCArgs
MCOps == {"getProduct", "updateProduct", "deleteProduct"} \X MCIds
           \cup {"getAllProducts", "clearAllProductsCache"} \X {"()"}
MCSubject == [o \in MCOps |-> o[2]]
MCWrites == [o \in MCOps |-> IF o[1] \in {"updateProduct", "deleteProduct"} THEN {o[2], "()"} ELSE {}]
MCDeletes == {"deleteProduct"} \X MCIds

(* The keys an eviction is declared with. *)
DeclaredKeys(o) ==
  LET metadata == MetadataOf(o[1])
      keys == metadata["CACHE_EVICT"][o[2]]
      namespace == IF "CACHE_NAMESPACE" \in DOMAIN metadata THEN metadata["CACHE_NAMESPACE"][o[2]] ELSE NoNamespace
  IN {<<namespace, keys[i]>> : i \in DOMAIN keys}

(* "The specified cache keys are deleted. Cache eviction happens before    *)
(* the method executes to ensure stale data is removed."                   *)
(* (cache-evict.decorator.ts:9-10): when the requests of an eviction have  *)
(* succeeded and nothing else runs, its keys are gone as its method starts.*)
EvictedBeforeMethod ==
  [][\A c \in Calls :
       /\ stage[c] = "evicting" /\ stage'[c] = "method" /\ faults' = 0
       /\ \A d \in Calls \ {c} : ~Active(d)
       => \A k \in DeclaredKeys(op[c]) : ~cache'[k].there]_vars
=============================================================================
