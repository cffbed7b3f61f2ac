----------------------------- MODULE Decorators -----------------------------
(***************************************************************************)
(* The decorators of the packages as the metadata they attach to a class   *)
(* or a method, the accessors that read it back, and what each explorer    *)
(* does with a method: it replaces the method of the instance by a wrapper *)
(* around the function it was given.  A method is the sequence of its      *)
(* wrappers, the outermost first; <<>> is the method as written, the only  *)
(* function that carries the metadata.                                     *)
(***************************************************************************)
EXTENDS SequencesExt

Nothing == <<>>

(* A class: what it injects into its fields, and its methods.  The body of *)
(* a method is what it calls on its fields and on this.                    *)
Class(name, decorators, injects, methods) ==
  [name |-> name, decorators |-> decorators, injects |-> injects, methods |-> methods]
Method(decorators, body) == [decorators |-> decorators, body |-> body]
On(field, operation) == [field |-> field, operation |-> operation]

SetMetadata(key, value) == key :> value
Given(options, field, key) ==
  IF field \in DOMAIN options THEN SetMetadata(key, options[field]) ELSE Nothing

(* Decorators are applied from the last to the first: the first one wins. *)
Metadata(decorators) ==
  FoldRight(LAMBDA decorator, applied : decorator @@ applied, decorators, Nothing)

CacheOptions(options) ==
  Given(options, "key", "CACHE_KEY") @@ Given(options, "namespace", "CACHE_NAMESPACE")
    @@ Given(options, "ttl", "CACHE_TTL")
Cacheable(options) == SetMetadata("CACHEABLE", TRUE) @@ CacheOptions(options)
CachePut(options) == SetMetadata("CACHE_PUT", TRUE) @@ CacheOptions(options)
(* The metadata of an eviction is its key alone. *)
CacheEvict(options) ==
  Given(options, "key", "CACHE_EVICT") @@ Given(options, "namespace", "CACHE_NAMESPACE")
CacheKey(key) == SetMetadata("CACHE_KEY", key)

DistributionLock(options) == SetMetadata("LOCK", options)

Transactional(options) == SetMetadata("TRANSACTIONAL", options)
NoTransactional == SetMetadata("NO_TRANSACTIONAL", TRUE)
TransactionalEvent(event) == SetMetadata("EVENT", event)
TransactionalEventListener(event, phase) ==
  SetMetadata("LISTENER", [event |-> event, phase |-> phase])

FeignClient(options) == SetMetadata("FEIGN_CLIENT", options)
HttpMethod(method, path) == SetMetadata("FEIGN_METHOD", [method |-> method, path |-> path])
(* The segments of a path. *)
Lit(name) == <<"literal", name>>
Param(name) == <<"param", name>>
(* Parameter decorators run from the last parameter to the first, and each *)
(* appends its index.                                                      *)
ParamIndexes(params, kind) ==
  Reverse(SelectSeq([i \in DOMAIN params |-> i], LAMBDA i : params[i] = kind))

RequestInterceptor == SetMetadata("REQUEST_INTERCEPTOR", TRUE)
ResponseInterceptor == SetMetadata("RESPONSE_INTERCEPTOR", TRUE)
FeatureExplorer == SetMetadata("FEATURE_EXPLORER", TRUE)

-----------------------------------------------------------------------------
Has(metadata, key) == key \in DOMAIN metadata
Pick(metadata, keys) ==
  [field \in {f \in DOMAIN keys : Has(metadata, keys[f])} |-> metadata[keys[field]]]

(* MetadataAccessor: the wrappers have no metadata. *)
FaultyMetadataOf(decorators, ref) == Metadata(decorators)
MetadataOf(decorators, ref) == IF ref = <<>> THEN Metadata(decorators) ELSE Nothing

GetAllCacheableMetadata(metadata) ==
  Pick(metadata, [namespace |-> "CACHE_NAMESPACE", key |-> "CACHE_KEY", ttl |-> "CACHE_TTL"])
GetAllCachePutMetadata(metadata) == GetAllCacheableMetadata(metadata)
(* options.key and options.namespace of a key are undefined, so an         *)
(* eviction takes what other decorators have left.                         *)
GetAllCacheEvictMetadata(metadata) ==
  Pick(metadata, [namespace |-> "CACHE_NAMESPACE", key |-> "CACHE_KEY"])

Wrapper(by, options) == <<[by |-> by, options |-> options]>>

(* Three ifs, each of which overwrites the wrapper of the one before. *)
CacheableOnMethod(metadata, ref, impl) ==
  IF Has(metadata, "CACHE_EVICT") THEN Wrapper("evict", GetAllCacheEvictMetadata(metadata)) \o ref
  ELSE IF Has(metadata, "CACHE_PUT") THEN Wrapper("put", GetAllCachePutMetadata(metadata)) \o ref
  ELSE IF Has(metadata, "CACHEABLE") THEN Wrapper("cacheable", GetAllCacheableMetadata(metadata)) \o ref
  ELSE impl

(* The service or adapter of this name, or the first one that is there;    *)
(* services are pairs of a name and what it stands for.                    *)
Named(services, options, field) ==
  LET name == IF field \in DOMAIN options THEN options[field] ELSE "default"
      same == {i \in DOMAIN services : services[i][1] = name}
  IN services[IF same = {} THEN 1 ELSE CHOOSE i \in same : \A j \in same : i <= j][2]

With(service, options) ==
  [field \in DOMAIN options \cup {"service"} |->
     IF field = "service" THEN service ELSE options[field]]

LockOnMethod(services, metadata, ref, impl) ==
  IF ~Has(metadata, "LOCK") \/ services = <<>> THEN impl
  ELSE Wrapper("lock", With(Named(services, metadata["LOCK"], "provider"), metadata["LOCK"])) \o ref

(* Options of the method over those of its class; sequences of at most one. *)
ResolvedOptions(ofClass, metadata) ==
  IF ~Has(metadata, "TRANSACTIONAL") THEN ofClass
  ELSE <<metadata["TRANSACTIONAL"] @@ (IF ofClass = <<>> THEN Nothing ELSE ofClass[1])>>

InTransaction(adapters, options, ref) ==
  Wrapper("transaction", With(Named(adapters, options, "adapter"), options)) \o ref
PublishesEvent(metadata, bound, ref) ==
  Wrapper("event", [event |-> metadata["EVENT"], bound |-> bound]) \o ref

(* Excluded methods are left alone.  An event is published by a wrapper    *)
(* inside the transaction, or by one bound to the instance; without an     *)
(* adapter a transactional method has neither.                             *)
FaultyTransactionalOnMethod(adapters, ofClass, metadata, ref, impl) ==
  LET resolved == ResolvedOptions(ofClass, metadata) IN
  IF Has(metadata, "NO_TRANSACTIONAL") \/ resolved = <<>> \/ adapters = <<>> THEN impl
  ELSE IF Has(metadata, "EVENT")
    THEN PublishesEvent(metadata, TRUE, InTransaction(adapters, resolved[1], ref))
    ELSE InTransaction(adapters, resolved[1], ref)
TransactionalOnMethod(adapters, ofClass, metadata, ref, impl) ==
  LET resolved == ResolvedOptions(ofClass, metadata)
      event == Has(metadata, "EVENT")
      inner == IF event THEN PublishesEvent(metadata, resolved = <<>>, ref) ELSE ref
  IN IF Has(metadata, "NO_TRANSACTIONAL") \/ (resolved = <<>> /\ ~event) THEN impl
     ELSE IF resolved = <<>> THEN inner
     ELSE IF adapters = <<>> THEN impl
     ELSE InTransaction(adapters, resolved[1], inner)
=============================================================================
