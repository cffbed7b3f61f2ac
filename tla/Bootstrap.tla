----------------------------- MODULE Bootstrap ------------------------------
(***************************************************************************)
(* What happens when a process creates applications one after the other:   *)
(* NestJS composes each, the registry collects the explorers among its     *)
(* providers, and the engine, once per process, shows every provider and   *)
(* every method to every explorer.                                         *)
(***************************************************************************)
EXTENDS Decorators, Naturals

CONSTANTS Apps,       \* the applications NestJS makes of modules, by name
          Processes   \* the names a process creates, in order

ServicesIn(a, rule) == a.value[a.fields[a.fields[rule].featureDecoration].services].named

(* A metatype that no decorator of a class knows: that of an alias, or of  *)
(* a factory.                                                              *)
Bare(metatype) == DOMAIN Metadata(metatype.decorators) = {}

(* What NestJS makes of modules: a provider has the class of its object    *)
(* for a metatype, or one of its own; a class makes an object once.        *)
IsApplication(a) ==
  /\ a.refused \in BOOLEAN
  /\ a.providers \in Seq(Range(a.providers))
  /\ \A w \in Range(a.providers) :
       /\ w.object \in DOMAIN a.class /\ w.explored \in BOOLEAN
       /\ w.metatype = a.class[w.object] \/ Bare(w.metatype)
  /\ \A i, j \in DOMAIN a.providers :
       /\ a.providers[i].object = a.providers[j].object
       /\ ~Bare(a.providers[i].metatype) /\ ~Bare(a.providers[j].metatype)
       => i = j
  /\ \A o \in DOMAIN a.class :
       a.class[o].name \in {"DistributionLockMetadataExplorer", "TransactionalMetadataExplorer"}
         => ServicesIn(a, o) \in Seq(Range(ServicesIn(a, o)))

AppsAssumption ==
  /\ \A name \in DOMAIN Apps : IsApplication(Apps[name])
  /\ \A p \in Processes : p \in Seq(DOMAIN Apps) /\ p # <<>>
ASSUME AppsAssumption

VARIABLES process, app,  \* the names, and how many have been created
          phase,         \* of the last of them
          container,     \* what NestJS makes of its modules
          next,          \* the provider the engine explores next
          rules,         \* the explorers the registry has collected
          initialized,   \* FeatureExplorerEngine.initialized, a static field
          impl,          \* what a method of an object is now, its wrappers
          classLevel,    \* classLevelOptions of an explorer: the classes it has seen
          listeners,     \* a bag of the listeners registered by an explorer
          interceptors   \* a bag of the interceptors an explorer has bound

found == <<impl, classLevel, listeners, interceptors>>
vars == <<process, app, phase, container, next, rules, initialized, found>>

SlotsOf(o) == {o} \X DOMAIN container.class[o].methods
MethodAt(slot) == container.class[slot[1]].methods[slot[2]]

-----------------------------------------------------------------------------
(* The explorers *)
Is(rule, name) == container.class[rule].name = name
Registered(name) == {r \in Range(rules) : Is(r, name)}
ServicesOf(rule) == ServicesIn(container, rule)

(* FeignMetadataExplorer.onProvider: methods that still carry metadata. *)
RequestOptions(client, metadata) == client["FEIGN_CLIENT"] @@ metadata["FEIGN_METHOD"]
FetchOnProvider(w, slot, ref) ==
  LET client == Metadata(w.metatype.decorators)
      metadata == MetadataOf(MethodAt(slot).decorators, ref)
  IN IF Registered("FeignMetadataExplorer") # {} /\ Has(client, "FEIGN_CLIENT")
        /\ Has(metadata, "FEIGN_METHOD")
     THEN Wrapper("fetch", RequestOptions(client, metadata)) \o ref
     ELSE ref

(* TransactionalMetadataExplorer.onProvider, by metatype. *)
ClassOptions(w) == Pick(Metadata(w.metatype.decorators), [class |-> "TRANSACTIONAL"])
ClassSeen(w) ==
  {<<r, w.metatype>> : r \in
     {r \in Registered("TransactionalMetadataExplorer") : ClassOptions(w) # Nothing}}
OfClass(rule, w) ==
  IF <<rule, w.metatype>> \in classLevel \cup ClassSeen(w) THEN <<ClassOptions(w).class>> ELSE <<>>

(* FetchInterceptorExplorer.onProvider *)
InterceptorsOf(w) ==
  {<<r, w.object, kind>> : r \in Registered("FetchInterceptorExplorer"),
     kind \in {"REQUEST_INTERCEPTOR", "RESPONSE_INTERCEPTOR"} \cap DOMAIN Metadata(w.metatype.decorators)}

(* onMethod: each is given the function read before any of them ran. *)
OnMethod(rule, w, slot, ref, now) ==
  LET metadata == MetadataOf(MethodAt(slot).decorators, ref) IN
  CASE Is(rule, "CacheableMetadataExplorer") -> CacheableOnMethod(metadata, ref, now)
    [] Is(rule, "DistributionLockMetadataExplorer") ->
         LockOnMethod(ServicesOf(rule), metadata, ref, now)
    [] Is(rule, "TransactionalMetadataExplorer") ->
         TransactionalOnMethod(ServicesOf(rule), OfClass(rule, w), metadata, ref, now)
    [] OTHER -> now
Decorated(w, slot, ref) ==
  FoldLeft(LAMBDA now, rule : OnMethod(rule, w, slot, ref, now), ref, rules)
ListenersOf(w, refs) ==
  {<<r, slot>> : r \in Registered("TransactionalMetadataExplorer"),
     slot \in {s \in SlotsOf(w.object) : Has(MetadataOf(MethodAt(s).decorators, refs[s]), "LISTENER")}}

-----------------------------------------------------------------------------
Nobody == EmptyBag

Init ==
  /\ process \in Processes
  /\ app = 1 /\ phase = "creating" /\ container = Apps[process[1]] /\ next = 1 /\ rules = <<>> /\ initialized = FALSE
  /\ impl = Nothing /\ classLevel = {} /\ listeners = Nobody /\ interceptors = Nobody

(* NestJS rejects an application it cannot resolve. *)
Refuse ==
  /\ phase = "creating" /\ container.refused
  /\ phase' = "refused"
  /\ UNCHANGED <<process, app, container, next, rules, initialized, found>>

(* NestJS makes the instances, and calls onModuleInit() where there is one. *)
Compose ==
  /\ phase = "creating" /\ ~container.refused
  /\ phase' = IF \E class \in Range(container.class) : class.name = "FeatureExplorerEngine"
              THEN "registering" ELSE "ready"
  /\ impl' = [slot \in UNION {SlotsOf(o) : o \in DOMAIN container.class} |-> <<>>]
  /\ UNCHANGED <<process, app, container, next, rules, initialized, classLevel, listeners, interceptors>>

Collected(explorers, w) ==
  IF w.explored /\ Has(Metadata(w.metatype.decorators), "FEATURE_EXPLORER")
  THEN Append(explorers, w.object) ELSE explorers
RegistryInit ==
  /\ phase = "registering"
  /\ phase' = "registered"
  /\ rules' = FoldLeft(Collected, <<>>, container.providers)
  /\ UNCHANGED <<process, app, container, next, initialized, found>>

EngineInit ==
  /\ phase = "registered" /\ ~initialized
  /\ phase' = "exploring" /\ initialized' = TRUE
  /\ UNCHANGED <<process, app, container, next, rules, found>>

EngineSkips ==
  /\ phase = "registered" /\ initialized
  /\ phase' = "ready"
  /\ UNCHANGED <<process, app, container, next, rules, initialized, found>>

Advance ==
  /\ phase = "exploring" /\ next <= Len(container.providers)
  /\ next' = next + 1
  /\ UNCHANGED <<process, app, container, phase, rules, initialized>>

PassOver == Advance /\ ~container.providers[next].explored /\ UNCHANGED found

(* onProvider of every rule, then onMethod of every rule for every method. *)
Explore ==
  LET w == container.providers[next]
      own == SlotsOf(w.object)
      refs == [s \in own |-> FetchOnProvider(w, s, impl[s])]
  IN /\ Advance /\ w.explored
     /\ impl' = [s \in DOMAIN impl |-> IF s \in own THEN Decorated(w, s, refs[s]) ELSE impl[s]]
     /\ classLevel' = classLevel \cup ClassSeen(w)
     /\ listeners' = listeners (+) SetToBag(ListenersOf(w, refs))
     /\ interceptors' = interceptors (+) SetToBag(InterceptorsOf(w))

Finish ==
  /\ phase = "exploring" /\ next > Len(container.providers)
  /\ phase' = "ready"
  /\ UNCHANGED <<process, app, container, next, rules, initialized, found>>

(* The next application of the process; the static field stays. *)
FaultyNextApp ==
  /\ phase \in {"ready", "refused"} /\ app < Len(process)
  /\ app' = app + 1 /\ phase' = "creating" /\ container' = Apps[process[app']] /\ rules' = <<>>
  /\ impl' = Nothing /\ classLevel' = {} /\ listeners' = Nobody /\ interceptors' = Nobody
  /\ UNCHANGED <<process, initialized, next>>
NextApp ==
  /\ phase \in {"ready", "refused"} /\ app < Len(process)
  /\ app' = app + 1 /\ phase' = "creating" /\ container' = Apps[process[app']]
  /\ next' = 1 /\ rules' = <<>>
  /\ impl' = Nothing /\ classLevel' = {} /\ listeners' = Nobody /\ interceptors' = Nobody
  /\ UNCHANGED <<process, initialized>>

Next == Refuse \/ Compose \/ RegistryInit \/ EngineInit \/ EngineSkips \/ PassOver \/ Explore
          \/ Finish \/ NextApp
Spec == Init /\ [][Next]_vars

-----------------------------------------------------------------------------
Explored == phase = "ready" /\ next > Len(container.providers)
EntriesOf(o) == {i \in DOMAIN container.providers :
                   container.providers[i].explored /\ container.providers[i].object = o}
ByClass(o) == {i \in EntriesOf(o) : container.providers[i].metatype = container.class[o]}
Declares(slot, key) == Has(Metadata(MethodAt(slot).decorators), key)
ClassDeclares(slot, key) == Has(Metadata(container.class[slot[1]].decorators), key)
Order(wrappers) == [i \in DOMAIN wrappers |-> wrappers[i].by]

(* An alias makes the engine meet an object before the class of the object. *)
AliasFirst(o) == \E i \in EntriesOf(o), j \in ByClass(o) : i < j /\ i \notin ByClass(o)

DeclaredTransactional(slot) ==
  /\ \/ Declares(slot, "TRANSACTIONAL")
     \/ ClassDeclares(slot, "TRANSACTIONAL") /\ ByClass(slot[1]) # {}
  /\ ~Declares(slot, "NO_TRANSACTIONAL")

Adapted == \E r \in Registered("TransactionalMetadataExplorer") : ServicesOf(r) # <<>>

(* What the decorators of a method ask for, one sequence for each feature. *)
Caching(slot) ==
  LET key == [cacheable |-> "CACHEABLE", put |-> "CACHE_PUT", evict |-> "CACHE_EVICT"]
  IN {<<by>> : by \in {b \in DOMAIN key : Declares(slot, key[b])}}
Guarding(slot) == {s \in {<<"lock">>} : Declares(slot, "LOCK")}
Fetching(slot) ==
  {s \in {<<"fetch">>} : /\ Declares(slot, "FEIGN_METHOD")
                        /\ ClassDeclares(slot, "FEIGN_CLIENT") /\ ByClass(slot[1]) # {}}
Publishing(slot) == Declares(slot, "EVENT") /\ ~Declares(slot, "NO_TRANSACTIONAL")
InTransactions(slot) ==
  IF DeclaredTransactional(slot)
  THEN {s \in {IF Publishing(slot) THEN <<"transaction", "event">> ELSE <<"transaction">>} : Adapted}
  ELSE {s \in {<<"event">>} : Publishing(slot)}
Wanted(slot) ==
  LET of(name, wanted) == IF Registered(name) = {} THEN {} ELSE wanted
      locked == \E r \in Registered("DistributionLockMetadataExplorer") : ServicesOf(r) # <<>>
  IN of("CacheableMetadataExplorer", Caching(slot))
       \cup {s \in Guarding(slot) : locked}
       \cup of("TransactionalMetadataExplorer", InTransactions(slot))
       \cup of("FeignMetadataExplorer", Fetching(slot))

(* Options of a class meet an object in the wrong order, or a method whose *)
(* metadata a wrapper hides: the object has an alias that comes first, the *)
(* method is a request that asks for no transaction, or there is no        *)
(* adapter and an alias adds what was left out.                            *)
Excepted(slot) ==
  /\ ClassDeclares(slot, "TRANSACTIONAL")
  /\ \/ AliasFirst(slot[1])
     \/ Declares(slot, "NO_TRANSACTIONAL") /\ Fetching(slot) # {}
     \/ ~Adapted /\ EntriesOf(slot[1]) # ByClass(slot[1])

(* The state has its type, and an application starts with nothing left of  *)
(* the one before but the engine's static field.                           *)
TypeOK ==
  /\ app \in DOMAIN process /\ initialized \in BOOLEAN
  /\ phase \in {"creating", "refused", "registering", "registered", "exploring", "ready"}
  /\ next \in 1 .. Len(container.providers) + 1
  /\ phase \in {"creating", "registering", "registered"} => next = 1 /\ listeners = Nobody
  /\ Range(rules) \subseteq DOMAIN container.class
  /\ \A slot \in DOMAIN impl : Range(Order(impl[slot])) \subseteq
       {"cacheable", "put", "evict", "lock", "transaction", "event", "fetch"}

(* When the engine is done, a method of an explored object whose           *)
(* decorators ask for one feature has that feature, and only it; a method  *)
(* that asks for none is as written: FeatureExplorerEngine and explorers.  *)
DeclaredInEffect ==
  Explored => \A slot \in DOMAIN impl :
    IF EntriesOf(slot[1]) = {} THEN impl[slot] = <<>>
    ELSE \/ IF Wanted(slot) = {} THEN impl[slot] = <<>> ELSE Wanted(slot) = {Order(impl[slot])}
         \/ Cardinality(Wanted(slot)) > 1
         \/ Excepted(slot)

(* No feature wraps a method twice, a listener is registered once for each *)
(* way its object is provided, and an interceptor once, however many       *)
(* tokens stand for the object.  Except: options of a class go around the  *)
(* wrappers an alias has led to before, and a request has no metadata left *)
(* that would make it a listener.                                          *)
DecoratedOnce ==
  Explored =>
    /\ \A slot \in DOMAIN impl : \A i, j \in DOMAIN impl[slot] :
         impl[slot][i].by = impl[slot][j].by
           => i = j \/ (AliasFirst(slot[1]) /\ ClassDeclares(slot, "TRANSACTIONAL"))
    /\ \A r \in Registered("TransactionalMetadataExplorer"), slot \in DOMAIN impl :
         LET times == IF BagIn(<<r, slot>>, listeners) THEN listeners[<<r, slot>>] ELSE 0
         IN /\ times <= Cardinality(EntriesOf(slot[1]))
            /\ times > 0 => Declares(slot, "LISTENER")
            /\ Declares(slot, "LISTENER") /\ EntriesOf(slot[1]) # {} /\ <<"fetch">> \notin Wanted(slot)
                 => times > 0
    /\ \A i \in BagToSet(interceptors) : interceptors[i] = 1
=============================================================================
