------------------------------- MODULE Wiring -------------------------------
(***************************************************************************)
(* The NestJS modules of the packages, what NestJS makes of a module and   *)
(* all it imports, and the modules of the example applications.  Tokens    *)
(* and classes go by their names.  External: the dependency injection of   *)
(* NestJS, and the modules of NestJS that bring a cache, a configuration   *)
(* or a database.                                                          *)
(***************************************************************************)
EXTENDS Decorators, Naturals, Examples, FeignExample

(* What a provider stands for: an instance, a resource, or named services. *)
Value(is) == [is |-> is, named |-> <<>>]
Services(named) == [is |-> "services", named |-> named]
NoClass == Class("", <<>>, Nothing, Nothing)

Provider(token, as, class, needs, value) ==
  [token |-> token, as |-> as, class |-> class, needs |-> needs, value |-> value]
Use(class) == Provider(class.name, "class", class, Range(class.injects), Value("instance"))
UseClass(token, class) == [Use(class) EXCEPT !.token = token]
UseValue(token, value) == Provider(token, "value", NoClass, {}, value)
UseFactory(token, needs, value) == Provider(token, "factory", NoClass, needs, value)
UseExisting(token, target) == Provider(token, "existing", NoClass, {target}, Value(target))

Module(name, global, imports, providers, exports) ==
  [name |-> name, global |-> global, imports |-> imports, providers |-> providers,
   exports |-> exports]

OptionOr(config, option, otherwise) ==
  IF option \in DOMAIN config THEN config[option] ELSE otherwise

(* ConfigurableModule.config(), deepMerge(): the lists of the config come  *)
(* first, and global may be set by either.                                 *)
FaultyConfig(config, module) ==
  [module EXCEPT
     !.global = OptionOr(config, "global", FALSE),
     !.imports = OptionOr(config, "extraModules", <<>>) \o @,
     !.providers = OptionOr(config, "extraProviders", <<>>) \o @,
     !.exports = OptionOr(config, "extraExports", {}) \cup @]
Config(config, module) ==
  [module EXCEPT
     !.global = @ \/ OptionOr(config, "global", FALSE),
     !.imports = OptionOr(config, "extraModules", <<>>) \o @,
     !.providers = OptionOr(config, "extraProviders", <<>>) \o @,
     !.exports = OptionOr(config, "extraExports", {}) \cup @]

(* register() takes what the factory of registerAsync() returns, and       *)
(* injects nothing.                                                        *)
Inject(config) == OptionOr(config, "inject", {})

-----------------------------------------------------------------------------
(* NestJS *)
Core == Module("InternalCoreModule", TRUE, <<>>, <<UseValue("Reflector", Value("instance"))>>, {"Reflector"})
DiscoveryModule ==
  Module("DiscoveryModule", FALSE, <<>>,
         <<UseValue("DiscoveryService", Value("instance")), UseValue("MetadataScanner", Value("instance"))>>,
         {"DiscoveryService", "MetadataScanner"})
ConfigModule ==
  Module("ConfigModule", TRUE, <<>>, <<UseValue("ConfigService", Value("instance"))>>, {"ConfigService"})
CacheModule(needs) ==
  Module("CacheModule", FALSE, <<>>, <<UseFactory("CACHE_MANAGER", needs, Value("cache"))>>, {"CACHE_MANAGER"})
ForRoot(name, token, needs, is) ==
  Module(name, TRUE, <<>>, <<UseFactory(token, needs, Value(is))>>, {token})
ForFeature(name, token, needs, is) ==
  Module(name, FALSE, <<>>, <<UseFactory(token, needs, Value(is))>>, {token})

(* A module is scanned before what it imports, and once.                   *)
RECURSIVE Scan(_, _)
Scan(module, before) ==
  IF Contains(before, module) THEN before
  ELSE FoldLeft(LAMBDA seen, m : Scan(m, seen), Append(before, module), module.imports)

Tokens(module) == {p.token : p \in Range(module.providers)}
(* A token provided twice keeps its place and takes the later provider.    *)
Provided(module, token) ==
  LET at == {i \in DOMAIN module.providers : module.providers[i].token = token}
  IN module.providers[CHOOSE i \in at : \A j \in at : j <= i]
ProvidersOf(module) ==
  LET firsts == SelectSeq([i \in DOMAIN module.providers |-> i],
                          LAMBDA i : \A j \in 1 .. i - 1 :
                            module.providers[j].token # module.providers[i].token)
  IN [i \in DOMAIN firsts |-> Provided(module, module.providers[firsts[i]].token)]

(* The module that supplies an exported token, its own or one of a module  *)
(* it re-exports; sequences of at most one.                                *)
RECURSIVE Exporter(_, _)
Exporter(module, token) ==
  IF token \in module.exports \cap Tokens(module) THEN <<module>>
  ELSE FoldLeft(LAMBDA found, m : IF found = <<>> /\ m.name \in module.exports
                                  THEN Exporter(m, token) ELSE found,
                <<>>, module.imports)

(* Seen from a module: its own providers, then its imports, then globals.  *)
Supplier(modules, module, token) ==
  IF token \in Tokens(module) THEN <<module>>
  ELSE FoldLeft(LAMBDA found, m : IF found = <<>> THEN Exporter(m, token) ELSE found,
                <<>>, module.imports \o SelectSeq(modules, LAMBDA m : m.global))

(* The object behind a token: its module's place and the token of who made *)
(* it; aliases have none of their own.                                     *)
RECURSIVE ObjectOf(_, _, _)
ObjectOf(modules, module, token) ==
  LET supplier == Supplier(modules, module, token)[1]
      provider == Provided(supplier, token)
  IN IF provider.as = "existing" THEN ObjectOf(modules, supplier, provider.value.is)
     ELSE <<CHOOSE i \in DOMAIN modules : modules[i] = supplier, token>>

UnknownExport(module) ==
  \E e \in module.exports : e \notin Tokens(module) \cup {m.name : m \in Range(module.imports)}
Unresolved(modules, module) ==
  \E p \in Range(ProvidersOf(module)) :
    p.value.is = "error" \/ \E t \in p.needs : Supplier(modules, module, t) = <<>>

(* InstanceWrapper: the object, whether it has an instance and a metatype, *)
(* and the class that is its metatype.                                     *)
Wrap(modules, module, provider) ==
  [object |-> ObjectOf(modules, module, provider.token),
   explored |-> provider.as # "value" /\ provider.value.is # "undefined",
   metatype |-> IF provider.as = "class" THEN provider.class ELSE NoClass]

(* Every provider of the application, in the order of discovery, and the   *)
(* class, the value and the fields of every object.                        *)
Application(root) ==
  LET modules == Scan(root, <<Core>>)
      objects == {o \in UNION {{i} \X Tokens(modules[i]) : i \in DOMAIN modules} :
                    Provided(modules[o[1]], o[2]).as # "existing"}
      class == [o \in objects |-> Provided(modules[o[1]], o[2]).class]
      wrappers(i) == LET own == ProvidersOf(modules[i]) IN
                     [j \in DOMAIN own |-> Wrap(modules, modules[i], own[j])]
  IN IF \E m \in Range(modules) : UnknownExport(m) \/ Unresolved(modules, m)
     THEN [refused |-> TRUE, providers |-> <<>>, class |-> Nothing, value |-> Nothing, fields |-> Nothing]
     ELSE [refused |-> FALSE,
           providers |-> FlattenSeq([i \in DOMAIN modules |-> wrappers(i)]),
           class |-> class,
           value |-> [o \in objects |-> Provided(modules[o[1]], o[2]).value],
           fields |-> [o \in objects |->
                         [f \in DOMAIN class[o].injects |->
                            ObjectOf(modules, modules[o[1]], class[o].injects[f])]]]

-----------------------------------------------------------------------------
(* packages/common *)
AppExplorerRuleRegistry ==
  Class("AppExplorerRuleRegistry", <<>>, [discovery |-> "DiscoveryService", reflector |-> "Reflector"], Nothing)
FeatureExplorerEngine ==
  Class("FeatureExplorerEngine", <<>>,
        [discovery |-> "DiscoveryService", metadataScanner |-> "MetadataScanner",
         registry |-> "AppExplorerRuleRegistry"], Nothing)
FeatureExplorerModule ==
  Module("FeatureExplorerModule", FALSE, <<DiscoveryModule>>,
         <<Use(AppExplorerRuleRegistry), Use(FeatureExplorerEngine)>>, {})

MetadataAccessor(name) == Class(name, <<>>, [reflector |-> "Reflector"], Nothing)

(* packages/cacheable *)
CacheableFeatureDecoration ==
  Class("CacheableFeatureDecoration", <<>>, [cache |-> "CACHE_MANAGER"], Nothing)
CacheableMetadataExplorer ==
  Class("CacheableMetadataExplorer", <<FeatureExplorer>>,
        [cacheMetadataAccessor |-> "CacheableMetadataAccessor",
         cacheFeatureDecoration |-> "CacheableFeatureDecoration"], Nothing)
CacheableModule(options) ==
  Module("CacheableModule", FALSE, <<FeatureExplorerModule, CacheModule(Inject(options))>>,
         <<Use(MetadataAccessor("CacheableMetadataAccessor")), Use(CacheableMetadataExplorer),
           Use(CacheableFeatureDecoration)>>,
         {"CacheModule"})

(* packages/distribution-lock, packages/transactional: one service, or     *)
(* several with their names.                                               *)
One(service) == [single |-> TRUE, named |-> <<<<"", service>>>>]
Several(named) == [single |-> FALSE, named |-> named]
UnderNames(provided) ==
  IF provided.single THEN <<<<"default", provided.named[1][2]>>>> ELSE provided.named

DistributedLockProvider(config) ==
  UseFactory("DISTRIBUTION_LOCK_SERVICES", Inject(config), Services(UnderNames(config.providers)))
DistributionLockFeatureDecoration ==
  Class("DistributionLockFeatureDecoration", <<>>, [services |-> "DISTRIBUTION_LOCK_SERVICES"], Nothing)
DistributionLockMetadataExplorer ==
  Class("DistributionLockMetadataExplorer", <<FeatureExplorer>>,
        [metadataAccessor |-> "DistributionLockMetadataAccessor",
         featureDecoration |-> "DistributionLockFeatureDecoration"], Nothing)
DistributionLockModule(config) ==
  Config(config, Module("DistributionLockModule", TRUE, <<FeatureExplorerModule>>,
    <<DistributedLockProvider(config), Use(MetadataAccessor("DistributionLockMetadataAccessor")),
      Use(DistributionLockFeatureDecoration), Use(DistributionLockMetadataExplorer)>>,
    {}))

TransactionAdapterProvider(config) ==
  UseFactory("TRANSACTION_ADAPTERS", Inject(config), Services(UnderNames(config.adapters)))
TransactionalFeatureDecoration ==
  Class("TransactionalFeatureDecoration", <<>>,
        [services |-> "TRANSACTION_ADAPTERS", proxyFactory |-> "TransactionalProxyFactory"], Nothing)
TransactionalMetadataExplorer ==
  Class("TransactionalMetadataExplorer", <<FeatureExplorer>>,
        [metadataAccessor |-> "TransactionalMetadataAccessor",
         featureDecoration |-> "TransactionalFeatureDecoration",
         eventPublisher |-> "TransactionalEventPublisher"], Nothing)
TransactionalEventPublisher ==
  Class("TransactionalEventPublisher", <<>>, Nothing, [publish |-> Method(<<>>, <<>>)])
TransactionalProxyFactory == Class("TransactionalProxyFactory", <<>>, Nothing, Nothing)
TransactionalModule(config) ==
  Config(config, Module("TransactionalModule", TRUE, <<FeatureExplorerModule>>,
    <<TransactionAdapterProvider(config), Use(TransactionalMetadataExplorer),
      Use(MetadataAccessor("TransactionalMetadataAccessor")), Use(TransactionalFeatureDecoration),
      Use(TransactionalEventPublisher), Use(TransactionalProxyFactory)>>,
    {"TransactionalEventPublisher"}))

(* packages/redis *)
RedisConfigProvider(config) ==
  IF "inject" \in DOMAIN config THEN UseFactory("REDIS_CONFIG", config.inject, Value("config"))
  ELSE UseValue("REDIS_CONFIG", Value("config"))
RedisClientProvider(config) == UseFactory("REDIS_CLIENT", {"REDIS_CONFIG"}, Value("client"))
RedisModule(config) ==
  Config(config, Module("RedisModule", FALSE, <<>>,
    <<RedisConfigProvider(config), RedisClientProvider(config)>>,
    {OptionOr(config, "injectionToken", "REDIS_CLIENT")}))

(* packages/distribution-redlock *)
RedlockService ==
  Class("RedlockService", <<>>, [clients |-> "REDLOCK_REDIS_CLIENTS", config |-> "REDLOCK_CONFIG"], Nothing)
RedlockServiceProvider == UseExisting("REDLOCK_SERVICE", "RedlockService")
RedlockRegister(config) ==
  Config(config, Module("RedlockModule", FALSE, <<>>,
    <<UseValue("REDLOCK_CONFIG", Value("config")),
      UseFactory("REDLOCK_REDIS_CLIENTS", {}, Value("clients")),
      Use(RedlockService), RedlockServiceProvider>>,
    {"RedlockService", "REDLOCK_SERVICE"}))
RedlockRedisClientsAsyncProvider(config) ==
  UseFactory("REDLOCK_REDIS_CLIENTS", Inject(config),
             Value(IF config.redisClients = 0 THEN "error" ELSE "clients"))
RedlockRegisterAsync(config) ==
  Config(config, Module("RedlockModule", TRUE, <<>>,
    <<UseFactory("REDLOCK_CONFIG", Inject(config), Value("config")),
      RedlockRedisClientsAsyncProvider(config), Use(RedlockService), RedlockServiceProvider>>,
    {"RedlockService", "REDLOCK_SERVICE"}))

(* packages/distribution-postgres-advisory-lock *)
PgLockService == Class("PgLockService", <<>>, [pool |-> "PG_ADVISORY_POOL"], Nothing)
PgLockModule(config) ==
  Config(config, Module("PgLockModule", TRUE, <<>>,
    <<UseFactory("PG_ADVISORY_POOL", Inject(config), Value("pool")), Use(PgLockService),
      UseExisting("PGLOCK_SERVICE", "PgLockService")>>,
    {"PgLockService", "PGLOCK_SERVICE"}))

(* packages/feign: register() adds to what @Module says of FetchModule.    *)
FetchInterceptorExplorer ==
  Class("FetchInterceptorExplorer", <<FeatureExplorer>>, [reflector |-> "Reflector"], Nothing)
FetchService ==
  Class("FetchService", <<>>, [interceptors |-> "FetchInterceptorExplorer", config |-> "FETCH_CONFIG"], Nothing)
FetchModule ==
  Module("FetchModule", FALSE, <<FeatureExplorerModule>>,
         <<Use(FetchInterceptorExplorer), UseValue("FETCH_CONFIG", Value("config")), Use(FetchService)>>,
         {"FetchService"})
FetchRegister(config) ==
  LET token == OptionOr(config, "injectionToken", "FetchService:name")
      dynamic == Config(config, [FetchModule EXCEPT
                   !.providers = Append(@, UseExisting(token, "FetchService")), !.exports = {token}])
  IN [dynamic EXCEPT !.imports = FetchModule.imports \o @,
                     !.providers = FetchModule.providers \o @,
                     !.exports = FetchModule.exports \cup @]

FeignMetadataExplorer ==
  Class("FeignMetadataExplorer", <<FeatureExplorer>>,
        [metadataAccessor |-> "FeignMetadataAccessor", featureDecoration |-> "FeignFeatureDecoration",
         metadataScanner |-> "MetadataScanner"], Nothing)
FeignFetcherRegistry == Class("FeignFetcherRegistry", <<>>, Nothing, Nothing)
FeignFeatureDecoration ==
  Class("FeignFeatureDecoration", <<>>,
        [metadataAccessor |-> "FeignMetadataAccessor", fetcherRegistry |-> "FeignFetcherRegistry"], Nothing)
FeignModule ==
  Module("FeignModule", TRUE, <<DiscoveryModule, FeatureExplorerModule>>,
         <<Use(MetadataAccessor("FeignMetadataAccessor")), Use(FeignMetadataExplorer),
           Use(FeignFetcherRegistry), Use(FeignFeatureDecoration)>>,
         {"FeignFetcherRegistry"})
(* The factory of registerAsync() registers a fetcher and returns nothing. *)
FeignClientModule(config) ==
  Config(config, Module("FeignClientModule", FALSE, <<>>,
    IF "inject" \in DOMAIN config
    THEN <<UseFactory("FEIGN_CLIENT_CONFIG", config.inject, Value("undefined"))>> ELSE <<>>, {}))

-----------------------------------------------------------------------------
(* The example applications. *)
AppModule(imports, providers) == Module("AppModule", FALSE, imports, providers, {})

CacheableApp(ids) ==
  AppModule(<<ConfigModule, CacheableModule([inject |-> {"ConfigService"}])>>,
            <<Use(ProductService(ids))>>)

RedlockApp ==
  AppModule(<<RedisModule([global |-> TRUE]),
              RedlockRegisterAsync([inject |-> {"REDIS_CLIENT"}, redisClients |-> 1]),
              DistributionLockModule([inject |-> {"RedlockService"}, providers |-> One("redlock")])>>,
            <<Use(RedlockLockService)>>)

PgLockApp ==
  AppModule(<<PgLockModule(Nothing),
              DistributionLockModule([inject |-> {"PgLockService"}, providers |-> One("pglock")])>>,
            <<Use(PgLockLockService)>>)

RedisApp == AppModule(<<RedisModule(Nothing)>>, <<Use(RedisService)>>)

TypeOrmHexagonalModule ==
  Module("HexagonalModule", FALSE,
         <<ForFeature("TypeOrmModule", "UserRepository", {"DataSource"}, "repository")>>,
         <<Use(TypeOrmUserService), UseClass("USER_REPOSITORY", TypeOrmUserRepository)>>, {"UserService"})
TypeOrmApp ==
  AppModule(<<ConfigModule, ForRoot("TypeOrmCoreModule", "DataSource", {"ConfigService"}, "dataSource"),
              ForFeature("TypeOrmModule", "OrderRepository", {"DataSource"}, "repository"),
              TypeOrmHexagonalModule,
              TransactionalModule([inject |-> {"DataSource"}, adapters |-> One("typeorm")])>>,
            <<Use(TypeOrmOrderService)>>)

MongooseHexagonalModule ==
  Module("HexagonalModule", FALSE,
         <<ForFeature("MongooseModule", "UserModel", {"DatabaseConnection"}, "model")>>,
         <<Use(MongooseUserService), UseClass("USER_REPOSITORY", MongooseUserRepository)>>, {"UserService"})
MongooseApp ==
  AppModule(<<ForRoot("MongooseCoreModule", "DatabaseConnection", {}, "connection"),
              ForFeature("MongooseModule", "OrderModel", {"DatabaseConnection"}, "model"),
              MongooseHexagonalModule,
              TransactionalModule([inject |-> {"DatabaseConnection"}, adapters |-> One("mongoose")])>>,
            <<Use(MongooseOrderService)>>)

FetchExampleModule ==
  Module("FetchExampleModule", FALSE, <<FetchRegister(Nothing)>>,
         <<Use(Class("FetchExampleService", <<>>, [fetchService |-> "FetchService"], Nothing))>>, {})
FeignExampleModule ==
  Module("FeignExampleModule", FALSE, <<FeignClientModule(Nothing)>>,
         <<Use(UserFeignClient), Use(PostFeignClient), Use(CommentFeignClient)>>, {})
FeignApp == AppModule(<<FeignModule, FetchExampleModule, FeignExampleModule>>, <<>>)
=============================================================================
