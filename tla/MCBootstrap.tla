---------------------------- MODULE MCBootstrap -----------------------------
(* The example applications, and applications that use the packages in     *)
(* ways the examples do not, alone and two in a process.                   *)
EXTENDS Routing, Wiring

CONSTANTS Singles, Pairs    \* names of applications that are created alone, in pairs

LockServices(services) == DistributionLockModule([providers |-> services])
TransactionsOf(adapters) == TransactionalModule([adapters |-> adapters])

(* Tokens that name what a module does not provide, or need.               *)
RedisTokenApp == AppModule(<<RedisModule([injectionToken |-> "CACHE_REDIS"])>>, <<>>)
(* RedlockModule under DistributionLockModule, registered for its importers *)
(* or for all, and as the README of the package has it.                    *)
LockedBy(redlock) ==
  AppModule(<<redlock, DistributionLockModule([inject |-> {"RedlockService"}, providers |-> One("redlock")])>>,
            <<Use(RedlockLockService)>>)
RedlockLocalApp == LockedBy(RedlockRegister(Nothing))
RedlockGlobalApp == LockedBy(RedlockRegister([global |-> TRUE]))
RedlockReadmeApp ==
  AppModule(<<RedisModule(Nothing), RedlockRegisterAsync([inject |-> {"REDIS_CLIENT"}, redisClients |-> 1])>>, <<>>)
NoClientsApp == AppModule(<<RedlockRegisterAsync([redisClients |-> 0])>>, <<>>)
ExtrasApp ==
  LET helper == Class("Helper", <<>>, [config |-> "ConfigService"], Nothing) IN
  AppModule(<<DistributionLockModule([providers |-> Several(<<>>), extraModules |-> <<ConfigModule>>,
                extraProviders |-> <<Use(helper)>>, extraExports |-> {"Helper"}])>>,
            <<Use(Class("Client", <<>>, [helper |-> "Helper"],
                [guarded |-> Method(<<DistributionLock([key |-> "k", ttl |-> 1])>>, <<>>)]))>>)

(* Orders behind an alias, in a module that NestJS scans after the alias   *)
(* or before it, and orders made by a factory.                             *)
OrdersModule(orders) ==
  Module("OrdersModule", FALSE, <<ForFeature("TypeOrmModule", "OrderRepository", {}, "repository")>>,
         <<orders>>, {"OrderService"})
OrdersApp(orders, here) ==
  AppModule(<<OrdersModule(orders), TransactionsOf(One("typeorm"))>>, here)
AliasFirstApp == OrdersApp(Use(TypeOrmOrderService), <<UseExisting("ORDERS", "OrderService")>>)
Audited ==
  Class("OrderService", <<>>, Nothing,
        [created |-> Method(<<TransactionalEventListener("order.created", "AFTER_COMMIT")>>, <<>>),
         place |-> Method(<<Transactional(Nothing)>>, <<>>)])
AliasLastApp ==
  AppModule(<<TransactionsOf(One("typeorm"))>>, <<Use(Audited), UseExisting("ORDERS", "OrderService")>>)
FactoryApp ==
  OrdersApp([Use(TypeOrmOrderService) EXCEPT !.as = "factory"], <<>>)

(* A service in front of the services of the examples.                     *)
Checkout(adapter) ==
  Class("Checkout", <<>>, [orders |-> "OrderService", users |-> "UserService"],
        [buy |-> Method(<<Transactional([adapter |-> adapter])>>,
                        <<On("orders", "createOrder"), On("users", "createUser"), On("this", "note")>>),
         note |-> Method(<<>>, <<On("orders", "createAuditLog")>>),
         later |-> Method(<<NoTransactional>>, <<On("this", "buy")>>)])
CheckoutApp ==
  AppModule(<<OrdersModule(Use(TypeOrmOrderService)),
              Module("UsersModule", FALSE,
                     <<ForFeature("TypeOrmModule", "UserRepository", {}, "repository")>>,
                     <<Use(TypeOrmUserService), UseClass("USER_REPOSITORY", TypeOrmUserRepository)>>,
                     {"UserService"}),
              TransactionsOf(Several(<<<<"primary", "typeorm">>>>))>>,
            <<Use(Checkout("primary"))>>)
TwoAdaptersApp ==
  AppModule(<<ForFeature("TypeOrmModule", "UserRepository", {}, "repository"),
              ForFeature("MongooseModule", "OrderModel", {}, "model"),
              TransactionsOf(Several(<<<<"sql", "typeorm">>, <<"mongo", "mongoose">>>>))>>,
            <<Use(TypeOrmUserService), UseClass("USER_REPOSITORY", TypeOrmUserRepository),
              Use([MongooseOrderService EXCEPT !.name = "OrderService"]), Use(Checkout("mongo"))>>)

(* Several features on one method, and on one that others call.            *)
Busy ==
  Class("Busy", <<Transactional([rollbackOnError |-> "E"])>>, [orderRepo |-> "OrderRepository"],
        [pay |-> Method(<<DistributionLock([key |-> "pay", ttl |-> 1, provider |-> "b"]),
                          Transactional([propagation |-> "NESTED"])>>, <<On("orderRepo", "save")>>),
         show |-> Method(<<NoTransactional, Cacheable([key |-> "show"])>>, <<>>),
         guard |-> Method(<<NoTransactional, DistributionLock([key |-> "g", ttl |-> 1])>>,
                          <<On("orderRepo", "save")>>),
         outer |-> Method(<<>>, <<On("this", "guard"), On("orderRepo", "save")>>)])
MixedApp ==
  AppModule(<<ForFeature("TypeOrmModule", "OrderRepository", {}, "repository"),
              CacheableModule(Nothing), LockServices(Several(<<<<"a", "redlock">>, <<"b", "pglock">>>>)),
              TransactionsOf(One("typeorm"))>>, <<Use(Busy)>>)

(* Interceptors of two clients, and a declarative client with a cache.     *)
Tracing ==
  Class("Tracing", <<RequestInterceptor, ResponseInterceptor>>, Nothing, [intercept |-> Method(<<>>, <<>>)])
Lookup ==
  Class("Lookup", <<FeignClient([name |-> "jsonServer"])>>, Nothing,
        [find |-> Method(<<Cacheable([ttl |-> 1]), HttpMethod("GET", <<>>)>>, <<>>),
         local |-> Method(<<CachePut([ttl |-> 1])>>, <<>>)])
InterceptedApp ==
  AppModule(<<FeignModule, CacheableModule(Nothing), FetchRegister([injectionToken |-> "USERS"]),
              FeignClientModule([inject |-> {}])>>,
            <<UseExisting("TRACING", "Tracing"), Use(Tracing), Use(Lookup)>>)

(* Requests in a class with options of transactions, or in an object that  *)
(* a factory has made; and events without an adapter, behind an alias.     *)
Search ==
  Class("Search", <<FeignClient([name |-> "jsonServer"]), Transactional(Nothing)>>, Nothing,
        [find |-> Method(<<NoTransactional, HttpMethod("GET", <<>>)>>, <<>>),
         seen |-> Method(<<HttpMethod("POST", <<>>), TransactionalEventListener("found", "AFTER_COMMIT")>>, <<>>)])
ClientsApp ==
  AppModule(<<FeignModule, TransactionsOf(One("typeorm"))>>,
            <<Use(Search), [UseFactory("LOOKUP", {}, Value("instance")) EXCEPT !.class = Lookup]>>)
NoAdapterApp ==
  LET news == Class("News", <<Transactional(Nothing)>>, Nothing,
                    [post |-> Method(<<TransactionalEvent("news.posted")>>, <<>>)])
  IN AppModule(<<TransactionsOf(Several(<<>>))>>, <<Use(news), UseExisting("NEWS", "News")>>)

MCApps ==
  [cacheable |-> CacheableApp({1}), redlock |-> RedlockApp, pglock |-> PgLockApp, redis |-> RedisApp,
   typeorm |-> TypeOrmApp, mongoose |-> MongooseApp, feign |-> FeignApp,
   redisToken |-> RedisTokenApp, noClients |-> NoClientsApp, redlockLocal |-> RedlockLocalApp,
   redlockGlobal |-> RedlockGlobalApp, redlockReadme |-> RedlockReadmeApp, extras |-> ExtrasApp,
   aliasFirst |-> AliasFirstApp, aliasLast |-> AliasLastApp, factory |-> FactoryApp,
   checkout |-> CheckoutApp, twoAdapters |-> TwoAdaptersApp, mixed |-> MixedApp,
   intercepted |-> InterceptedApp, clients |-> ClientsApp, noAdapter |-> NoAdapterApp]
MCComposed == [name \in DOMAIN MCApps |-> Application(MCApps[name])]
MCProcesses == {<<a>> : a \in Singles} \cup Pairs \X Pairs

Examples == {"cacheable", "redlock", "pglock", "redis", "typeorm", "mongoose", "feign"}

(* A decorator of a method or of its class asks for a wrapper.             *)
Decorative(slot) ==
  \/ \E key \in {"CACHEABLE", "CACHE_PUT", "CACHE_EVICT", "LOCK", "FEIGN_METHOD"} : Declares(slot, key)
  \/ /\ ~Declares(slot, "NO_TRANSACTIONAL")
     /\ \/ Declares(slot, "TRANSACTIONAL") \/ Declares(slot, "EVENT")
        \/ ClassDeclares(slot, "TRANSACTIONAL")

(* The applications under example/ do what they are there to show: NestJS  *)
(* starts each of them - every token that the modules of the packages      *)
(* export and inject resolves - and each method of their providers that is *)
(* decorated has a wrapper, whatever modules the application has imported. *)
ExamplesWork ==
  process[app] \in Examples /\ app = 1 =>
    /\ phase # "refused"
    /\ phase = "ready" => \A slot \in DOMAIN impl : Decorative(slot) => impl[slot] # <<>>

(* The README of redis on a RedisModule with an injectionToken             *)
(* (redis/README.md:106-124), that of distribution-redlock on a RedisModule *)
(* and a RedlockModule next to each other (distribution-redlock/README.md: *)
(* 64-80), and then an example application twice.                          *)
DocumentedProcesses == {<<"redisToken", "redlockReadme", "redlock", "redlock">>}

(* Of three uses that the documentation presents as working, at least one  *)
(* works: the two modules of the READMEs start, or in the application      *)
(* created last "when the decorated method is invoked, the framework will  *)
(* automatically acquire a distributed lock"                               *)
(* (distribution-lock.decorator.ts:9-10).                                  *)
DocumentedUseWorks ==
  phase \in {"ready", "refused"} /\ app = Len(process) =>
    \/ ~Apps["redisToken"].refused
    \/ ~Apps["redlockReadme"].refused
    \/ /\ phase = "ready"
       /\ \A slot \in DOMAIN impl : Declares(slot, "LOCK") => "lock" \in Range(Order(impl[slot]))

(* "When the decorated method is invoked, the framework will automatically *)
(* acquire a distributed lock" (distribution-lock.decorator.ts:9-10).      *)
LockedWhenInvoked ==
  Explored /\ Registered("DistributionLockMetadataExplorer") # {} =>
    \A slot \in DOMAIN impl :
      EntriesOf(slot[1]) # {} /\ Declares(slot, "LOCK") => "lock" \in Range(Order(impl[slot]))
=============================================================================
