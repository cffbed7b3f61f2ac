------------------------------ MODULE Examples ------------------------------
(* The decorated classes of the example applications, and the classes they *)
(* inject.  A body lists what a method asks of its fields; work in memory  *)
(* is left out.                                                            *)
EXTENDS Decorators

(* example/cacheable: keys as sequences of names. *)
ProductService(ids) ==
  LET product == [id \in ids |-> <<<<"product", id>>>>]
      all == [id \in ids |-> <<<<"all-products", "">>>>]
      inventory == [id \in ids |-> "inventory"]
  IN Class("ProductService", <<>>, Nothing,
       [getProduct |->
          Method(<<Cacheable([key |-> product, ttl |-> 60, namespace |-> inventory])>>, <<>>),
        updateProduct |->
          Method(<<CachePut([key |-> product, ttl |-> 60, namespace |-> inventory])>>, <<>>),
        deleteProduct |-> Method(<<CacheEvict([key |-> product, namespace |-> inventory])>>, <<>>),
        getAllProducts |-> Method(<<Cacheable([key |-> all, ttl |-> 30])>>, <<>>),
        clearAllProductsCache |-> Method(<<CacheEvict([key |-> all])>>, <<>>)])

-----------------------------------------------------------------------------
(* example/distribution-redlock, example/distribution-postgres-advisory *)
Locking(service) ==
  Class("LockService", <<>>, [lockService |-> service],
    [staticLock |-> Method(<<DistributionLock([key |-> "static", ttl |-> 5000])>>, <<>>),
     dynamicLock |-> Method(<<DistributionLock([key |-> "dynamic", ttl |-> 5000])>>, <<>>),
     manualLock |-> Method(<<>>, <<On("lockService", "withLock")>>)])
RedlockLockService == Locking("REDLOCK_SERVICE")
PgLockLockService == Locking("PGLOCK_SERVICE")

(* example/redis *)
RedisService ==
  Class("RedisService", <<>>, [redis |-> "REDIS_CLIENT"],
    [ping |-> Method(<<>>, <<On("redis", "ping")>>),
     setValue |-> Method(<<>>, <<On("redis", "set")>>),
     getValue |-> Method(<<>>, <<On("redis", "get")>>)])

-----------------------------------------------------------------------------
(* example/transactional-typeorm: methods that create orders, and others. *)
CreatingOrders ==
  [createOrderWithEvent |->
     Method(<<>>, <<On("orderRepo", "save"), On("eventPublisher", "publish")>>),
   createOrderWithRollback |-> Method(<<>>, <<On("orderRepo", "save")>>),
   createOrderDeclarative |->
     Method(<<TransactionalEvent("order.created")>>, <<On("orderRepo", "save")>>),
   onOrderCreated |->
     Method(<<TransactionalEventListener("order.created", "AFTER_COMMIT")>>, <<>>),
   onOrderFailed |->
     Method(<<TransactionalEventListener("order.created", "AFTER_ROLLBACK")>>, <<>>),
   processWithConditionalRollback |->
     Method(<<Transactional([rollbackOnError |-> "BusinessException"])>>, <<On("orderRepo", "save")>>),
   createOrder |-> Method(<<>>, <<On("orderRepo", "save"), On("this", "updateOrderStatus")>>)]

UpdatingOrders ==
  [updateOrderStatus |-> Method(<<>>, <<On("orderRepo", "update")>>),
   createAuditLog |->
     Method(<<Transactional([propagation |-> "REQUIRES_NEW"])>>, <<On("orderRepo", "query")>>),
   findById |-> Method(<<NoTransactional>>, <<On("orderRepo", "findOne")>>),
   findAll |-> Method(<<NoTransactional>>, <<On("orderRepo", "find")>>),
   adjustOrderAmount |->
     Method(<<Transactional([propagation |-> "NESTED"])>>,
            <<On("orderRepo", "findOne"), On("orderRepo", "update")>>)]

TypeOrmOrderService ==
  Class("OrderService", <<Transactional(Nothing)>>,
        [orderRepo |-> "OrderRepository", eventPublisher |-> "TransactionalEventPublisher"],
        CreatingOrders @@ UpdatingOrders)

(* example/transactional-mongoose *)
MongooseOrderService ==
  LET save == On("orderModel", "new")
      required == Transactional(Nothing)
  IN Class("OrderService", <<>>,
       [orderModel |-> "OrderModel", eventPublisher |-> "TransactionalEventPublisher"],
       [createOrder |-> Method(<<required>>, <<save>>),
        createOrderWithEvent |-> Method(<<required>>, <<save, On("eventPublisher", "publish")>>),
        createOrderRequiresNew |->
          Method(<<Transactional([propagation |-> "REQUIRES_NEW"])>>, <<save>>),
        createOrderWithRollback |-> Method(<<required>>, <<save>>),
        createOrderWithConditionalRollback |->
          Method(<<Transactional([rollbackOnError |-> "BusinessException"])>>, <<save>>),
        createOrderDeclarative |-> Method(<<TransactionalEvent("order.created")>>, <<save>>),
        createAuditLog |-> Method(<<Transactional([propagation |-> "REQUIRES_NEW"])>>, <<>>),
        adjustOrderAmount |->
          Method(<<Transactional([propagation |-> "NESTED"])>>,
                 <<On("orderModel", "findByIdAndUpdate")>>),
        onOrderCreated |->
          Method(<<TransactionalEventListener("order.created", "AFTER_COMMIT")>>, <<>>),
        onOrderFailed |->
          Method(<<TransactionalEventListener("order.created", "AFTER_ROLLBACK")>>, <<>>)])

(* The hexagonal part of both: a service and the repository behind its port. *)
Users(create) ==
  Class("UserService", <<>>, [userRepository |-> "USER_REPOSITORY"],
    [createUser |-> Method(<<Transactional(Nothing)>>, <<On("userRepository", create)>>),
     getAllUsers |-> Method(<<>>, <<On("userRepository", "findAll")>>)])
TypeOrmUserService == Users("save")
MongooseUserService == Users("create")

TypeOrmUserRepository ==
  Class("TypeOrmUserRepository", <<>>, [repository |-> "UserRepository"],
    [save |-> Method(<<>>, <<On("repository", "save")>>),
     findAll |-> Method(<<>>, <<On("repository", "find")>>),
     findById |-> Method(<<>>, <<On("repository", "findOne")>>)])

MongooseUserRepository ==
  Class("MongooseUserRepository", <<>>, [userModel |-> "UserModel"],
    [create |-> Method(<<>>, <<On("userModel", "create")>>),
     findAll |-> Method(<<>>, <<On("userModel", "find")>>)])
=============================================================================
