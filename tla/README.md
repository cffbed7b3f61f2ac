# Verification of nestplatform

nestplatform is a set of NestJS packages (`src/packages/*`): distributed locks over Redis
(Redlock) and over PostgreSQL advisory locks, declarative transactions over TypeORM and Mongoose,
a declarative cache, a declarative HTTP client, and the decorator machinery they share. This
directory holds TLA+ models of the parts with behaviour of their own, the TLC runs that check them
on small instances, and proofs that TLAPS checks for every instance.

## 1. The system

| Component (under `src/packages`) | State it keeps | Operations | What is hard |
|---|---|---|---|
| `distribution-redlock` service | per call: handle (`expiration`), attempts, votes; on the nodes: keys with a TTL, script cache | `acquire`, `extend`, `release`, `_execute`, `_attemptOperation`, three Lua scripts | many processes, several nodes, expiry, late, lost and repeated commands, restarts |
| `distribution-redlock` `withLock` | handler, extension timer, `extending` flag, abort signal | acquire, run the handler, extend on a timer, release | a timer and an extension racing the end of the handler |
| `distribution-postgres-advisory-lock` | pool of connections, advisory locks per session | `acquire`, `extend`, `release`, `withLock` | session locks on pooled connections, errors half way through several keys |
| `distribution-lock` decorator | none | wraps a method in `withLock` | swallowed exceptions |
| `transactional` core | `AsyncLocalStorage` context: transaction, synchronizations; listener registry | `wrapMethodWithTransaction`, context, event publisher, phases | nesting, hooks that throw, order of phases |
| `transactional-typeorm`, `transactional-mongoose` adapters | query runner or session per transaction | three propagations, commit, rollback, savepoints | partial failure of commit, rollback and hooks, pool exhaustion |
| `cacheable` | the cache store; `pendingCacheMap`, the lookups under way | `@Cacheable`, `@CachePut`, `@CacheEvict` | shared lookups, stale write-back, failed requests |
| `feign` | per call: attempt, timer, abort signal; the registry of fetchers | request with retries and timeout, declarative clients | retry of what was already done, abort against timeout |
| `common` | feature registry, the engine's static `initialized`, decorated instances | explorer engine, `ConfigurableModule` | explorers overwrite each other, aliases, several applications in a process |
| module wiring, `redis`, `src/example/*` | tokens, exports, the scope of a module | dynamic modules, the applications built of them | a token that nobody provides, a module that stays local |

The components meet as follows. `DistributionLock` (decorator) calls `withLock` of whichever lock
service is provided. `withLock` of Redlock calls `acquire`, `extend` and `release`, each of which
runs scripts on every Redis client. `Transactional` calls the adapter, which runs the method in a
new `AsyncLocalStorage` context and calls the context's synchronizations around commit and rollback;
the event publisher registers listeners as synchronizations. `Cacheable` wraps a method between a
read and a write of the cache. All decorators are applied at `onModuleInit` by the feature explorer
of `common`, which replaces the method on the instance.

What makes each one correct: two valid handles never share a key and a handle is true until its
expiration (Redlock); the handler runs only while the lock is held or its signal is aborted
(`withLock`); a connection goes back to the pool without locks (Postgres); a transaction ends once,
and hooks run in the phase their outcome allows (transactions); what the cache returns was the
method's result and not evicted since (cache); a request is sent no more often than its options
allow and settles (feign).

## 2. Redlock (`Redlock.tla`, `Lease.tla`)

`Redlock.tla` models `redlock.service.ts`, `redlock.scripts.ts` and the handle of `redlock.util.ts`.

**State.** A call `c` of `acquire()` stands for a process, the random value it writes and the handle
it gets: `phase[c]`, `exp[c]` (the handle's `expiration`, 0 once invalidated) and `err[c]`. It has
two slots, since a `release()` may run while an `extend()` of the same lock does: `run`, `tries`
(the length of `attempts`), `round` (which attempt an answer belongs to; in the code, the closure
it is handled by), `votes` and `start` (`Date.now()` when an attempt began). A node `n` has `val`,
`ttl` and `cached` (its script cache). Between them, `queue[c][n]` is a connection of ioredis:
commands in the order sent, each waiting for the node (`sent`) or answered and waiting for the
client's handler.

**Actions.** `Acquire`, `Extend`, `Release` and `Retry` start an attempt: one command to every node.
An answer is handled by `CountVote` (no decision yet), `LockSucceeds`, `RetryLater`,
`AcquireFails` (with the whole catch block: the cleanup release), `ExtendFails`, `UnlockEnds`,
`IgnoreAnswer` (the attempt is decided) or `FallBackToEval` (NOSCRIPT). The nodes run
`AcquireScript`, `ExtendScript`, `ReleaseScript`, each atomic as Redis runs Lua, or answer
`NoScript`. The environment is `Expire`, `Restart`, `ConnFails`, `Resend` and `Tick`. `Expire` may
be early or late by `Skew`, any number below the drift the code subtracts; a key that must have
expired stops the clock until it does.

**Abstractions.** One clock for all processes (handles are compared by who holds them; a
process's clock offset is not the code's concern, the nodes' clock error is `Skew`). One extension
of a lock at a time. `Duration` is the same for all calls. `stats` promises and events are left out.

**Abstract specification.** `Lease.tla` is what a user may rely on: a lease is granted only while
no competing lease is valid. `LeaseSpec` maps a handle's expiration to the lease.

**Bounds.** `MaxTime`, `MaxRounds` (no new `extend()` after so many attempts), `MaxFaults`
(connections that fail or resend, and restarts), `MaxRestarts`. Durations are 2 to 4 ticks; the drift takes more than the `Skew` by which a node may
expire a key early, so a handle is valid for up to two ticks, keys outlive handles, and a key that
expires early still outlives its handle. Two calls suffice for every property that speaks of two
competitors; three nodes give a quorum that is not everyone, two nodes a tie, one node a cheap
instance for retries and duplicated commands. `extend()` and `release()` may be called again after
a release, as the code allows.

**Runs.**

| Run | Instance | Shows |
|---|---|---|
| `redlock_majority` | 3 nodes, 2 calls, 1 key, duration and clock of 2 | `Exclusion`, `LeaseBacked`, `AttemptCanEnd`, `CleanedUp`, `TypeOK` |
| `redlock_keys` | 1 node, calls for {r1} and {r1, r2}, 2 attempts, an `extend()` after the first, 1 failing or resending connection or 1 restart, cold script cache, duration and clock of 2; fair | `KeysUntouched`, `LeaseBacked`, `OperationsReturn` |

`redlock_majority` has neither retries nor extensions, `redlock_keys` has both on one node; over longer
handles and several extensions `with_lock` (section 3) checks `LeaseBacked` and `LeaseSpec`. That
answers to an earlier attempt are not counted on several nodes is in the proofs.

**Fairness.** `OperationsReturn` says that each slot of a call is idle again and again: whatever
`acquire()`, `extend()` or `release()` is started in it settles. It assumes that timers fire (`setTimeout`), that a node runs what is
sent to it and that the event loop handles what is answered. A connection that stays down is
covered: ioredis rejects the commands, and `ConnFails` is that. No fairness is assumed of the user
(nobody has to release) nor of the environment.

**What reading and the runs show.** (1) An even number of nodes can tie, and then `acquire()` never
settles although its doc says it throws when a quorum cannot be achieved: `AttemptCanEnd` fails with
two nodes. The README of the package recommends 3 or 5 nodes, the code accepts any number.
(2) `ResourceLockedException` ("already locked by another process") is also thrown when the key is
the call's own, set by an execution of its script whose answer was lost. The decorator of
`distribution-lock` then skips the method silently.

**Conditions worth knowing.** `Exclusion` holds while fewer than `2 * Quorum - N` nodes have lost
their keys, that is none for odd `N`: a restart without persistence breaks it, as the algorithm's
authors say. `CleanedUp` is about warm script caches and no failure, of a connection or a node: with a cold
cache, or after a restart has emptied it, the `EVAL` fallback of an acquire can arrive behind the cleanup's
release and leave a key until its TTL.
`AttemptCanEnd` is for odd `N`.

**Proofs** (`RedlockProofs.tla`, for every number of nodes, calls, keys, attempts, faults and
restarts, from `ConstantsAssumption` and `DriftAssumption`).

- `TypeCorrect`: `TypeOK`, strengthened by `RetriesLeft` (a slot that waits has attempts left,
  otherwise `Retry` could exceed `MaxAttempts`).
- `HandlesAreBacked`: `LeaseBacked` is not inductive. `SafeInv` adds that no release of a call is
  on its way before the call asks for it (`NoReleaseSent`), that answers name attempts that have
  begun (`RoundBound`), that attempts began in the past (`Past`), and `VoteBacked`: every vote for,
  counted or still on its way, of the current attempt comes from a node that stores all keys with
  a TTL at least `start + Duration`. When the votes reach a quorum, these nodes are the backing of
  the handle; its expiration is `start + Duration - Drift`, and `Skew < Drift` keeps a node from
  expiring a key before.
- `ExclusionHolds`: two quorums share a node that did not restart; it would have to store the
  common key for both.
- `KeysStayUntouched`: by cases on the step, from `NoReleaseSent`.
- `ImplementsLease`: every step is a `Grant`, `Drop`, `Tick` or stutter of `Lease`; a grant that
  would compete with a valid lease contradicts `ExclusionHolds` in the next state.

Two further theorems, in the second part of the module, are about what is on the connections.

- `AttemptsCanEnd`, for an odd number of nodes: `VoteInv` says that every node whose vote is missing
  still has a command of the attempt to answer (`VoteToCome`) and that the votes counted so far
  decide nothing (`Undecided`). With every vote in, one side has a quorum.
- `CallsCleanUp` is `CleanedUp`, from `"acquire" \in InitialScripts`: as long as nothing failed no
  node has restarted (`NothingLost`), and the script stays cached where the call's commands go.
  `SweptInv` says that, once the cleanup or release of a call has begun, a node either stores nothing
  of the call and has no acquire of it to run, or has a release to run behind all its acquires
  (`SweptAt`). The release may itself have to be sent again as `EVAL`, and an `extend()` may lie
  between; neither stores a key that was not there.

`OperationsReturn` is liveness under fairness, which the prover does not do.

## 3. withLock() of Redlock (`RedlockWithLock.tla`)

Extends `Redlock`: each call belongs to one `withLock()`, and the actions of `Redlock` are conjoined
with what `withLock()` does in the same continuation. **State:** `handler[c]` (none, running, over,
or unstarted because a listener of the "acquired" event threw), `timer[c]` (when the extension timer
fires; 0 when it is not armed), `aborted[c]` (the signal of the handler). **Actions:** `WithLock`
(line 252), `Acquired` (the timer is armed, the handler starts), `TimerFires` (`lock.extend()`, or
its immediate exception for a handle that has expired), `Extended` (the timer is armed again, also
when the handler is over), `ExtensionFails` (abort), `HandlerEnds` (`clearTimeout()` and release);
`InnerAnswer` are answers that only Redlock sees.

**Runs.** `with_lock` (1 node, 2 calls, 2 attempts, a fault, handles of 2 ticks, the timer a tick
before the end, clock to 4): `OverlapOnlyWhileExtending`, `ReleasedForGood`, `LeaseBacked` and
`LeaseSpec` through up to two extensions, types. The clock is free to run while a timer is due, so late timers and slow answers are covered. `with_lock_zombie`
violates `ExpiresAfterRelease`.

**What they show.** The signal is aborted only when an extension is rejected. While an extension is
due or unanswered the keys may expire and another handler start; `OverlapOnlyWhileExtending` says
that this is the only way two handlers meet. An extension in flight when the handler ends is not
awaited: if it reaches the nodes before the release it is harmless (`ReleasedForGood`: without
failures no key stays), but if the release fails it re-arms the timer, and a finished `withLock()`
goes on renewing its lock (finding, against the doc of `release()` that the lock will expire).

**Proofs** (`RedlockWithLockProofs.tla`). `WithLockUsesRedlock`: `withLock()` only makes steps that
`Redlock` has, so every theorem of section 2 holds of it. `WithLockTypes`.
`HandlersOverlapOnlyWhileExtending`: the invariant `HandlersAttended` says that a running handler
holds its lock, that its timer is due already or will be by the end of the lease, and that, unless
it is aborted, the timer is armed or an extension under way; with exclusion of valid handles, the
property follows.
`LocksAreGivenBack` is `ReleasedForGood`, from `CallsCleanUp` and its conditions: a handler is over
only when the release of its lock has begun (`OverMeansReleased`).

## 4. PostgreSQL advisory locks (`PgLock.tla`)

**State.** `locks[s][r]`, how often session `s` holds `r` (advisory locks of a session stack, and
only the session can free them), `broken` sessions, the `pool` with its queue `waiting`, and per
call its connection, its place in `withLock()` and the key `acquire()` has come to. **Actions.**
`Connect`, `Connected`, `ConnectFails` (`pool.connect()`); `TryLock`, `Locked`, `LockQueryFails`
(the loop of `acquire()` and its catch block, which gives the connection back); `Acquired`,
`HandlerEnds`, `Unlock` (the queries of `release()`, whose failures `allSettled()` hides),
`Returned`; a listener that throws leaves the connection taken (`leaked`). The server and the pool
are external. `extend()` assigns a timestamp nobody reads and is left out.

**Runs.** `pg_lock` (3 calls with keys ab, ba, a; 2 sessions; 1 fault): `PgExclusion`,
`LeaksOnlyOnError`, `CallsReturn`, types. Two sessions make a call wait for another and let a
session with left-over locks be reused by a third call. `CallsReturn` assumes that the pool hands out idle connections, that queries and
the event loop go on and that handlers end; nothing is assumed of failures.

**What they show.** `acquire()` that finds its second key taken returns its connection to the pool
with the first key still locked by the session: later calls are told that another process has it,
until that session happens to be used for the same key, against the doc of the exception; this
needs no fault, and `PgExclusion` holds all the same. Exclusion itself is not in danger
as long as connections live: a handler is not told that its connection dropped.

**Proofs** (`PgLockProofs.tla`). `PgTypeCorrect` and `PgExclusionHolds`, from the invariant that a
connection belongs to one call or to the pool, that at most one session holds a resource, and that
the session of a running handler holds all its keys unless it broke. `SuccessLeavesNoLock` is
`LeaksOnlyOnError`: as long as nothing failed, a session holds a resource at most as often as the call
that uses it has locked and not yet unlocked it (`Balanced`), whatever its list of keys repeats, and
the queries of a release are for the keys of the list (`UnlocksOfKeys`); a key whose call failed to
acquire is excepted, for its locks stay.

## 5. Transactions (`Transaction.tla`)

One module for the TypeORM and the Mongoose adapter, which share the structure of `execute()`, with
`TransactionContext` and the event publisher. `adapter` is chosen at the start.

**State.** A call `c` is one `execute()`; `Caller[c]` is the call whose callback (or listener) makes
it, `options[c]` its propagation, the kinds of error that roll back, and where in its caller it is
made. `tx[c]` is the transaction in the context of its callback, named after the call that began it
(the store's `transaction`); `pc[c]` the place in `execute()`; `error[c]` the error being handled.
`db[d]` is what the database has made of the transaction, `client[d]` what the `QueryRunner` or
`ClientSession` believes: they differ after a lost answer. `log` and `savepoints` are the writes in
the transaction, `persisted` those in the database. `syncs[d]` are the registered synchronizations,
each with the call that published and the phase of its listener, or "hook" for one of the user;
`at[d]` is the position of the `for .. of` loop of `invokeXxx()`, which also meets synchronizations
added while it runs. `held` are connections taken from the pool, or sessions.

**Actions.** `Execute` chooses among joining, a savepoint and a transaction of its own. The callback:
`Write`, `Publish`, `BodyReturns`, `BodyThrows`. `executeNested()`: `SetSavepoint`,
`ReleaseSavepoint`, `RollbackToSavepoint`. `runInNewTransaction()` and `runInNewSession()`:
`Connect`, `StartTransaction`, `Commit`, `Rollback`, `Close`, each with its failures
(`ConnectFails`, `StartFails`, `CommitImpossible`, `CommitFails`, `RollbackFails`). `Raise` is the
control flow of an error: caught once by the try block, the second time (an error within the catch
block) only the finally block is left. The phases: `RunHook`, `HookThrows`, `PhaseEnds`. `Drop` is
a lost connection. TypeORM's runner refuses to commit or roll back when no transaction is active;
a `ClientSession` may commit again after a commit, and `abortTransaction()` hides all errors but
those of its state.

**Abstractions.** A callback awaits its calls one by one (`Concurrent` lifts this). One write and
one event per call. Errors are of the application, of the database or of a hook; `rollbackOnError`
is the set of kinds that roll back. `publish()` without a transaction calls the listeners at once
and changes nothing here. Which object a proxied repository or model resolves to is reduced to the
transaction of the context. Isolation levels are left out. One adapter per program.

**Runs.**

| Run | Instance | Shows |
|---|---|---|
| `transaction` | both adapters; a call with a nested one and one that joins, is independent, or is made by a listener of AFTER_COMMIT; listeners of three phases and a hook that may throw; a pool of 2; 1 fault; fair | `Atomic`, `EventsMatchOutcome`, `DeliveredOnce`, `ResultMatchesOutcome`, `ConnectionsReturned`, `CallsSettle`, types |

A family of three calls has every way two calls can relate within a transaction (caller and callee,
siblings, caller and listener). With the options `Independent` both inner calls take connections of
their own while the outer one keeps its: when `startTransaction()` of the first fails and leaks its
connection, the pool of two is exhausted and the second waits (`Exhausted`). The
instance has one fault, since a second one meets a transaction that has already failed; the
inductive invariant was also checked with two faults and more options.

`CallsSettle` assumes that the database and the event loop answer (`WF` of `Step`) and that methods
and listeners end; no fault is assumed to happen or not. It excepts `Exhausted`: all connections
leaked by failed `startTransaction()` calls or held by calls that wait for a second one.

**What they show.** Outcomes and hooks agree under every combination of thrown errors, refused and
unanswered commits, with one exception the options ask for: if errors of the database do not roll
back, a second `COMMIT` after a refused one succeeds without effect, and AFTER_COMMIT runs. Two
more things the model has and no run is about: the commit in the catch block skips BEFORE_COMMIT;
and with `Concurrent` calls `Atomic` fails, since a savepoint covers whatever is
written on the shared connection while it is set, so nested calls in a `Promise.all` undo each
other's writes. Further behaviour that the properties except, and a user should know: a runner
whose `startTransaction()` failed is never released (`Leaked`); a listener of AFTER_COMMIT that
calls a `REQUIRED` method joins the finished transaction and writes outside of any; an AFTER_COMMIT
event of a nested call whose savepoint was rolled back is delivered; an event that is published by
a call of an AFTER_COMPLETION listener joins a transaction with no phase left and may never be
delivered; with Mongoose, AFTER_COMMIT is
delivered twice when a hook throws an error that does not roll back.

**Proofs** (`TransactionProofs.tla`, for any calls, callers, options, listeners, pool, faults, and
with `Concurrent` calls). The inductive invariant `TransactionInv` has these parts: `MarksInLog`
(savepoint marks grow and lie within the log, else rolling back to one would not be typed),
`Contexts` (a call that has begun has a context, that of a call which began a transaction, and
synchronizations are registered with the transaction of their publisher), `Stages` (what is known of
the database at each place of `execute()`), `AllTold` (what was delivered is true), `AllHolding`
and `Results`. Each action changes only its own call's stage (`Local`), so a step is one case per
action. From it follow `TransactionTypes`, `ListenersToldTruth`, `ConnectionsAreReturned`,
`ResultsTellOutcome`, and `OutcomesAreFinal`: whatever `execute()` asks afterwards, an outcome does
not change.

Two properties need the tree of calls (`TransactionTreeProofs.tla`). `TreeInv` adds to
`TransactionInv` how a call stands to its caller (`CallTree`: the caller is where its options say,
shares its context if the call joins or is nested, and waits for it) and that calls which have begun
do not call each other in a circle (`Grounded`).

- `EventsAreDelivered`: `DeliveredOnce`, if no call is made by a listener of AFTER_COMPLETION
  (`Quiet`; their events are lost, see above). Nobody publishes in the last phase (`NoneLate`);
  a call has as many synchronizations of a phase as listeners (`Published`); and at each place of
  `execute()` a call has been told exactly as often as the loop has come past its synchronizations
  (`Deliveries`).
- `TransactionsAreAtomic`: `Atomic`, if callbacks await their calls (`~Concurrent`; it fails
  otherwise, see above). The calls that go on in a transaction then form a chain (`Chain`) and their
  transaction is in its callback (`Joined`). A savepoint of `m` parts the log into the writes made
  before and those of the calls below `m` (`Savepoints`); the log has the writes of those who have
  written and are not undone, and what is persisted is the log of the committed (`Written`).

`CallsSettle` is liveness.

## 6. The cache (`Cacheable.tla`)

**State.** A call `c` is one invocation of a decorated method: `op[c]` is the method and its
arguments, `stage[c]` the place in its wrapper, `result[c]` what it has got so far. `lookup[c]` and
`answer[c]` are the promise of its `cache.get()`, `pending[k]` is `pendingCacheMap`, and `awaits[c]`
the call whose promise `c` awaits. `dels[c]` are deletions under way, `cache` and `mortal` the
entries of the store and which of them have a ttl, `data` the records behind the methods, in
versions. `clean`, `floor` and `seen` are history: which puts and evictions ran without another call
of their keys, and what a later call must therefore see.

**Actions.** `wrapWithCacheable()` with `fetchCachedValue()`: `AskCache` or `ShareLookup`, then
`CacheAnswers` or `LookupFails` and `Resume`, one step for each call that awaits the promise;
`Method`, `MethodThrows`, `Store`, `StoreFails`. `wrapMethodWithCachePut()`: `CallPut` and the same
end. `wrapMethodWithCacheEvict()`: `CallEvict`, `Delete`, `DeleteFails`, `Method`, `EvictReturns`.
`CallRejects` is a key builder that throws. `Expire` is the store's. Keys are composed as
`generateComposedKey()` does, from namespace, builder, or method name and arguments.

**Runs.**

| Run | Instance | Shows |
|---|---|---|
| `cacheable` | 3 calls of four methods, one namespace, 1 failing request, a ttl on every key; fair | `PendingIsLive`, `OwnValue`, `ReadsSeeWrites`, `StaleEntriesGo`, `CallsSettle`, types |
| `cache_evict` | `MCEvict`: the `ProductService` of `example/cacheable`, with its decorators read by the code's accessor | violates `EvictedBeforeMethod` |

Three calls are an owner of a lookup, one that shares it and a writer, or an eviction between two
reads; the records are one that is cached under two names and one that must not be mixed up with it.
One failing request meets every place a request is made.

**What they show.** A finished lookup is never found in the map, although every sharer deletes
whatever is registered (`PendingIsLive`). What an undisturbed put or eviction has written is seen by
later calls (`ReadsSeeWrites`); a method that overlaps an eviction may write back the old value
afterwards, and only the ttl ends that (`StaleEntriesGo`; without a ttl it stays for good).
Finding: `@CacheEvict({ key })` stores the key where `getAllCacheEvictMetadata()` looks for an object
with a `key`, so the wrapper deletes the key generated from the evicting method's own name, and the
declared entry stays.

**Fairness.** Promises of the cache are settled and the event loop goes on (`WF` of `Answers` and
`Runs`), and the store expires entries (`WF` of `Expire`). Nobody has to call.

**Proofs** (`CacheableProofs.tla`, for any methods, keys, records, calls and faults).
`CacheInv` is inductive. Its parts: which kinds of call are at which stage (`Kinds`); a lookup is of
the key of all who await it, and has an answer only once the cache has given one (`Lookups`); what is
registered is live (`PendingIsLive`); a call in `clean` shares no key with another call under way
(`Alone`) and, if it evicts, finds its keys empty when its method runs (`Emptied`); and the floor of a
key is never above the version in the source, in the cache, in the answer of a lookup that is
awaited, or in a result on its way to the cache (`FloorBelow...`). The last is what makes
`ReadsSeeWrites` an invariant of steps: a floor is raised only by a clean call (`Raises`), which by
`Alone` no reader overlaps, the cache changes only to results on their way or to nothing (`Fills`),
and the source only goes forward (`Renews`). Proved from it: `CacheTypes`, `PendingHolds`,
`ReadsHold`. `OwnValueHolds` needs more than the code gives: `KeysApart`, that operations which
share a key are about the same record. Nothing in the package sees to that: without `options.key`
the key is the name of the method with its arguments, in whatever class (the instance of the run
keeps two such methods apart by a namespace).

## 7. The HTTP client (`Fetch.tla`)

`Fetch.tla` models one call of `FetchService.request()` with `executeRequest()`, and what
`FeignFeatureDecoration` and `defaultFeignFetcher` make of a declared method. Calls share nothing
that changes.

**State.** `asked` is the call: path, options and the fetcher. `attempt` counts retries; `timer` is
the timer of the attempt and `aborted` the signal of the caller; `sent` are the attempts whose
request has gone out and `answers` what the server has done, whenever it likes, also for attempts
that were given up. `response`, `error` and `stage` are the locals of `request()`. **Actions** follow
the code: `NoAttempt`, `BuildUrlThrows`, `Begin`, `RequestThrows`, `InterceptorThrows`, `Send`,
`Abort`, `Respond`, `Accept`, `ReadBody`, `Unparsable`, `HttpError`, `Delayed`; the environment is
`NetworkFails`, `Serve`, `TimerFires` and `CallerAborts`. The request is built by operators
(`DecorateFetch`, `ResolvePathParams`, `ParseQueryString`, `SafeParseRequestBody`); a path is a
sequence of segments, a query a set of pairs.

`FeignExample.tla` has the clients and the service of `example/feign`, `JsonServer.tla` the calls its
two controllers make, each with the resource that its route names.

**Run.** `fetch`: every such call for an ordinary and a falsy id, and seven more (a signal of the
caller, no base URL, a negative `retryCount`, no timeout, a form, a missing argument, an unregistered
client); statuses 200, 404 and 503; up to two retries. Two retries meet a timer left over from the
attempt before, and an answer to an attempt that is two back.

**What it shows.** The outcome is that of the last attempt (`OutcomeKnown`), a 4xx is final
(`RefusalIsFinal`), a request is what its declaration says (`SentAsAsked`), and a call settles except in
two places (`CallSettles`): a signal of the caller takes the place of the timer's, so that such a
call waits for its response without limit, and the reading of a body has none either. A falsy path
parameter leaves its placeholder in the URL; the fallback fetcher, which serves unregistered names,
neither retries nor times out and is the only one to use `@FeignClient({ url })`.

**Fairness.** The program and its timers go on. Nothing is assumed of the server or the network.

**Proofs** (`FetchProofs.tla`, for any calls, fetchers and statuses).
`FetchAssumption` says what a call is, that its retry count is a number, and that the fallback fetcher
does not retry. `FetchInv` is inductive: an attempt at a delay is below the retry count, one that waits
for its response has been sent (`Stages`); the response at hand, and the status that is thrown, are
the server's answer to this attempt (`Answered`); a refusal is of this attempt and is being read or
has been thrown (`Refused`). One lemma covers every step that throws (`ThrowsInv`). Proved from it:
`FetchTypes`, `OutcomeHolds` and `RefusalHolds`. `SentAsAsked`
compares a request with the target that the run states for each of its calls: it is about these calls,
and stays with TLC.

## 8. Decorators, modules and applications

`Decorators.tla` has the decorators as the metadata they attach, the accessors that read it and what
each explorer does with a method: a method is the sequence of its wrappers. `Wiring.tla` has the
modules of all packages and what NestJS makes of a tree of modules: scan order, resolution of tokens
through imports, exports and global modules, or refusal (`Application`). The dependency injection of
NestJS is external, modelled from how the packages rely on it. `Examples.tla` has the services of
the example applications.

`Bootstrap.tla` is the state machine. **State:** the `process` (applications created one after the
other) and how far it is (`app`, `phase`, `next`); `rules`, what the registry has collected;
`initialized`, a static field that outlives an application; `impl`, the wrappers of every method;
`classLevel`, the class options a transactional explorer has seen; `listeners` and `interceptors`,
bags of registrations; `container` is the application that NestJS has built of the tree. **Actions:** `Refuse`, `Compose`, `RegistryInit`, `EngineInit`, `EngineSkips`,
`PassOver` and `Explore` (every rule's `onProvider`, then every rule's `onMethod` for each method),
`Finish`, `NextApp`. A process is sequential; there is no fairness, the properties are of safety.
`AppsAssumption` says what NestJS makes of modules: a class makes an object once, and what else
stands for the object, an alias or a factory, has a metatype without decorators.

`Routing.tla` adds where a write goes that a decorated method makes: through the proxy of
`TransactionalProxyFactory` and `proxyResource()` of its adapter, or straight to the resource. Its
variable `stack` holds the methods that run, each with the `this` and the transaction that its
wrappers have left it; `Invoke`, `CallMethod` and `Return` call the methods of an application that is
ready, in every chain the bodies allow, up to `MaxDepth` (6 in the run, longer than the longest chain
of the examples; any depth in the proof).

**Runs.**

| Run | Instance | Shows |
|---|---|---|
| `bootstrap` | the 7 example applications and 15 others, each alone; pairs of 5 of them in one process; calls up to 6 methods deep | `DeclaredInEffect`, `DecoratedOnce`, `WritesJoin`, `ExamplesWork`, types |
| `documented_use` | one process: the modules of two READMEs, then the Redlock example twice | violates `DocumentedUseWorks` |
| `lock_lost` | the Redlock example, and an application with locks, a cache and transactions | violates `LockedWhenInvoked` |

The other applications are those the READMEs describe and the ways the features can meet: two
features on a method, two adapters, an alias before or after its class, a factory, interceptors on
two clients, a service in front of the services of the examples.

`ExamplesWork` says that NestJS starts every example and that each decorated method of their providers
has a wrapper: it ties `Wiring`, which decides what is visible where, to the engine. `DocumentedUseWorks`
is what the documentation says of three uses that fail in the code, and asks for one of them to work:
a `RedisModule` with an `injectionToken` (`redis/README.md:106-124`) exports a token it does not
provide; a `RedlockModule` beside a `RedisModule` (`distribution-redlock/README.md:64-80`) cannot see the
client it injects; and in the second application of a process, which the engine leaves alone because
`initialized` is static, a method with `@DistributionLock` does not lock
(`distribution-lock.decorator.ts:9-10`). `DeclaredInEffect` and `DecoratedOnce` are about an application
that the engine has explored, and say nothing of a second one.

**What they show.** One feature per method works, also behind aliases and across modules, and the
writes of transactional methods join their transaction through any chain of injected services. What
the properties except, and a user should know: of two features on one method the explorer that runs
last wins (finding `lock_lost`); a feign method ignores `@Cacheable` for the same reason; a second
application in the same process is not decorated at all (finding `documented_use`); an object met first through an alias gets
the options of its class around the wrapper it already has, and a listener once per token; options
of a class are not seen for an instance that a factory makes, and neither is `@FeignClient`; a request
of a class with options of transactions has lost `@NoTransactional` and `@TransactionalEventListener`
by the time they are looked for, because the wrapper of the request has no metadata; an alias adds an
event wrapper to a method that had none for want of an adapter; a method under a lock or a cache,
called from a transactional one, leaves the transaction; two adapters share one context, so one joins
the other's transaction. Of the other applications four do not start: the two of the READMEs (finding
`documented_use`), `RedlockModule.register()` without `global` under a lock module, and one without clients.

**Proofs** (`BootstrapProofs.tla`, for any applications, explorers, aliases, processes and depths of
calls that satisfy `AppsAssumption`).
The properties are about a state that is ready; what makes them true is how it was reached.
`BootstrapInv` is inductive and says it for every state before: `impl` has the methods of the objects
and nothing else, and `rules` are objects of the application (`ControlInv`); a method is as written until
an entry of its object has been explored (`WrappersOk`), has what its decorators ask for once an entry
has been explored that can give it, and is then left alone by the entries that follow, since a wrapper
has no metadata (`Settled`); a listener is counted at most once for each entry explored so far, and an
interceptor once, when its class was (`ListenersInv`, `InterceptorsInv`). The exceptions of
`DeclaredInEffect` are where `Settled` fails; two of them were found by this proof, and the
applications `clients` and `noAdapter` of the run reach them.
`RoutingInv` adds `FramesOk`: a method on the stack of a chain that `WritesJoin` is about runs with a
proxy of the only adapter in a transaction of this adapter. Proved are `Bootstraps` and `Routes`, which
state the two invariants; `BootstrapIsTyped`, `WhatIsDeclaredIsInEffect` and `NothingIsDecoratedTwice`,
as theorems of `Spec`; and `TransactionalWritesJoin`, of `RoutingSpec`.

The explorers run in folds over a sequence of rules, and the wrappers of a method are passed in one.
What a fold of the community modules computes for a sequence of any length is proved by induction,
in the first part of the module: the induction theorems of the library cannot be instantiated by the
provers, but that every non-empty set of numbers has a least element can be, with the set of lengths
for which the statement fails. `Decoration`, `Collection` and `Passage` are such lemmas.

`ExamplesWork` is about the applications of the run alone, and `Wiring` searches their trees of modules with recursive operators: TLC checks it.

## 9. Not modelled, not proved

- The construction of Redis clients and PostgreSQL pools, logging, entities, schemas, controllers
  and start-up files of the examples: I/O and data without behaviour of their own.
- The `ResourceLockedException` that the `distribution-lock` decorator swallows, whoever throws it.
- Providers made per request, and `useValue` providers beyond their being passed over.
- `deepMerge` is modelled for the shape of a dynamic module, not for arbitrary objects.
- Concurrent calls within one transaction are in the model (`Concurrent`) and in the proofs, except
  that of `TransactionsAreAtomic`; no run has them.
- Conversions that are taken to be injective: `hashKey()` of the advisory locks, where two keys with one
  hash would refuse each other (`KeySet`), and `namespace:key` of the cache, where a `:` in a namespace or
  key can make two keys one (`GenerateComposedKey`).
- `retryCount: -1` of Redlock, which retries without end (`Limit`): every instance has a last attempt.
  The theorems of safety hold for any number of them.
- A statement that fails on a live connection. On PostgreSQL it aborts the transaction, and when the method
  swallows the error, `COMMIT` answers as if it had succeeded and rolls back. `Write` never fails there, so
  `EventsMatchOutcome` and `ResultMatchesOutcome` are about transactions without such a statement.
- A response interceptor that returns another response, with another status (`Accept` passes it or throws).
- Behaviour that a property excepts because it is what the code does, and that no other property rules
  out, has a note in the list of hazards: what a throwing "acquired" listener or a failing advisory
  `acquire()` leaves locked, handlers whose connection dropped, nested calls in flight together, writes of
  AFTER_COMMIT listeners, calls that wait for a body or with a signal of their own, falsy path parameters,
  methods called through a lock or cache wrapper, two adapters.
- Model-checked only: `SentAsAsked` and `ExamplesWork`, which are about the calls and applications
  that their runs name (`ExamplesWork` also reaches recursive operators), and all liveness.
