------------------------------ MODULE Transaction ------------------------------
(***************************************************************************)
(* Declarative transactions: execute() of the TypeORM and the Mongoose     *)
(* adapter (packages/transactional-typeorm, packages/transactional-        *)
(* mongoose), which have the same structure, with the context, the         *)
(* synchronizations and the event publisher of packages/transactional.     *)
(*                                                                         *)
(* A call stands for one execute() of one @Transactional method and, when  *)
(* it runs in a transaction of its own, for that transaction.  Its         *)
(* callback writes, publishes an event and makes further calls.            *)
(*                                                                         *)
(* External and modelled from their use: the database, the connection pool *)
(* of TypeORM, commitTransaction() and rollbackTransaction() of a          *)
(* QueryRunner (which throw unless its transaction is active) and          *)
(* commitTransaction() and abortTransaction() of a ClientSession (which    *)
(* may be committed again, and not aborted after a commit).                *)
(***************************************************************************)
EXTENDS Integers, Sequences, FiniteSets

CONSTANTS
  Calls,       \* executions of transactional methods
  NoCall,      \* no call: the caller of a top-level call, no transaction
  Caller,      \* Caller[c]: the call in which c is made
  Listeners,   \* Listeners[c]: the phases of the listeners of c's event, and
               \* "hook" for a synchronization of the user
  Adapters,    \* adapters to consider
  Options,     \* options of the calls to consider
  PoolSize,    \* connections TypeORM may have
  Concurrent,  \* may a callback make calls together, before it awaits them?
  MaxFaults    \* bound: dropped connections, refused or unanswered requests

Errors == {"app", "db", "hook"}
Phases == {"BEFORE_COMMIT", "AFTER_COMMIT", "AFTER_ROLLBACK", "AFTER_COMPLETION"}

(* The options of execute(), and where in its caller a call is made.       *)
CallOptions == [propagation : {"REQUIRED", "REQUIRES_NEW", "NESTED"},
                rollbackOn : SUBSET Errors,
                during : {"body"} \union Phases]

ASSUME TransactionAssumption ==
  /\ NoCall \notin Calls
  /\ Caller \in [Calls -> Calls \union {NoCall}]
  /\ Listeners \in [Calls -> Seq(Phases \union {"hook"})]
  /\ Adapters \subseteq {"typeorm", "mongoose"}
  /\ Options \subseteq [Calls -> CallOptions]
  /\ PoolSize \in Nat /\ MaxFaults \in Nat
  /\ Concurrent \in BOOLEAN

VARIABLES
  adapter, options,  \* chosen at the start
  pc,         \* pc[c]: where execute() stands
  tx,         \* tx[c]: the transaction in the context of c's callback
  error,      \* error[c]: the error being handled, or thrown
  did,        \* did[c]: what c's callback has done
  db,         \* db[d]: the transaction in the database
  client,     \* client[d]: what the QueryRunner or ClientSession thinks of it
  broken,     \* transactions whose connection has dropped
  log,        \* log[d]: who wrote in d
  savepoints, \* savepoints[d]: by whom, and how long the log was
  persisted,  \* calls whose write is in the database
  undone,     \* calls whose savepoint was rolled back (history)
  syncs,      \* syncs[d]: the synchronizations registered with d
  at,         \* at[d]: the one whose hook is next
  delivered,  \* delivered[c][p]: how often c's event reached its listener
  held,       \* calls that hold a connection or session
  faults

dbVars == <<db, client, broken, log, savepoints, persisted, undone>>
hookVars == <<syncs, at, delivered>>
vars == <<adapter, options, pc, tx, error, did, dbVars, hookVars, held, faults>>

Init ==
  /\ adapter \in Adapters /\ options \in Options
  /\ pc = [c \in Calls |-> "idle"]
  /\ tx = [c \in Calls |-> NoCall]
  /\ error = [c \in Calls |-> "none"]
  /\ did = [c \in Calls |-> {}]
  /\ db = [c \in Calls |-> "none"]
  /\ client = [c \in Calls |-> "none"]
  /\ broken = {}
  /\ log = [c \in Calls |-> << >>]
  /\ savepoints = [c \in Calls |-> << >>]
  /\ persisted = {}
  /\ undone = {}
  /\ syncs = [c \in Calls |-> << >>]
  /\ at = [c \in Calls |-> 1]
  /\ delivered = [c \in Calls |-> [p \in Phases |-> 0]]
  /\ held = {}
  /\ faults = 0

Over == {"returned", "threw"}

Fault == faults < MaxFaults /\ faults' = faults + 1

(* Where execute() may stand. *)
Places == {"idle", "connecting", "starting", "savepoint", "body", "releasing", "undoing",
           "commit", "rollback", "closing"} \union Phases \union Over

ShouldRollback(c, e) == e \in options[c].rollbackOn

-----------------------------------------------------------------------------
(* execute() *)

(* c awaits a call made in its callback or by one of its listeners. *)
Busy(c) == \E k \in Calls : Caller[k] = c /\ pc[k] \notin Over \union {"idle"}

(* The hook that d has come to is a listener of the current phase. *)
Listening(d) == at[d] \in DOMAIN syncs[d] /\ syncs[d][at[d]].phase = pc[d]

Callable(c) ==
  /\ pc[c] = "idle"
  /\ LET p == Caller[c] IN
       p # NoCall => /\ pc[p] = options[c].during
                     /\ Concurrent \/ ~Busy(p)
                     /\ pc[p] = "body" \/ Listening(p)

(* The transaction in the context that c is called in. *)
Context(c) == IF Caller[c] = NoCall THEN NoCall ELSE tx[Caller[c]]

Released(d) == pc[d] \in Over

Joins(c) ==
  /\ Context(c) # NoCall
  /\ \/ options[c].propagation = "REQUIRED"
     \/ options[c].propagation = "NESTED" /\ adapter = "mongoose"

Nests(c) ==
  /\ Context(c) # NoCall /\ ~Released(Context(c))
  /\ options[c].propagation = "NESTED" /\ adapter = "typeorm"

(* c's callback runs in a savepoint. *)
InSavepoint(c) == tx[c] # c /\ options[c].propagation = "NESTED" /\ adapter = "typeorm"

Execute(c) ==
  /\ Callable(c)
  /\ tx' = [tx EXCEPT ![c] = IF Joins(c) \/ Nests(c) THEN Context(c) ELSE c]
  /\ pc' = [pc EXCEPT ![c] =
       IF Joins(c) THEN "body" ELSE IF Nests(c) THEN "savepoint" ELSE "connecting"]
  /\ UNCHANGED <<adapter, options, error, did, dbVars, hookVars, held, faults>>

-----------------------------------------------------------------------------
(* The callback. *)

InBody(c) == pc[c] = "body" /\ (Concurrent \/ ~Busy(c))

(* Outside a transaction that is active a write is persisted at once.      *)
Write(c) ==
  LET d == tx[c] IN
  /\ InBody(c) /\ "write" \notin did[c] /\ d \notin broken /\ ~Released(d)
  /\ did' = [did EXCEPT ![c] = @ \union {"write"}]
  /\ IF db[d] = "active"
     THEN log' = [log EXCEPT ![d] = Append(@, c)]
          /\ UNCHANGED persisted
     ELSE persisted' = persisted \union {c} /\ UNCHANGED log
  /\ UNCHANGED <<adapter, options, pc, tx, error, db, client, broken, savepoints, undone, hookVars,
                 held, faults>>

(* publish(), and addSynchronization() of the user. *)
Publish(c) ==
  LET d == tx[c] IN
  /\ InBody(c) /\ "publish" \notin did[c]
  /\ did' = [did EXCEPT ![c] = @ \union {"publish"}]
  /\ syncs' = [syncs EXCEPT ![d] =
       @ \o [i \in DOMAIN Listeners[c] |-> [call |-> c, phase |-> Listeners[c][i]]]]
  /\ UNCHANGED <<adapter, options, pc, tx, error, dbVars, at, delivered, held, faults>>

FaultyRaise(c, e) ==
  /\ error' = [error EXCEPT ![c] = e]
  /\ pc' = [pc EXCEPT ![c] = IF ShouldRollback(c, e) THEN "rollback" ELSE "commit"]
  /\ at' = [at EXCEPT ![c] = 1]

(* An error inside the try block is caught, one in the catch block is not. *)
Raise(c, e) ==
  /\ error' = [error EXCEPT ![c] = e]
  /\ pc' = [pc EXCEPT ![c] =
       IF error[c] # "none" THEN "closing"
       ELSE IF ShouldRollback(c, e) THEN "rollback" ELSE "commit"]
  /\ at' = [at EXCEPT ![c] = 1]

(* The body rejects with an error of its own, of the database, or of a     *)
(* call it made; it may also have handled the latter.                      *)
Rejects(c, e) ==
  \/ e = "app"
  \/ e = "db" /\ tx[c] \in broken
  \/ \E k \in Calls : Caller[k] = c /\ pc[k] = "threw" /\ error[k] = e

BodyReturns(c) ==
  /\ pc[c] = "body" /\ ~Busy(c)
  /\ pc' = [pc EXCEPT ![c] = IF tx[c] = c THEN "BEFORE_COMMIT"
                             ELSE IF InSavepoint(c) THEN "releasing" ELSE "returned"]
  /\ UNCHANGED <<adapter, options, tx, error, did, dbVars, hookVars, held, faults>>

BodyThrows(c, e) ==
  /\ pc[c] = "body" /\ ~Busy(c) /\ Rejects(c, e)
  /\ IF tx[c] = c
     THEN Raise(c, e)
     ELSE /\ error' = [error EXCEPT ![c] = e]
          /\ pc' = [pc EXCEPT ![c] =
               IF ~InSavepoint(c) THEN "threw"
               ELSE IF ShouldRollback(c, e) THEN "undoing" ELSE "releasing"]
          /\ UNCHANGED at
  /\ UNCHANGED <<adapter, options, tx, did, dbVars, syncs, delivered, held, faults>>

-----------------------------------------------------------------------------
(* executeNested() *)

Has(c) == \E i \in DOMAIN savepoints[tx[c]] : savepoints[tx[c]][i].call = c
Position(c) == CHOOSE i \in DOMAIN savepoints[tx[c]] : savepoints[tx[c]][i].call = c

(* A statement about savepoints succeeds in a transaction that is active. *)
Answers(d) == db[d] = "active" /\ d \notin broken

SetSavepoint(c) ==
  /\ pc[c] = "savepoint"
  /\ IF Answers(tx[c])
     THEN /\ savepoints' = [savepoints EXCEPT ![tx[c]] =
               Append(@, [call |-> c, mark |-> Len(log[tx[c]])])]
          /\ pc' = [pc EXCEPT ![c] = "body"]
          /\ UNCHANGED error
     ELSE /\ pc' = [pc EXCEPT ![c] = "threw"]
          /\ error' = [error EXCEPT ![c] = "db"]
          /\ UNCHANGED savepoints
  /\ UNCHANGED <<adapter, options, tx, did, db, client, broken, log, persisted, undone,
                 hookVars, held, faults>>

(* RELEASE SAVEPOINT also forgets the savepoints set after it.  Inside the *)
(* try block its own failure is caught.                                    *)
ReleaseSavepoint(c) ==
  LET d == tx[c] IN
  /\ pc[c] = "releasing"
  /\ IF Answers(d) /\ Has(c)
     THEN /\ savepoints' = [savepoints EXCEPT ![d] = SubSeq(@, 1, Position(c) - 1)]
          /\ pc' = [pc EXCEPT ![c] = IF error[c] = "none" THEN "returned" ELSE "threw"]
          /\ UNCHANGED error
     ELSE /\ error' = [error EXCEPT ![c] = "db"]
          /\ pc' = [pc EXCEPT ![c] =
               IF error[c] # "none" THEN "threw"
               ELSE IF ShouldRollback(c, "db") THEN "undoing" ELSE "releasing"]
          /\ UNCHANGED savepoints
  /\ UNCHANGED <<adapter, options, tx, did, db, client, broken, log, persisted, undone,
                 hookVars, held, faults>>

FaultyRollbackToSavepoint(c) ==
  /\ pc[c] = "undoing"
  /\ pc' = [pc EXCEPT ![c] = "threw"]
  /\ undone' = undone \union {c}
  /\ UNCHANGED <<adapter, options, tx, error, did, db, client, broken, log, savepoints,
                 persisted, hookVars, held, faults>>

RollbackToSavepoint(c) ==
  LET d == tx[c] IN
  /\ pc[c] = "undoing"
  /\ pc' = [pc EXCEPT ![c] = "threw"]
  /\ IF Answers(d) /\ Has(c)
     THEN /\ log' = [log EXCEPT ![d] = SubSeq(@, 1, savepoints[d][Position(c)].mark)]
          /\ savepoints' = [savepoints EXCEPT ![d] = SubSeq(@, 1, Position(c))]
          /\ undone' = undone \union {c}
          /\ UNCHANGED error
     ELSE error' = [error EXCEPT ![c] = "db"] /\ UNCHANGED <<log, savepoints, undone>>
  /\ UNCHANGED <<adapter, options, tx, did, db, client, broken, persisted, hookVars, held, faults>>

-----------------------------------------------------------------------------
(* runInNewTransaction() and runInNewSession() *)

Connect(c) ==
  /\ pc[c] = "connecting"
  /\ adapter = "typeorm" => Cardinality(held) < PoolSize
  /\ held' = held \union {c}
  /\ pc' = [pc EXCEPT ![c] = "starting"]
  /\ UNCHANGED <<adapter, options, tx, error, did, dbVars, hookVars, faults>>

ConnectFails(c) ==
  /\ pc[c] = "connecting" /\ Fault
  /\ pc' = [pc EXCEPT ![c] = "threw"]
  /\ error' = [error EXCEPT ![c] = "db"]
  /\ UNCHANGED <<adapter, options, tx, did, dbVars, hookVars, held>>

StartTransaction(c) ==
  /\ pc[c] = "starting"
  /\ db' = [db EXCEPT ![c] = "active"]
  /\ client' = [client EXCEPT ![c] = "active"]
  /\ pc' = [pc EXCEPT ![c] = "body"]
  /\ UNCHANGED <<adapter, options, tx, error, did, broken, log, savepoints, persisted, undone,
                 hookVars, held, faults>>

(* The QueryRunner is not released: this is before the try block.  (With   *)
(* MongoDB startTransaction() asks nobody.)                                *)
StartFails(c) ==
  /\ pc[c] = "starting" /\ adapter = "typeorm" /\ Fault
  /\ pc' = [pc EXCEPT ![c] = "threw"]
  /\ error' = [error EXCEPT ![c] = "db"]
  /\ UNCHANGED <<adapter, options, tx, did, dbVars, hookVars, held>>

Writes(d) == {log[d][i] : i \in DOMAIN log[d]}

(* The database commits d. *)
Commits(d) ==
  /\ db' = [db EXCEPT ![d] = "committed"]
  /\ persisted' = persisted \union Writes(d)

FaultyCommit(c) ==
  /\ pc[c] = "commit"
  /\ client[c] = "active" \/ (adapter = "mongoose" /\ client[c] = db[c])
  /\ pc' = [pc EXCEPT ![c] = "AFTER_COMMIT"]
  /\ client' = [client EXCEPT ![c] = "committed"]
  /\ IF db[c] = "active" THEN Commits(c) ELSE UNCHANGED <<db, persisted>>
  /\ UNCHANGED <<adapter, options, tx, error, did, broken, log, savepoints, undone,
                 hookVars, held, faults>>

(* TypeORM sends COMMIT, also after one that was refused: then it changes  *)
(* nothing.  A ClientSession that has committed may commit again.          *)
Commit(c) ==
  /\ pc[c] = "commit"
  /\ \/ /\ client[c] = "active" /\ c \notin broken
        /\ IF db[c] = "active" THEN Commits(c) ELSE UNCHANGED <<db, persisted>>
     \/ /\ adapter = "mongoose" /\ client[c] = "committed" /\ db[c] = "committed"
        /\ UNCHANGED <<db, persisted>>
  /\ pc' = [pc EXCEPT ![c] = "AFTER_COMMIT"]
  /\ client' = [client EXCEPT ![c] = "committed"]
  /\ UNCHANGED <<adapter, options, tx, error, did, broken, log, savepoints, undone,
                 hookVars, held, faults>>

(* commitTransaction() rejects: it has nothing to commit or no connection. *)
(* (A ClientSession that could not send it counts as committed.)           *)
CommitImpossible(c) ==
  /\ pc[c] = "commit"
  /\ \/ c \in broken
     \/ client[c] # "active" /\ ~(adapter = "mongoose" /\ client[c] = db[c])
  /\ client' = IF adapter = "mongoose" /\ client[c] = "active"
               THEN [client EXCEPT ![c] = "committed"] ELSE client
  /\ Raise(c, "db")
  /\ UNCHANGED <<adapter, options, tx, did, db, broken, log, savepoints, persisted, undone,
                 syncs, delivered, held, faults>>

(* ... or the database rolls back, or commits and the answer is lost.      *)
CommitFails(c) ==
  /\ pc[c] = "commit" /\ client[c] = "active" /\ db[c] = "active" /\ Fault
  /\ \/ /\ db' = [db EXCEPT ![c] = "rolled back"]
        /\ UNCHANGED <<broken, persisted>>
     \/ /\ Commits(c)
        /\ broken' = IF adapter = "typeorm" THEN broken \union {c} ELSE broken
  /\ client' = IF adapter = "mongoose" THEN [client EXCEPT ![c] = "committed"] ELSE client
  /\ Raise(c, "db")
  /\ UNCHANGED <<adapter, options, tx, did, log, savepoints, undone, syncs, delivered, held>>

(* abortTransaction() of MongoDB hides every error but those of its state. *)
CanRollback(c) == client[c] = "active" /\ (adapter = "typeorm" => c \notin broken)

FaultyRollback(c) ==
  /\ pc[c] = "rollback"
  /\ pc' = [pc EXCEPT ![c] = "AFTER_ROLLBACK"]
  /\ client' = [client EXCEPT ![c] = "aborted"]
  /\ IF db[c] = "active" THEN db' = [db EXCEPT ![c] = "rolled back"] ELSE UNCHANGED db
  /\ UNCHANGED <<adapter, options, tx, error, did, broken, log, savepoints, persisted, undone,
                 hookVars, held, faults>>

Rollback(c) ==
  /\ pc[c] = "rollback" /\ CanRollback(c)
  /\ db' = [db EXCEPT ![c] = "rolled back"]
  /\ client' = [client EXCEPT ![c] = "aborted"]
  /\ pc' = [pc EXCEPT ![c] = "AFTER_ROLLBACK"]
  /\ UNCHANGED <<adapter, options, tx, error, did, broken, log, savepoints, persisted, undone,
                 hookVars, held, faults>>

RollbackFails(c) ==
  /\ pc[c] = "rollback" /\ ~CanRollback(c)
  /\ Raise(c, "db")
  /\ UNCHANGED <<adapter, options, tx, did, dbVars, syncs, delivered, held, faults>>

FaultyClose(c) ==
  /\ pc[c] = "closing"
  /\ held' = IF error[c] = "none" THEN held \ {c} ELSE held
  /\ pc' = [pc EXCEPT ![c] = IF error[c] = "none" THEN "returned" ELSE "threw"]
  /\ UNCHANGED <<adapter, options, tx, error, did, dbVars, hookVars, faults>>

(* finally: release() or endSession() *)
Close(c) ==
  /\ pc[c] = "closing"
  /\ held' = held \ {c}
  /\ pc' = [pc EXCEPT ![c] = IF error[c] = "none" THEN "returned" ELSE "threw"]
  /\ UNCHANGED <<adapter, options, tx, error, did, dbVars, hookVars, faults>>

-----------------------------------------------------------------------------
(* invokeBeforeCommit(), invokeAfterCommit(), ...: the hooks of one phase, *)
(* one after the other, also those registered meanwhile.                   *)

(* A hook ends; errors of a listener are logged. *)
RunHook(d) ==
  LET s == syncs[d][at[d]] IN
  /\ pc[d] \in Phases /\ at[d] \in DOMAIN syncs[d] /\ ~Busy(d)
  /\ at' = [at EXCEPT ![d] = @ + 1]
  /\ delivered' = IF Listening(d) THEN [delivered EXCEPT ![s.call][s.phase] = @ + 1]
                  ELSE delivered
  /\ UNCHANGED <<adapter, options, pc, tx, error, did, dbVars, syncs, held, faults>>

HookThrows(d) ==
  /\ pc[d] \in Phases /\ at[d] \in DOMAIN syncs[d] /\ syncs[d][at[d]].phase = "hook"
  /\ Raise(d, "hook")
  /\ UNCHANGED <<adapter, options, tx, did, dbVars, syncs, delivered, held, faults>>

FaultyAfterPhase(p) == IF p = "BEFORE_COMMIT" THEN "commit" ELSE "closing"

AfterPhase(p) ==
  IF p = "BEFORE_COMMIT" THEN "commit"
  ELSE IF p = "AFTER_COMPLETION" THEN "closing" ELSE "AFTER_COMPLETION"

FaultyPhaseEnds(d) ==
  /\ pc[d] \in Phases /\ at[d] \notin DOMAIN syncs[d]
  /\ at' = [at EXCEPT ![d] = 0]
  /\ pc' = [pc EXCEPT ![d] = AfterPhase(pc[d])]
  /\ UNCHANGED <<adapter, options, tx, error, did, dbVars, syncs, delivered, held, faults>>

PhaseEnds(d) ==
  /\ pc[d] \in Phases /\ at[d] \notin DOMAIN syncs[d]
  /\ at' = [at EXCEPT ![d] = 1]
  /\ pc' = [pc EXCEPT ![d] = AfterPhase(pc[d])]
  /\ UNCHANGED <<adapter, options, tx, error, did, dbVars, syncs, delivered, held, faults>>

-----------------------------------------------------------------------------
(* The connection of an active transaction drops; the database rolls back. *)
Drop(d) ==
  /\ db[d] = "active" /\ Fault
  /\ broken' = broken \union {d}
  /\ db' = [db EXCEPT ![d] = "rolled back"]
  /\ UNCHANGED <<adapter, options, pc, tx, error, did, client, log, savepoints, persisted, undone,
                 hookVars, held>>

(* The calls that c is made in, directly or not: the members of every set  *)
(* that has the callers of c and of its own members.                       *)
Callers == [c \in Calls |-> {k \in Calls :
  \A S \in SUBSET Calls : (\A x \in S \union {c} : Caller[x] \in S \union {NoCall}) => k \in S}]

(* A QueryRunner whose startTransaction() failed. *)
Leaked(c) == pc[c] \in Over /\ db[c] = "none"

(* Every connection is lost or held by a call that waits for another one.  *)
Exhausted ==
  /\ adapter = "typeorm" /\ Cardinality(held) = PoolSize
  /\ \A c \in held : Leaked(c) \/ \E k \in Calls : pc[k] = "connecting" /\ c \in Callers[k]

Finished ==
  /\ \A c \in Calls : pc[c] \in Over \union {"idle"} \/ Exhausted
  /\ UNCHANGED vars

Step(c) ==
  \/ SetSavepoint(c) \/ ReleaseSavepoint(c) \/ RollbackToSavepoint(c)
  \/ Connect(c) \/ StartTransaction(c)
  \/ Write(c) \/ Publish(c) \/ BodyReturns(c) \/ \E e \in Errors : BodyThrows(c, e)
  \/ Commit(c) \/ CommitImpossible(c) \/ Rollback(c) \/ RollbackFails(c) \/ Close(c)
  \/ RunHook(c) \/ HookThrows(c) \/ PhaseEnds(c)

Next ==
  \/ \E c \in Calls : \/ Execute(c) \/ Step(c)
                      \/ ConnectFails(c) \/ StartFails(c) \/ CommitFails(c) \/ Drop(c)
  \/ Finished

Spec == Init /\ [][Next]_vars

(* The database and the event loop go on, and every method ends. *)
FairSpec == Spec /\ \A c \in Calls : WF_vars(Step(c))

-----------------------------------------------------------------------------
(* Types of the variables. *)
TypeOK ==
  /\ adapter \in Adapters /\ options \in Options
  /\ pc \in [Calls -> Places]
  /\ tx \in [Calls -> Calls \union {NoCall}]
  /\ error \in [Calls -> Errors \union {"none"}]
  /\ did \in [Calls -> SUBSET {"write", "publish"}]
  /\ db \in [Calls -> {"none", "active", "committed", "rolled back"}]
  /\ client \in [Calls -> {"none", "active", "committed", "aborted"}]
  /\ broken \subseteq Calls /\ persisted \subseteq Calls
  /\ undone \subseteq Calls /\ held \subseteq Calls
  /\ log \in [Calls -> Seq(Calls)]
  /\ savepoints \in [Calls -> Seq([call : Calls, mark : Nat])]
  /\ syncs \in [Calls -> Seq([call : Calls, phase : Phases \union {"hook"}])]
  /\ at \in [Calls -> Nat \ {0}]
  /\ delivered \in [Calls -> [Phases -> Nat]]
  /\ faults \in Nat

(* What the listeners of a phase are told is true: AFTER_COMMIT runs when  *)
(* the transaction has committed (unless rollbackOnError lets an error of  *)
(* the database itself count as success), AFTER_ROLLBACK when it has been  *)
(* rolled back, also after hooks have thrown or a commit has failed.       *)
EventsMatchOutcome == \A c \in Calls : tx[c] # NoCall =>
  LET d == tx[c] IN
  /\ delivered[c]["AFTER_COMMIT"] > 0 =>
       db[d] = "committed" \/ ~ShouldRollback(d, "db")
  /\ delivered[c]["AFTER_ROLLBACK"] > 0 => db[d] = "rolled back"

(* The listeners of c's event for one phase. *)
ListenersOf(c, p) == {j \in DOMAIN Listeners[c] : Listeners[c][j] = p}

(* When a transaction has ended and no hook threw, every event published   *)
(* in it, by itself or by calls that joined it, in the callback or by a    *)
(* listener of AFTER_COMMIT, has reached the listeners of the phases that  *)
(* its outcome calls for: each of them, once.                              *)
DeliveredOnce == \A d \in Calls :
  /\ tx[d] = d /\ error[d] # "hook"
  /\ pc[d] = "returned" \/ (pc[d] = "threw" /\ client[d] = "aborted")
  => \A i \in DOMAIN syncs[d] :
       LET s == syncs[d][i] IN
       s.phase \in {"AFTER_COMPLETION",
                    IF pc[d] = "returned" THEN "AFTER_COMMIT" ELSE "AFTER_ROLLBACK"}
         => delivered[s.call][s.phase] = Cardinality(ListenersOf(s.call, s.phase))

(* c's write happened in a savepoint that was rolled back. *)
Undone(c) == \E k \in {c} \union Callers[c] : k \in undone /\ tx[k] = tx[c]

(* Atomicity: when execute() has settled, what was written in its          *)
(* transaction is in the database if that has committed, and only then;    *)
(* writes in a nested transaction that was rolled back are not, and all    *)
(* other writes are left intact.  (A listener that runs after the end of   *)
(* the transaction writes without one.)                                    *)
Atomic == \A c \in Calls :
  LET d == tx[c] IN
  /\ "write" \in did[c] /\ pc[d] \in Over
  /\ \A k \in {c} \union Callers[c] : options[k].during = "body"
  => (c \in persisted <=> db[d] = "committed" /\ ~Undone(c))

(* The result of execute() tells the outcome of its transaction: it has    *)
(* committed if execute() returns, and it has not if execute() throws (and *)
(* every error rolls back), unless a hook is registered, which may throw   *)
(* after the commit, or the database did not answer.                       *)
ResultMatchesOutcome == \A d \in Calls : tx[d] = d =>
  /\ pc[d] = "returned" => db[d] = "committed"
  /\ /\ pc[d] = "threw" /\ options[d].rollbackOn = Errors /\ faults = 0
     /\ \A i \in DOMAIN syncs[d] : syncs[d][i].phase # "hook"
     => db[d] # "committed"

(* An execute() that has settled has given its connection back, whatever   *)
(* failed, unless startTransaction() failed.                               *)
ConnectionsReturned == \A c \in held : pc[c] \notin Over \/ Leaked(c)

(* Every execute() settles, unless the pool has run out of connections     *)
(* because of leaks or of transactions that wait for a second one.         *)
CallsSettle == \A c \in Calls : pc[c] = "connecting" ~> pc[c] \in Over \/ Exhausted
=============================================================================
