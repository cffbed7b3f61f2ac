-------------------------------- MODULE PgLock --------------------------------
(***************************************************************************)
(* PgLockService of packages/distribution-postgres-advisory-lock: each     *)
(* call of withLock() takes a connection from the pool, locks its          *)
(* resources one after the other with pg_try_advisory_lock, runs the       *)
(* handler, unlocks and gives the connection back.                         *)
(*                                                                         *)
(* External and modelled from their use: the pool of pg (first come, first *)
(* served; a broken connection is replaced when it comes back) and the     *)
(* advisory locks of PostgreSQL, which belong to a session, stack, and go  *)
(* when the session ends.  extend() only returns a handle with another     *)
(* expiration, which nothing reads, and is left out.                       *)
(***************************************************************************)
EXTENDS Integers, Sequences, FiniteSets

CONSTANTS
  Calls,      \* calls of withLock()
  Resources,  \* the keys they lock
  Keys,       \* Keys[c]: the resources of call c, in order
  Conns,      \* the connections of the pool
  NoConn,     \* no connection
  MaxFaults   \* bound: failing queries, dropped connections

ASSUME PgAssumption ==
  /\ Keys \in [Calls -> Seq(Resources)]
  /\ NoConn \notin Conns
  /\ MaxFaults \in Nat

VARIABLES
  locks,      \* locks[s][r]: how often session s holds r
  broken,     \* sessions that have ended
  pool,       \* idle connections
  waiting,    \* calls waiting in pool.connect()
  conn,       \* conn[c]: the client of c
  phase,      \* phase[c]: where withLock() stands
  next,       \* next[c]: the resource acquire() has come to
  unlocking,  \* unlocking[s]: resources whose unlock query waits
  err,        \* err[c]: why acquire() failed
  faults

serverVars == <<locks, broken>>
poolVars == <<pool, waiting, conn>>
vars == <<serverVars, poolVars, phase, next, unlocking, err, faults>>

KeySet(c) == {Keys[c][i] : i \in DOMAIN Keys[c]}

Init ==
  /\ locks = [s \in Conns |-> [r \in Resources |-> 0]]
  /\ broken = {}
  /\ pool = Conns
  /\ waiting = << >>
  /\ conn = [c \in Calls |-> NoConn]
  /\ phase = [c \in Calls |-> "idle"]
  /\ next = [c \in Calls |-> 1]
  /\ unlocking = [s \in Conns |-> << >>]
  /\ err = [c \in Calls |-> "none"]
  /\ faults = 0

-----------------------------------------------------------------------------
(* The pool.                                                               *)

Connect(c) ==
  /\ phase[c] = "idle"
  /\ phase' = [phase EXCEPT ![c] = "connecting"]
  /\ waiting' = Append(waiting, c)
  /\ UNCHANGED <<serverVars, pool, conn, next, unlocking, err, faults>>

Connected(c, s) ==
  /\ phase[c] = "connecting" /\ waiting # << >> /\ c = Head(waiting) /\ s \in pool
  /\ waiting' = Tail(waiting)
  /\ pool' = pool \ {s}
  /\ conn' = [conn EXCEPT ![c] = s]
  /\ phase' = [phase EXCEPT ![c] = "locking"]
  /\ UNCHANGED <<serverVars, next, unlocking, err, faults>>

FaultyConnectFails(c) ==
  /\ phase[c] = "connecting" /\ waiting # << >> /\ c = Head(waiting) /\ faults < MaxFaults
  /\ faults' = faults + 1
  /\ waiting' = Tail(waiting)
  /\ pool' = pool \union {conn[c]}
  /\ phase' = [phase EXCEPT ![c] = "failed"]
  /\ err' = [err EXCEPT ![c] = "connect"]
  /\ UNCHANGED <<serverVars, conn, next, unlocking>>

(* pool.connect() rejects, outside the try block: no client to release. *)
ConnectFails(c) ==
  /\ phase[c] = "connecting" /\ waiting # << >> /\ c = Head(waiting) /\ faults < MaxFaults
  /\ faults' = faults + 1
  /\ waiting' = Tail(waiting)
  /\ phase' = [phase EXCEPT ![c] = "failed"]
  /\ err' = [err EXCEPT ![c] = "connect"]
  /\ UNCHANGED <<serverVars, pool, conn, next, unlocking>>

(* client.release(): back to the pool, as a new session if it is broken *)
GiveBack(c) ==
  /\ pool' = pool \union {conn[c]}
  /\ broken' = broken \ {conn[c]}
  /\ conn' = [conn EXCEPT ![c] = NoConn]
  /\ UNCHANGED waiting

-----------------------------------------------------------------------------
(* acquire(): one query after the other.  Its execution and the handling   *)
(* of its result are one step, as nobody else uses the connection.         *)

(* A session can take a lock that no other session has. *)
Free(s, r) == \A t \in Conns \ {s} : locks[t][r] = 0

FaultyTryLock(c) ==
  LET s == conn[c]  r == Keys[c][next[c]] IN
  /\ phase[c] = "locking" /\ next[c] \in DOMAIN Keys[c] /\ s \notin broken
  /\ locks' = [locks EXCEPT ![s][r] = @ + 1]
  /\ next' = [next EXCEPT ![c] = @ + 1]
  /\ UNCHANGED <<broken, poolVars, phase, unlocking, err, faults>>

TryLock(c) ==
  LET s == conn[c]  r == Keys[c][next[c]] IN
  /\ phase[c] = "locking" /\ next[c] \in DOMAIN Keys[c] /\ s \notin broken
  /\ Free(s, r)
  /\ locks' = [locks EXCEPT ![s][r] = @ + 1]
  /\ next' = [next EXCEPT ![c] = @ + 1]
  /\ UNCHANGED <<broken, poolVars, phase, unlocking, err, faults>>

FaultyAcquireFails(c, why) ==
  /\ phase' = [phase EXCEPT ![c] = "failed"]
  /\ err' = [err EXCEPT ![c] = why]
  /\ UNCHANGED <<serverVars, poolVars, next, unlocking>>

(* The catch block: the client goes back to the pool, with the locks that  *)
(* its session already has.                                                *)
AcquireFails(c, why) ==
  /\ phase' = [phase EXCEPT ![c] = "failed"]
  /\ err' = [err EXCEPT ![c] = why]
  /\ GiveBack(c)
  /\ UNCHANGED <<locks, next, unlocking>>

Locked(c) ==
  /\ phase[c] = "locking" /\ next[c] \in DOMAIN Keys[c] /\ conn[c] \notin broken
  /\ ~Free(conn[c], Keys[c][next[c]])
  /\ AcquireFails(c, "locked")
  /\ UNCHANGED faults

LockQueryFails(c) ==
  /\ phase[c] = "locking" /\ next[c] \in DOMAIN Keys[c]
  /\ \/ conn[c] \in broken /\ UNCHANGED faults
     \/ conn[c] \notin broken /\ faults < MaxFaults /\ faults' = faults + 1
  /\ AcquireFails(c, "error")

-----------------------------------------------------------------------------
(* withLock() *)

(* acquire() returns and the handler starts, unless a listener of the      *)
(* "acquired" event throws: then nothing gives the connection back.        *)
Acquired(c) ==
  /\ phase[c] = "locking" /\ next[c] \notin DOMAIN Keys[c]
  /\ \E p \in {"running", "leaked"} : phase' = [phase EXCEPT ![c] = p]
  /\ UNCHANGED <<serverVars, poolVars, next, unlocking, err, faults>>

FaultyHandlerEnds(c) ==
  /\ phase[c] = "running"
  /\ phase' = [phase EXCEPT ![c] = "releasing"]
  /\ unlocking' = [unlocking EXCEPT ![conn[c]] = Tail(Keys[c])]
  /\ UNCHANGED <<serverVars, poolVars, next, err, faults>>

(* The handler resolves or rejects; release() sends every unlock query at  *)
(* once.  A listener of "released", which is emitted first, may throw.     *)
HandlerEnds(c) ==
  /\ phase[c] = "running"
  /\ \/ /\ phase' = [phase EXCEPT ![c] = "releasing"]
        /\ unlocking' = [unlocking EXCEPT ![conn[c]] = Keys[c]]
     \/ phase' = [phase EXCEPT ![c] = "leaked"] /\ UNCHANGED unlocking
  /\ UNCHANGED <<serverVars, poolVars, next, err, faults>>

(* pg_advisory_unlock; allSettled() hides whether it fails. *)
Unlock(s) ==
  /\ unlocking[s] # << >>
  /\ unlocking' = [unlocking EXCEPT ![s] = Tail(@)]
  /\ \/ /\ s \notin broken
        /\ locks' = [locks EXCEPT ![s][Head(unlocking[s])] = IF @ > 0 THEN @ - 1 ELSE 0]
        /\ UNCHANGED faults
     \/ s \in broken /\ UNCHANGED <<locks, faults>>
     \/ s \notin broken /\ faults < MaxFaults /\ faults' = faults + 1 /\ UNCHANGED locks
  /\ UNCHANGED <<broken, poolVars, phase, next, err>>

(* Every unlock query has settled. *)
Returned(c) ==
  /\ phase[c] = "releasing" /\ unlocking[conn[c]] = << >>
  /\ phase' = [phase EXCEPT ![c] = "done"]
  /\ GiveBack(c)
  /\ UNCHANGED <<locks, next, unlocking, err, faults>>

(* A connection in use drops: PostgreSQL ends the session and its locks.   *)
Drop(s) ==
  /\ faults < MaxFaults /\ s \notin pool /\ s \notin broken
  /\ faults' = faults + 1
  /\ broken' = broken \union {s}
  /\ locks' = [locks EXCEPT ![s] = [r \in Resources |-> 0]]
  /\ UNCHANGED <<poolVars, phase, next, unlocking, err>>

(* Nothing goes on: every call is over or waits for a connection that a    *)
(* throwing listener has kept.                                             *)
Finished ==
  /\ \A c \in Calls : phase[c] \in {"done", "failed", "leaked", "connecting"}
  /\ waiting = << >> \/ pool = {}
  /\ UNCHANGED vars

Next ==
  \/ \E c \in Calls :
       \/ Connect(c) \/ ConnectFails(c) \/ \E s \in Conns : Connected(c, s)
       \/ TryLock(c) \/ Locked(c) \/ LockQueryFails(c)
       \/ Acquired(c) \/ HandlerEnds(c) \/ Returned(c)
  \/ \E s \in Conns : Unlock(s) \/ Drop(s)
  \/ Finished

Spec == Init /\ [][Next]_vars

(* The event loop and the server go on, and every handler ends. *)
Fairness ==
  /\ \A c \in Calls :
       /\ WF_vars(\E s \in Conns : Connected(c, s))
       /\ WF_vars(TryLock(c) \/ Locked(c) \/ LockQueryFails(c))
       /\ WF_vars(Acquired(c)) /\ WF_vars(HandlerEnds(c)) /\ WF_vars(Returned(c))
  /\ \A s \in Conns : WF_vars(Unlock(s))

FairSpec == Spec /\ Fairness

-----------------------------------------------------------------------------
(* Types of the variables. *)
TypeOK ==
  /\ locks \in [Conns -> [Resources -> Nat]]
  /\ broken \subseteq Conns /\ pool \subseteq Conns
  /\ waiting \in Seq(Calls)
  /\ conn \in [Calls -> Conns \union {NoConn}]
  /\ phase \in [Calls -> {"idle", "connecting", "locking", "running", "releasing",
                          "done", "failed", "leaked"}]
  /\ next \in [Calls -> Nat \ {0}]
  /\ unlocking \in [Conns -> Seq(Resources)]
  /\ err \in [Calls -> {"none", "connect", "locked", "error"}]
  /\ faults \in Nat

(* Two handlers with a common key do not run at the same time while the    *)
(* connections of both live, however the pool hands out sessions that      *)
(* earlier calls have left locks on.                                       *)
PgExclusion == \A c, d \in Calls :
  /\ c # d /\ KeySet(c) \intersect KeySet(d) # {}
  /\ phase[c] = "running" /\ phase[d] = "running"
  => conn[c] \in broken \/ conn[d] \in broken

(* An idle connection holds a lock only after an acquire() for it failed   *)
(* or a query failed: a withLock() in which nothing fails leaves nothing.  *)
LeaksOnlyOnError == \A s \in pool, r \in Resources :
  locks[s][r] > 0 => faults > 0 \/ \E c \in Calls : phase[c] = "failed" /\ r \in KeySet(c)

(* Every withLock() ends, unless a listener threw and keeps a connection:  *)
(* no failure and no contention exhausts the pool.                         *)
CallsReturn == \A c \in Calls :
  phase[c] = "connecting" ~> \/ phase[c] \in {"done", "failed"}
                             \/ \E d \in Calls : phase[d] = "leaked"
=============================================================================
