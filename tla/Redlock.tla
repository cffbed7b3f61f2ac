------------------------------- MODULE Redlock -------------------------------
(***************************************************************************)
(* RedlockService of packages/distribution-redlock: acquire(), extend()    *)
(* and release() of one lock per call, each run as a series of attempts    *)
(* that send a Lua script to every Redis node and wait for a quorum of     *)
(* votes.  The processes that call the service share nothing but the       *)
(* nodes.  A call is identified with the random value it writes.           *)
(*                                                                         *)
(* External to the code and modelled from its use: the Redis nodes (keys   *)
(* with a TTL, script cache, restart without persistence) and the ioredis  *)
(* connection, a FIFO queue of commands still waiting for their answer.    *)
(***************************************************************************)
EXTENDS Integers, Sequences, FiniteSets

CONSTANTS
  Nodes,           \* the Redis clients given to the service
  Calls,           \* calls of acquire(), each with its random value
  Resources,       \* the keys that calls lock
  Keys,            \* Keys[c]: the resources of call c
  NoVal,           \* the content of a key that does not exist
  Duration,        \* lock TTL, in ticks
  DriftPercent,    \* driftFactor in hundredths
  Skew,            \* how far a node may expire a key from its nominal time
  MaxAttempts,     \* retryCount + 1
  InitialScripts,  \* scripts that every node has in its cache at the start
  MaxTime,         \* bound: the clock stops here
  MaxRounds,       \* bound: no extend() or release() starts after so many attempts
  MaxFaults,       \* bound: connection failures, resends and restarts
  MaxRestarts      \* bound: nodes that restart

Scripts == {"acquire", "extend", "release"}
Slots == {"lock", "unlock"}
Ballots == {"for", "locked", "error"}

(* Math.round(driftFactor * duration) + 2 *)
Drift == (DriftPercent * Duration + 50) \div 100 + 2

ASSUME ConstantsAssumption ==
  /\ IsFiniteSet(Nodes) /\ Nodes # {}
  /\ Keys \in [Calls -> SUBSET Resources]
  /\ NoVal \notin Calls
  /\ Duration \in Nat \ {0} /\ DriftPercent \in Nat /\ MaxAttempts \in Nat \ {0}
  /\ InitialScripts \subseteq Scripts
  /\ MaxTime \in Nat /\ MaxRounds \in Nat /\ MaxFaults \in Nat /\ MaxRestarts \in Nat

(* The drift allowance covers the error of the nodes' clocks. *)
ASSUME DriftAssumption == Skew \in Nat /\ Skew < Drift

VARIABLES
  now,     \* Date.now() of every process
  val,     \* val[n][r]: the value stored under key r at node n
  ttl,     \* ttl[n][r]: its nominal expiry time
  cached,  \* cached[n]: scripts that EVALSHA finds at node n
  queue,   \* queue[c][n]: commands c sent to n whose answer c has not handled
  phase,   \* phase[c]: where call c stands
  run,     \* run[c][s]: idle, in an attempt, or waiting to retry
  tries,   \* tries[c][s]: attempts made by the current _execute()
  round,   \* round[c][s]: identifies the current attempt among all of c's
  votes,   \* votes[c][s]: the votes of the current attempt
  start,   \* start[c]: when the current lock attempt began
  exp,     \* exp[c]: expiration of the newest handle of c, 0 if invalid
  err,     \* err[c]: the exception acquire() ends with
  lost,    \* nodes that have restarted and lost their keys
  faults   \* connection failures so far

nodeVars == <<val, ttl, cached, lost>>
handleVars == <<phase, exp, err>>
attemptVars == <<run, tries, round, votes, start>>
vars == <<now, nodeVars, queue, handleVars, attemptVars, faults>>

NoVotes == [n \in Nodes |-> "none"]

Command == [script : Scripts, rnd : Nat, raw : BOOLEAN,
            res : Ballots \union {"sent", "noscript"}]

(* acquire() and extend() of a call share a slot, its release the other. *)
SlotOf(script) == IF script = "release" THEN "unlock" ELSE "lock"

FaultyQuorum == Cardinality(Nodes) \div 2
FaultyQuorumTwo == Cardinality(Nodes) \div 2 + 2
Quorum == Cardinality(Nodes) \div 2 + 1

-----------------------------------------------------------------------------
Init ==
  /\ now = 1
  /\ val = [n \in Nodes |-> [r \in Resources |-> NoVal]]
  /\ ttl = [n \in Nodes |-> [r \in Resources |-> 0]]
  /\ cached = [n \in Nodes |-> InitialScripts]
  /\ queue = [c \in Calls |-> [n \in Nodes |-> << >>]]
  /\ phase = [c \in Calls |-> "idle"]
  /\ run = [c \in Calls |-> [s \in Slots |-> "idle"]]
  /\ tries = [c \in Calls |-> [s \in Slots |-> 0]]
  /\ round = [c \in Calls |-> [s \in Slots |-> 0]]
  /\ votes = [c \in Calls |-> [s \in Slots |-> NoVotes]]
  /\ start = [c \in Calls |-> 0]
  /\ exp = [c \in Calls |-> 0]
  /\ err = [c \in Calls |-> "none"]
  /\ lost = {}
  /\ faults = 0

-----------------------------------------------------------------------------
(* The client: _execute() and _attemptOperation().                         *)

(* Attempt k of slot s: one command to every node, behind those already    *)
(* in q, the connections' queues.                                          *)
Attempt(c, s, k, script, q) ==
  /\ run' = [run EXCEPT ![c][s] = "attempt"]
  /\ tries' = [tries EXCEPT ![c][s] = k]
  /\ round' = [round EXCEPT ![c][s] = @ + 1]
  /\ votes' = [votes EXCEPT ![c][s] = NoVotes]
  /\ start' = IF s = "lock" THEN [start EXCEPT ![c] = now] ELSE start
  /\ queue' = [queue EXCEPT ![c] = [n \in Nodes |->
       Append(q[n], [script |-> script, rnd |-> round[c][s] + 1, raw |-> FALSE, res |-> "sent"])]]

Acquire(c) ==
  /\ phase[c] = "idle"
  /\ phase' = [phase EXCEPT ![c] = "acquiring"]
  /\ Attempt(c, "lock", 1, "acquire", queue[c])
  /\ UNCHANGED <<now, nodeVars, exp, err, faults>>

(* extend() refuses an expired handle; one that release() invalidated has  *)
(* expiration 0.  But an extend() that answers after release() returns a   *)
(* valid handle, which can be extended again.                              *)
Extend(c) ==
  /\ run[c]["lock"] = "idle" /\ exp[c] >= now
  /\ round[c]["lock"] < MaxRounds
  /\ Attempt(c, "lock", 1, "extend", queue[c])
  /\ UNCHANGED <<now, nodeVars, handleVars, faults>>

(* release() invalidates the handle before it sends anything, also while   *)
(* an extend() of the same lock is still running; it may be asked again.   *)
Release(c) ==
  /\ phase[c] \in {"held", "released", "unreleased"}
  /\ round[c]["unlock"] < MaxRounds
  /\ phase' = [phase EXCEPT ![c] = "releasing"]
  /\ exp' = [exp EXCEPT ![c] = 0]
  /\ Attempt(c, "unlock", 1, "release", queue[c])
  /\ UNCHANGED <<now, nodeVars, err, faults>>

ScriptOf(c, s) ==
  IF s = "unlock" THEN "release" ELSE IF phase[c] = "acquiring" THEN "acquire" ELSE "extend"

(* The timer between two attempts fires. *)
Retry(c, s) ==
  /\ run[c][s] = "wait"
  /\ Attempt(c, s, tries[c][s] + 1, ScriptOf(c, s), queue[c])
  /\ UNCHANGED <<now, nodeVars, handleVars, faults>>

(* attempts.length < maxAttempts; the cleanup of acquire() never retries. *)
Limit(c) == IF phase[c] = "cleanup" THEN 1 ELSE MaxAttempts
FaultyMayRetry(c, s) == tries[c][s] <= Limit(c)
MayRetry(c, s) == tries[c][s] < Limit(c)

(* The oldest command of c at n has its answer. *)
Answered(c, n) == queue[c][n] # << >> /\ Head(queue[c][n]).res # "sent"

Pop(c, n) == [queue EXCEPT ![c][n] = Tail(@)]

(* That answer is a vote of the attempt slot s is waiting for. *)
Answers(c, n, s) ==
  /\ Answered(c, n)
  /\ LET m == Head(queue[c][n]) IN
       m.res \in Ballots /\ SlotOf(m.script) = s /\ m.rnd = round[c][s]
  /\ run[c][s] = "attempt"

Counted(c, n, s) == [votes[c][s] EXCEPT ![n] = Head(queue[c][n]).res]

QuorumFor(v) == Cardinality({n \in Nodes : v[n] = "for"}) = Quorum
QuorumAgainst(v) == Cardinality({n \in Nodes : v[n] \in {"locked", "error"}}) = Quorum

(* The attempt of slot s is over; later answers to it are ignored. *)
Settle(c, s, next) ==
  /\ run' = [run EXCEPT ![c][s] = next]
  /\ votes' = [votes EXCEPT ![c][s] = NoVotes]

CountVote(c, n, s) ==
  /\ Answers(c, n, s)
  /\ ~QuorumFor(Counted(c, n, s)) /\ ~QuorumAgainst(Counted(c, n, s))
  /\ votes' = [votes EXCEPT ![c][s] = Counted(c, n, s)]
  /\ queue' = Pop(c, n)
  /\ UNCHANGED <<now, nodeVars, handleVars, run, tries, round, start, faults>>

FaultyLeaseEnd(c) == start[c] + Duration
FaultyLeaseStart(c) == now + Duration - Drift
LeaseEnd(c) == start[c] + Duration - Drift

FaultyLockSucceeds(c, n) ==
  /\ phase[c] = "acquiring" \/ exp[c] >= now
  /\ Answers(c, n, "lock")
  /\ QuorumFor(Counted(c, n, "lock"))
  /\ phase' = IF phase[c] = "acquiring" THEN [phase EXCEPT ![c] = "held"] ELSE phase
  /\ exp' = [exp EXCEPT ![c] = LeaseEnd(c)]
  /\ Settle(c, "lock", "idle")
  /\ queue' = Pop(c, n)
  /\ UNCHANGED <<now, nodeVars, err, tries, round, start, faults>>

(* A quorum for: acquire() and extend() return a new handle. *)
LockSucceeds(c, n) ==
  /\ Answers(c, n, "lock")
  /\ QuorumFor(Counted(c, n, "lock"))
  /\ phase' = IF phase[c] = "acquiring" THEN [phase EXCEPT ![c] = "held"] ELSE phase
  /\ exp' = [exp EXCEPT ![c] = LeaseEnd(c)]
  /\ Settle(c, "lock", "idle")
  /\ queue' = Pop(c, n)
  /\ UNCHANGED <<now, nodeVars, err, tries, round, start, faults>>

(* A quorum against and attempts left. *)
RetryLater(c, n, s) ==
  /\ Answers(c, n, s)
  /\ QuorumAgainst(Counted(c, n, s)) /\ MayRetry(c, s)
  /\ Settle(c, s, "wait")
  /\ queue' = Pop(c, n)
  /\ UNCHANGED <<now, nodeVars, handleVars, tries, round, start, faults>>

FaultyCleanup(c, q) ==
  /\ phase' = [phase EXCEPT ![c] = "failed"]
  /\ run' = [run EXCEPT ![c]["lock"] = "idle"]
  /\ votes' = [votes EXCEPT ![c]["lock"] = NoVotes]
  /\ queue' = [queue EXCEPT ![c] = q]
  /\ UNCHANGED <<tries, round, start>>

(* The catch block of acquire(): release what a minority may hold. *)
Cleanup(c, q) ==
  /\ phase' = [phase EXCEPT ![c] = "cleanup"]
  /\ run' = [run EXCEPT ![c] = [s \in Slots |-> IF s = "lock" THEN "idle" ELSE "attempt"]]
  /\ votes' = [votes EXCEPT ![c] = [s \in Slots |-> NoVotes]]
  /\ tries' = [tries EXCEPT ![c]["unlock"] = 1]
  /\ round' = [round EXCEPT ![c]["unlock"] = @ + 1]
  /\ queue' = [queue EXCEPT ![c] = [n \in Nodes |->
       Append(q[n], [script |-> "release", rnd |-> round[c]["unlock"] + 1,
                     raw |-> FALSE, res |-> "sent"])]]
  /\ UNCHANGED start

(* Out of attempts: acquire() fails with the error of the last vote if     *)
(* that is ResourceLockedException, with LockExecutionException otherwise. *)
AcquireFails(c, n) ==
  /\ phase[c] = "acquiring"
  /\ Answers(c, n, "lock")
  /\ QuorumAgainst(Counted(c, n, "lock")) /\ ~MayRetry(c, "lock")
  /\ err' = [err EXCEPT ![c] = IF Head(queue[c][n]).res = "locked" THEN "locked" ELSE "error"]
  /\ Cleanup(c, Pop(c, n)[c])
  /\ UNCHANGED <<now, nodeVars, exp, faults>>

(* extend() throws and leaves the handle as it is. *)
ExtendFails(c, n) ==
  /\ phase[c] # "acquiring"
  /\ Answers(c, n, "lock")
  /\ QuorumAgainst(Counted(c, n, "lock")) /\ ~MayRetry(c, "lock")
  /\ Settle(c, "lock", "idle")
  /\ queue' = Pop(c, n)
  /\ UNCHANGED <<now, nodeVars, handleVars, tries, round, start, faults>>

(* release() resolves or rejects; the cleanup ignores which. *)
UnlockEnds(c, n) ==
  LET ok == QuorumFor(Counted(c, n, "unlock")) IN
  /\ Answers(c, n, "unlock")
  /\ \/ ok
     \/ QuorumAgainst(Counted(c, n, "unlock")) /\ ~MayRetry(c, "unlock")
  /\ phase' = [phase EXCEPT ![c] =
       IF @ = "cleanup" THEN "failed" ELSE IF ok THEN "released" ELSE "unreleased"]
  /\ Settle(c, "unlock", "idle")
  /\ queue' = Pop(c, n)
  /\ UNCHANGED <<now, nodeVars, exp, err, tries, round, start, faults>>

(* An answer to an attempt that is already decided changes nothing. *)
IgnoreAnswer(c, n) ==
  /\ Answered(c, n) /\ Head(queue[c][n]).res # "noscript"
  /\ \A s \in Slots : ~Answers(c, n, s)
  /\ queue' = Pop(c, n)
  /\ UNCHANGED <<now, nodeVars, handleVars, attemptVars, faults>>

(* NOSCRIPT: send the script's text, behind what was sent meanwhile. *)
FallBackToEval(c, n) ==
  /\ Answered(c, n) /\ Head(queue[c][n]).res = "noscript"
  /\ queue' = [queue EXCEPT ![c][n] =
       Append(Tail(@), [Head(@) EXCEPT !.raw = TRUE, !.res = "sent"])]
  /\ UNCHANGED <<now, nodeVars, handleVars, attemptVars, faults>>

-----------------------------------------------------------------------------
(* The nodes: the Lua scripts run one at a time.                           *)

(* The next command of c that node n runs is the one at position i. *)
Runs(c, n, i, script) ==
  /\ i \in DOMAIN queue[c][n]
  /\ queue[c][n][i].res = "sent" /\ queue[c][n][i].script = script
  /\ \A j \in 1 .. (i - 1) : queue[c][n][j].res # "sent"

Found(c, n, i) == queue[c][n][i].raw \/ queue[c][n][i].script \in cached[n]

(* The script answers for if ok holds; EVAL leaves it in the node's cache. *)
Reply(c, n, i, ok) ==
  /\ Found(c, n, i)
  /\ queue' = [queue EXCEPT ![c][n][i].res = IF ok THEN "for" ELSE "locked"]
  /\ cached' = [cached EXCEPT ![n] = @ \union {queue[c][n][i].script}]
  /\ UNCHANGED <<now, lost, handleVars, attemptVars, faults>>

(* set key value PX duration, for every key of c *)
SetKeys(c, n) ==
  /\ val' = [val EXCEPT ![n] = [r \in Resources |-> IF r \in Keys[c] THEN c ELSE @[r]]]
  /\ ttl' = [ttl EXCEPT ![n] =
       [r \in Resources |-> IF r \in Keys[c] THEN now + Duration ELSE @[r]]]

Owned(c, n) == {r \in Keys[c] : val[n][r] = c}

NoScript(c, n, i) ==
  /\ \E script \in Scripts : Runs(c, n, i, script)
  /\ ~Found(c, n, i)
  /\ queue' = [queue EXCEPT ![c][n][i].res = "noscript"]
  /\ UNCHANGED <<now, nodeVars, handleVars, attemptVars, faults>>

FaultyAcquireScript(c, n, i) ==
  /\ Runs(c, n, i, "acquire") /\ Reply(c, n, i, TRUE)
  /\ SetKeys(c, n)

(* Lock every key or, if any exists, none. *)
AcquireScript(c, n, i) ==
  LET free == \A r \in Keys[c] : val[n][r] = NoVal IN
  /\ Runs(c, n, i, "acquire") /\ Reply(c, n, i, free)
  /\ IF free THEN SetKeys(c, n) ELSE UNCHANGED <<val, ttl>>

FaultyExtendScript(c, n, i) ==
  /\ Runs(c, n, i, "extend") /\ Reply(c, n, i, TRUE)
  /\ SetKeys(c, n)

(* Renew every key or, if one is no longer c's, none. *)
ExtendScript(c, n, i) ==
  LET mine == Owned(c, n) = Keys[c] IN
  /\ Runs(c, n, i, "extend") /\ Reply(c, n, i, mine)
  /\ IF mine THEN SetKeys(c, n) ELSE UNCHANGED <<val, ttl>>

FaultyReleaseScript(c, n, i) ==
  /\ Runs(c, n, i, "release") /\ Reply(c, n, i, TRUE)
  /\ val' = [val EXCEPT ![n] = [r \in Resources |-> IF r \in Keys[c] THEN NoVal ELSE @[r]]]
  /\ ttl' = [ttl EXCEPT ![n] = [r \in Resources |-> IF r \in Keys[c] THEN 0 ELSE @[r]]]

(* Delete the keys that are c's; for only if that is all of them. *)
ReleaseScript(c, n, i) ==
  LET mine == Owned(c, n) IN
  /\ Runs(c, n, i, "release") /\ Reply(c, n, i, mine = Keys[c])
  /\ val' = [val EXCEPT ![n] = [r \in Resources |-> IF r \in mine THEN NoVal ELSE @[r]]]
  /\ ttl' = [ttl EXCEPT ![n] = [r \in Resources |-> IF r \in mine THEN 0 ELSE @[r]]]

(* A key expires at its nominal time, give or take the skew. *)
Expire(n, r) ==
  /\ val[n][r] # NoVal /\ now >= ttl[n][r] - Skew
  /\ val' = [val EXCEPT ![n][r] = NoVal]
  /\ ttl' = [ttl EXCEPT ![n][r] = 0]
  /\ UNCHANGED <<now, cached, lost, queue, handleVars, attemptVars, faults>>

(* A node without persistence restarts: no keys, no cached scripts. *)
Restart(n) ==
  /\ Cardinality(lost \union {n}) <= MaxRestarts
  /\ faults < MaxFaults /\ faults' = faults + 1
  /\ lost' = lost \union {n}
  /\ val' = [val EXCEPT ![n] = [r \in Resources |-> NoVal]]
  /\ ttl' = [ttl EXCEPT ![n] = [r \in Resources |-> 0]]
  /\ cached' = [cached EXCEPT ![n] = {}]
  /\ UNCHANGED <<now, queue, handleVars, attemptVars>>

-----------------------------------------------------------------------------
(* The connections.                                                        *)

(* ioredis gives up: every command still waiting is rejected, whether or   *)
(* not the node ran it; the node runs none of the others.                  *)
ConnFails(c, n) ==
  /\ faults < MaxFaults /\ queue[c][n] # << >>
  /\ faults' = faults + 1
  /\ queue' = [queue EXCEPT ![c][n] = [i \in DOMAIN @ |-> [@[i] EXCEPT !.res = "error"]]]
  /\ UNCHANGED <<now, nodeVars, handleVars, attemptVars>>

(* ioredis reconnects and sends every command still waiting again, so the  *)
(* node may run it twice (autoResendUnfulfilledCommands).                  *)
Resend(c, n) ==
  /\ faults < MaxFaults /\ queue[c][n] # << >>
  /\ faults' = faults + 1
  /\ queue' = [queue EXCEPT ![c][n] = [i \in DOMAIN @ |-> [@[i] EXCEPT !.res = "sent"]]]
  /\ UNCHANGED <<now, nodeVars, handleVars, attemptVars>>

Tick ==
  /\ now < MaxTime
  /\ \A n \in Nodes, r \in Resources : val[n][r] # NoVal => now < ttl[n][r] + Skew
  /\ now' = now + 1
  /\ UNCHANGED <<nodeVars, queue, handleVars, attemptVars, faults>>

(* Every call has returned and nothing is in flight. *)
Finished ==
  /\ \A c \in Calls : phase[c] \in {"released", "unreleased", "failed"}
  /\ \A c \in Calls, n \in Nodes : queue[c][n] = << >>
  /\ UNCHANGED vars

-----------------------------------------------------------------------------
Caller(c) == Acquire(c) \/ Extend(c) \/ Release(c) \/ \E s \in Slots : Retry(c, s)

Handle(c, n) ==
  \/ \E s \in Slots : CountVote(c, n, s) \/ RetryLater(c, n, s)
  \/ LockSucceeds(c, n) \/ AcquireFails(c, n) \/ ExtendFails(c, n) \/ UnlockEnds(c, n)
  \/ IgnoreAnswer(c, n) \/ FallBackToEval(c, n)

NodeExec(c, n) == \E i \in DOMAIN queue[c][n] :
  NoScript(c, n, i) \/ AcquireScript(c, n, i) \/ ExtendScript(c, n, i) \/ ReleaseScript(c, n, i)

Environment ==
  \/ Tick
  \/ \E n \in Nodes : Restart(n) \/ \E r \in Resources : Expire(n, r)
  \/ \E c \in Calls, n \in Nodes : ConnFails(c, n) \/ Resend(c, n)

Next ==
  \/ \E c \in Calls : Caller(c) \/ \E n \in Nodes : Handle(c, n) \/ NodeExec(c, n)
  \/ Environment
  \/ Finished

Spec == Init /\ [][Next]_vars

(* Timers fire, nodes answer what is sent to them and answers are handled; *)
(* nobody has to call release().                                           *)
Fairness == \A c \in Calls :
  /\ \A s \in Slots : WF_vars(Retry(c, s))
  /\ \A n \in Nodes : WF_vars(NodeExec(c, n)) /\ WF_vars(Handle(c, n))

FairSpec == Spec /\ Fairness

-----------------------------------------------------------------------------
(* Every variable stays in its type; in particular no operation makes     *)
(* more attempts than retryCount allows.                                   *)
TypeOK ==
  /\ now \in Nat
  /\ val \in [Nodes -> [Resources -> Calls \union {NoVal}]]
  /\ ttl \in [Nodes -> [Resources -> Nat]]
  /\ cached \in [Nodes -> SUBSET Scripts]
  /\ queue \in [Calls -> [Nodes -> Seq(Command)]]
  /\ phase \in [Calls -> {"idle", "acquiring", "held", "cleanup", "failed",
                          "releasing", "released", "unreleased"}]
  /\ run \in [Calls -> [Slots -> {"idle", "attempt", "wait"}]]
  /\ tries \in [Calls -> [Slots -> 0 .. MaxAttempts]]
  /\ round \in [Calls -> [Slots -> Nat]]
  /\ votes \in [Calls -> [Slots -> [Nodes -> Ballots \union {"none"}]]]
  /\ start \in [Calls -> Nat]
  /\ exp \in [Calls -> Int]
  /\ err \in [Calls -> {"none", "locked", "error"}]
  /\ lost \subseteq Nodes
  /\ faults \in Nat

(* Call c has a handle whose expiration has not passed. *)
Holding(c) == phase[c] = "held" /\ exp[c] >= now

Compete(c, d) == c # d /\ Keys[c] \intersect Keys[d] # {}

(* No two handles for a common key are valid at the same time, whatever    *)
(* the nodes, the connections and the other calls did meanwhile.           *)
MutualExclusion == \A c, d \in Calls : Compete(c, d) => ~(Holding(c) /\ Holding(d))

(* The same, of a run in which so few nodes lost their keys that two       *)
(* quorums still share one that did not.                                   *)
FewLost == Cardinality(lost) < 2 * Quorum - Cardinality(Nodes)
Exclusion == FewLost => MutualExclusion

(* Node n has not restarted and stores all keys of c past e, even if its   *)
(* clock is off by the drift, or e has passed.                             *)
Backed(c, n, e) ==
  \/ n \in lost
  \/ now > e
  \/ \A r \in Keys[c] : val[n][r] = c /\ ttl[n][r] >= e + Drift

(* What a handle promises until its expiration is true of a quorum, also   *)
(* after extensions, duplicated commands and late answers.                 *)
LeaseBacked == \A c \in Calls :
  phase[c] = "held" => Cardinality({n \in Nodes : Backed(c, n, exp[c])}) >= Quorum

(* Until its release is asked for, a key of c disappears from a node only  *)
(* when its time has come or the node restarts, and nobody overwrites it.  *)
KeysUntouched == [][\A c \in Calls, n \in Nodes, r \in Resources :
  val[n][r] = c /\ val'[n][r] # c /\ phase[c] \in {"acquiring", "held"} =>
    /\ val'[n][r] = NoVal
    /\ n \in lost' \/ now >= ttl[n][r] - Skew]_vars

(* An attempt that is not decided still has a vote to come: the promise of *)
(* _attemptOperation() never hangs with every vote in.  (For an odd number *)
(* of nodes.)                                                              *)
AttemptCanEnd == \A c \in Calls, s \in Slots :
  run[c][s] = "attempt" => \E n \in Nodes :
    /\ votes[c][s][n] = "none"
    /\ \E i \in DOMAIN queue[c][n] :
         queue[c][n][i].rnd = round[c][s] /\ SlotOf(queue[c][n][i].script) = s

(* "On failure, automatically cleans up any partial locks": once a call    *)
(* is over and its commands are answered, no node stores a key of it.  (As *)
(* long as no connection failed and no node restarted.)                    *)
CleanedUp == \A c \in Calls, n \in Nodes :
  /\ phase[c] \in {"failed", "released", "unreleased"}
  /\ queue[c][n] = << >> /\ faults = 0
  => Owned(c, n) = {}

(* Every acquire(), extend() and release() settles, with its retries: each *)
(* slot of a call, busy while an operation runs in it, is idle again later.*)
OperationsReturn == \A c \in Calls, s \in Slots : []<>(run[c][s] = "idle")

(* The lease of c as the abstract specification Lease sees it. *)
lease == [c \in Calls |-> IF phase[c] = "held" /\ exp[c] > 0 THEN exp[c] ELSE 0]
L == INSTANCE Lease WITH now <- now, lease <- lease

(* acquire(), extend() and release() with their attempts, votes and clocks *)
(* are the Grant and Drop of an abstract lease, everything else is a step  *)
(* that it does not see.                                                   *)
LeaseSpec == L!Spec
=============================================================================
