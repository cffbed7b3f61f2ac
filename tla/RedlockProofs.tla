---------------------------- MODULE RedlockProofs ----------------------------
(***************************************************************************)
(* Theorems of Redlock: types, what a handle guarantees, exclusion; and,   *)
(* about the commands that are still in the queues, that an attempt always *)
(* has a vote to wait for and that a call that is over leaves no key.      *)
(***************************************************************************)
EXTENDS Redlock, FiniteSetTheorems, TLAPS

LEMMA DriftIsNat == Drift \in Nat
BY ConstantsAssumption DEF Drift

LEMMA QuorumIsMajority ==
  /\ Cardinality(Nodes) \in Nat
  /\ Quorum \in Nat /\ 2 * Quorum > Cardinality(Nodes)
BY ConstantsAssumption, FS_CardinalityType DEF Quorum

LEMMA LeaseEndIsInt == ASSUME TypeOK, NEW c \in Calls PROVE LeaseEnd(c) \in Int
BY DriftIsNat, ConstantsAssumption DEF TypeOK, LeaseEnd

LEMMA SlotOfType == \A script \in Scripts : SlotOf(script) \in Slots
BY DEF SlotOf, Slots, Scripts

LEMMA InitTypeOK == Init => TypeOK
BY ConstantsAssumption DEF Init, TypeOK, NoVotes, Slots, Scripts

LEMMA AttemptType ==
  ASSUME TypeOK, NEW c \in Calls, NEW s \in Slots, NEW k \in 0 .. MaxAttempts,
         NEW script \in Scripts, NEW q \in [Nodes -> Seq(Command)], Attempt(c, s, k, script, q)
  PROVE  /\ queue' \in [Calls -> [Nodes -> Seq(Command)]]
         /\ run' \in [Calls -> [Slots -> {"idle", "attempt", "wait"}]]
         /\ tries' \in [Calls -> [Slots -> 0 .. MaxAttempts]]
         /\ round' \in [Calls -> [Slots -> Nat]]
         /\ votes' \in [Calls -> [Slots -> [Nodes -> Ballots \union {"none"}]]]
         /\ start' \in [Calls -> Nat]
<1> DEFINE m == [script |-> script, rnd |-> round[c][s] + 1, raw |-> FALSE, res |-> "sent"]
<1>1. m \in Command
  BY DEF TypeOK, Command
<1>2. queue' = [queue EXCEPT ![c] = [n \in Nodes |-> Append(q[n], m)]]
  BY DEF Attempt
<1> HIDE DEF m
<1>3. queue' \in [Calls -> [Nodes -> Seq(Command)]]
  BY <1>1, <1>2 DEF TypeOK
<1>4. run' \in [Calls -> [Slots -> {"idle", "attempt", "wait"}]]
  BY DEF TypeOK, Attempt
<1>5. tries' \in [Calls -> [Slots -> 0 .. MaxAttempts]]
  BY DEF TypeOK, Attempt
<1>6. round' \in [Calls -> [Slots -> Nat]]
  BY DEF TypeOK, Attempt
<1>7. votes' \in [Calls -> [Slots -> [Nodes -> Ballots \union {"none"}]]]
  BY DEF TypeOK, Attempt, NoVotes
<1>8. start' \in [Calls -> Nat]
  BY DEF TypeOK, Attempt
<1> QED
  BY <1>3, <1>4, <1>5, <1>6, <1>7, <1>8

LEMMA PopType ==
  ASSUME TypeOK, NEW c \in Calls, NEW n \in Nodes, queue[c][n] # << >>
  PROVE  /\ Pop(c, n) \in [Calls -> [Nodes -> Seq(Command)]]
         /\ Head(queue[c][n]) \in Command
BY DEF TypeOK, Pop

LEMMA AnswerType ==
  ASSUME TypeOK, NEW c \in Calls, NEW n \in Nodes, NEW s \in Slots, Answers(c, n, s)
  PROVE  /\ queue[c][n] # << >> /\ Head(queue[c][n]) \in Command
         /\ Head(queue[c][n]).res \in Ballots
         /\ Counted(c, n, s) \in [Nodes -> Ballots \union {"none"}]
<1>1. queue[c][n] # << >> /\ Head(queue[c][n]).res \in Ballots
  BY DEF Answers, Answered
<1> QED
  BY <1>1, PopType DEF TypeOK, Counted

LEMMA SettleType ==
  ASSUME TypeOK, NEW c \in Calls, NEW s \in Slots, NEW next \in {"idle", "wait"}, Settle(c, s, next)
  PROVE  /\ run' \in [Calls -> [Slots -> {"idle", "attempt", "wait"}]]
         /\ votes' \in [Calls -> [Slots -> [Nodes -> Ballots \union {"none"}]]]
BY DEF TypeOK, Settle, NoVotes

(* A command whose result is overwritten stays a command. *)
LEMMA ResultType ==
  ASSUME TypeOK, NEW c \in Calls, NEW n \in Nodes, NEW i \in DOMAIN queue[c][n],
         NEW res \in Ballots \union {"sent", "noscript"}
  PROVE  [queue EXCEPT ![c][n][i].res = res] \in [Calls -> [Nodes -> Seq(Command)]]
<1>1. queue[c][n] \in Seq(Command) /\ queue[c][n][i] \in Command
  BY DEF TypeOK
<1> DEFINE m == [queue[c][n][i] EXCEPT !.res = res]
<1>2. m \in Command
  BY <1>1 DEF Command
<1> DEFINE t == [queue[c][n] EXCEPT ![i] = m]
<1>3. t \in Seq(Command)
  <2> HIDE DEF m
  <2> QED BY <1>1, <1>2
<1>4. [queue EXCEPT ![c][n][i].res = res] = [queue EXCEPT ![c][n] = t]
  BY DEF TypeOK
<1>5. [queue EXCEPT ![c][n] = t] \in [Calls -> [Nodes -> Seq(Command)]]
  <2> HIDE DEF t
  <2> QED BY <1>3 DEF TypeOK
<1> QED
  BY <1>4, <1>5

LEMMA AllResultsType ==
  ASSUME TypeOK, NEW c \in Calls, NEW n \in Nodes, NEW res \in Ballots \union {"sent"}
  PROVE  [queue EXCEPT ![c][n] = [i \in DOMAIN @ |-> [@[i] EXCEPT !.res = res]]]
           \in [Calls -> [Nodes -> Seq(Command)]]
<1> DEFINE t == [i \in DOMAIN queue[c][n] |-> [queue[c][n][i] EXCEPT !.res = res]]
<1>1. queue[c][n] \in Seq(Command)
  BY DEF TypeOK
<1>2. \A m \in Command : [m EXCEPT !.res = res] \in Command
  BY DEF Command
<1>3. t \in Seq(Command)
  BY <1>1, <1>2
<1>4. [queue EXCEPT ![c][n] = t] \in [Calls -> [Nodes -> Seq(Command)]]
  <2> HIDE DEF t
  <2> QED BY <1>3 DEF TypeOK
<1> QED
  BY <1>4

LEMMA SetKeysType ==
  ASSUME TypeOK, NEW c \in Calls, NEW n \in Nodes, SetKeys(c, n)
  PROVE  /\ val' \in [Nodes -> [Resources -> Calls \union {NoVal}]]
         /\ ttl' \in [Nodes -> [Resources -> Nat]]
<1>1. now + Duration \in Nat
  BY ConstantsAssumption DEF TypeOK
<1> QED
  BY <1>1 DEF TypeOK, SetKeys

-----------------------------------------------------------------------------
(* TypeOK is inductive together with: who waits has an attempt left.       *)

RetriesLeft == \A c \in Calls, s \in Slots : run[c][s] = "wait" => tries[c][s] < MaxAttempts

TypeInv == TypeOK /\ RetriesLeft

LEMMA CallerType ==
  ASSUME TypeInv, NEW c \in Calls, Caller(c)
  PROVE  TypeInv'
<1> USE ConstantsAssumption DEF TypeInv
<1> DEFINE Send(s) == \E k \in 0 .. MaxAttempts, script \in Scripts : Attempt(c, s, k, script, queue[c])
<1>1. ASSUME NEW s \in Slots, Send(s)
      PROVE  /\ queue' \in [Calls -> [Nodes -> Seq(Command)]]
             /\ run' \in [Calls -> [Slots -> {"idle", "attempt", "wait"}]]
             /\ tries' \in [Calls -> [Slots -> 0 .. MaxAttempts]]
             /\ round' \in [Calls -> [Slots -> Nat]]
             /\ votes' \in [Calls -> [Slots -> [Nodes -> Ballots \union {"none"}]]]
             /\ start' \in [Calls -> Nat]
             /\ RetriesLeft'
  <2>0. RetriesLeft'
    <3>1. PICK k \in 0 .. MaxAttempts, script \in Scripts : Attempt(c, s, k, script, queue[c])
      BY <1>1
    <3>2. run' = [run EXCEPT ![c][s] = "attempt"] /\ tries' = [tries EXCEPT ![c][s] = k]
      BY <3>1 DEF Attempt
    <3> QED
      BY <3>2 DEF RetriesLeft, TypeOK
  <2>1. queue[c] \in [Nodes -> Seq(Command)]
    BY DEF TypeOK
  <2> QED
    BY <1>1, <2>0, <2>1, AttemptType
<1>2. CASE Acquire(c)
  <2>1. Send("lock")
    BY <1>2 DEF Acquire, Scripts
  <2> QED
    BY <1>1, <1>2, <2>1 DEF Acquire, TypeOK, nodeVars, Slots
<1>3. CASE Extend(c)
  <2>1. Send("lock")
    BY <1>3 DEF Extend, Scripts
  <2> QED
    BY <1>1, <1>3, <2>1 DEF Extend, TypeOK, nodeVars, handleVars, Slots
<1>4. CASE Release(c)
  <2>1. Send("unlock")
    BY <1>4 DEF Release, Scripts
  <2>2. /\ phase' = [phase EXCEPT ![c] = "releasing"] /\ exp' = [exp EXCEPT ![c] = 0]
        /\ UNCHANGED <<now, val, ttl, cached, lost, err, faults>>
    BY <1>4 DEF Release, nodeVars
  <2>3. /\ phase' \in [Calls -> {"idle", "acquiring", "held", "cleanup", "failed",
                                 "releasing", "released", "unreleased"}]
        /\ exp' \in [Calls -> Int]
    BY <2>2 DEF TypeOK
  <2> HIDE DEF Send
  <2> QED
    BY <1>1, <2>1, <2>2, <2>3 DEF TypeOK, Slots
<1>5. ASSUME NEW s \in Slots, Retry(c, s)
      PROVE  TypeInv'
  <2>1. tries[c][s] + 1 \in 0 .. MaxAttempts
    BY <1>5 DEF RetriesLeft, Retry, TypeOK
  <2>2. ScriptOf(c, s) \in Scripts
    BY DEF ScriptOf, Scripts
  <2>3. Send(s)
    BY <1>5, <2>1, <2>2 DEF Retry
  <2> QED
    BY <1>1, <1>5, <2>3 DEF Retry, TypeOK, nodeVars, handleVars
<1> QED
  BY <1>2, <1>3, <1>4, <1>5 DEF Caller

LEMMA HandleType ==
  ASSUME TypeInv, NEW c \in Calls, NEW n \in Nodes, Handle(c, n)
  PROVE  TypeInv'
<1> USE DEF TypeInv
<1>1. ASSUME NEW s \in Slots, CountVote(c, n, s)
      PROVE  TypeInv'
  <2>1. /\ Pop(c, n) \in [Calls -> [Nodes -> Seq(Command)]]
        /\ Counted(c, n, s) \in [Nodes -> Ballots \union {"none"}]
    BY <1>1, AnswerType, PopType DEF CountVote
  <2> QED
    BY <1>1, <2>1 DEF CountVote, TypeOK, RetriesLeft, nodeVars, handleVars
<1>2. ASSUME NEW s \in Slots, RetryLater(c, n, s)
      PROVE  TypeInv'
  <2>1. /\ Pop(c, n) \in [Calls -> [Nodes -> Seq(Command)]]
        /\ Settle(c, s, "wait")
        /\ queue' = Pop(c, n)
        /\ UNCHANGED <<now, val, ttl, cached, lost, phase, exp, err, tries, round, start, faults>>
    BY <1>2, AnswerType, PopType DEF RetryLater, nodeVars, handleVars
  <2>2. tries[c][s] < MaxAttempts
    BY <1>2, ConstantsAssumption DEF RetryLater, MayRetry, Limit, TypeOK
  <2>3. RetriesLeft'
    BY <2>1, <2>2 DEF RetriesLeft, Settle, TypeOK
  <2> QED
    BY <2>1, <2>3, SettleType DEF TypeOK
<1>3. CASE LockSucceeds(c, n)
  <2>1. /\ Pop(c, n) \in [Calls -> [Nodes -> Seq(Command)]]
        /\ Settle(c, "lock", "idle")
        /\ queue' = Pop(c, n)
        /\ exp' = [exp EXCEPT ![c] = LeaseEnd(c)]
        /\ phase' = IF phase[c] = "acquiring" THEN [phase EXCEPT ![c] = "held"] ELSE phase
        /\ UNCHANGED <<now, val, ttl, cached, lost, err, tries, round, start, faults>>
    BY <1>3, AnswerType, PopType DEF LockSucceeds, nodeVars, Slots
  <2>2. exp' \in [Calls -> Int]
    BY <2>1, LeaseEndIsInt DEF TypeOK
  <2>3. phase' \in [Calls -> {"idle", "acquiring", "held", "cleanup", "failed",
                              "releasing", "released", "unreleased"}]
    BY <2>1 DEF TypeOK
  <2>4. RetriesLeft'
    BY <2>1 DEF RetriesLeft, Settle, TypeOK
  <2>5. "lock" \in Slots
    BY DEF Slots
  <2> QED
    BY <2>1, <2>2, <2>3, <2>4, <2>5, SettleType DEF TypeOK
<1>4. CASE AcquireFails(c, n)
  <2> DEFINE m == [script |-> "release", rnd |-> round[c]["unlock"] + 1, raw |-> FALSE, res |-> "sent"]
  <2>1. /\ Pop(c, n) \in [Calls -> [Nodes -> Seq(Command)]]
        /\ Head(queue[c][n]).res \in Ballots
        /\ AcquireFails(c, n) /\ Cleanup(c, Pop(c, n)[c])
    BY <1>4, AnswerType, PopType DEF AcquireFails, Slots
  <2>2. m \in Command
    BY DEF Command, Scripts, TypeOK, Slots
  <2>3. queue' = [queue EXCEPT ![c] = [k \in Nodes |-> Append(Pop(c, n)[c][k], m)]]
    BY <2>1 DEF Cleanup
  <2>4. queue' \in [Calls -> [Nodes -> Seq(Command)]]
    <3> HIDE DEF m
    <3> QED BY <2>1, <2>2, <2>3 DEF TypeOK
  <2>11. "lock" \in Slots /\ "unlock" \in Slots
    BY DEF Slots
  <2>5. /\ run' \in [Calls -> [Slots -> {"idle", "attempt", "wait"}]]
        /\ votes' \in [Calls -> [Slots -> [Nodes -> Ballots \union {"none"}]]]
        /\ round' \in [Calls -> [Slots -> Nat]]
        /\ start' \in [Calls -> Nat]
    <3>1. run' \in [Calls -> [Slots -> {"idle", "attempt", "wait"}]]
      BY <2>1 DEF Cleanup, TypeOK
    <3>2. votes' \in [Calls -> [Slots -> [Nodes -> Ballots \union {"none"}]]]
      BY <2>1 DEF Cleanup, TypeOK, NoVotes
    <3>3. round' \in [Calls -> [Slots -> Nat]]
      BY <2>1, <2>11 DEF Cleanup, TypeOK
    <3>4. start' \in [Calls -> Nat]
      BY <2>1 DEF Cleanup, TypeOK
    <3> QED BY <3>1, <3>2, <3>3, <3>4
  <2>6. tries' \in [Calls -> [Slots -> 0 .. MaxAttempts]]
    <3>1. 1 \in 0 .. MaxAttempts
      BY ConstantsAssumption
    <3>2. tries' = [tries EXCEPT ![c]["unlock"] = 1]
      BY <2>1 DEF Cleanup
    <3> QED BY <2>11, <3>1, <3>2 DEF TypeOK
  <2>7. phase' \in [Calls -> {"idle", "acquiring", "held", "cleanup", "failed",
                              "releasing", "released", "unreleased"}]
    BY <2>1 DEF Cleanup, TypeOK
  <2>8. err' \in [Calls -> {"none", "locked", "error"}]
    BY <2>1 DEF AcquireFails, TypeOK
  <2>9. RetriesLeft'
    <3>1. \A d \in Calls, s \in Slots : run'[d][s] = "wait" => d # c
      BY <2>1 DEF Cleanup, TypeOK, Slots
    <3> QED BY <2>1, <3>1 DEF Cleanup, RetriesLeft, TypeOK
  <2>10. UNCHANGED <<now, val, ttl, cached, lost, exp, faults>>
    BY <2>1 DEF AcquireFails, nodeVars
  <2> QED
    BY <2>4, <2>5, <2>6, <2>7, <2>8, <2>9, <2>10 DEF TypeOK
<1>5. CASE ExtendFails(c, n)
  <2>1. /\ Pop(c, n) \in [Calls -> [Nodes -> Seq(Command)]]
        /\ Settle(c, "lock", "idle")
        /\ queue' = Pop(c, n)
        /\ UNCHANGED <<now, val, ttl, cached, lost, phase, exp, err, tries, round, start, faults>>
    BY <1>5, AnswerType, PopType DEF ExtendFails, nodeVars, handleVars, Slots
  <2>2. RetriesLeft'
    BY <2>1 DEF RetriesLeft, Settle, TypeOK
  <2>3. "lock" \in Slots
    BY DEF Slots
  <2> QED
    BY <2>1, <2>2, <2>3, SettleType DEF TypeOK
<1>6. CASE UnlockEnds(c, n)
  <2>1. /\ Pop(c, n) \in [Calls -> [Nodes -> Seq(Command)]]
        /\ Settle(c, "unlock", "idle")
        /\ queue' = Pop(c, n)
        /\ UNCHANGED <<now, val, ttl, cached, lost, exp, err, tries, round, start, faults>>
    BY <1>6, AnswerType, PopType DEF UnlockEnds, nodeVars, Slots
  <2>2. phase' \in [Calls -> {"idle", "acquiring", "held", "cleanup", "failed",
                              "releasing", "released", "unreleased"}]
    BY <1>6 DEF UnlockEnds, TypeOK
  <2>3. RetriesLeft'
    BY <2>1 DEF RetriesLeft, Settle, TypeOK
  <2>4. "unlock" \in Slots
    BY DEF Slots
  <2> QED
    BY <2>1, <2>2, <2>3, <2>4, SettleType DEF TypeOK
<1>7. CASE IgnoreAnswer(c, n)
  <2>1. Pop(c, n) \in [Calls -> [Nodes -> Seq(Command)]]
    BY <1>7, PopType DEF IgnoreAnswer, Answered
  <2> QED
    BY <1>7, <2>1 DEF IgnoreAnswer, TypeOK, RetriesLeft, nodeVars, handleVars, attemptVars
<1>8. CASE FallBackToEval(c, n)
  <2> DEFINE m == [Head(queue[c][n]) EXCEPT !.raw = TRUE, !.res = "sent"]
             t == Append(Tail(queue[c][n]), m)
  <2>1. queue[c][n] # << >> /\ queue[c][n] \in Seq(Command) /\ Head(queue[c][n]) \in Command
    BY <1>8, PopType DEF FallBackToEval, Answered, TypeOK
  <2>2. m \in Command
    BY <2>1 DEF Command
  <2>3. t \in Seq(Command)
    <3> HIDE DEF m
    <3> QED BY <2>1, <2>2
  <2>4. queue' = [queue EXCEPT ![c][n] = t]
    BY <1>8 DEF FallBackToEval, TypeOK
  <2>5. queue' \in [Calls -> [Nodes -> Seq(Command)]]
    <3> HIDE DEF t
    <3> QED BY <2>3, <2>4 DEF TypeOK
  <2> QED
    BY <1>8, <2>5 DEF FallBackToEval, TypeOK, RetriesLeft, nodeVars, handleVars, attemptVars
<1> QED
  BY <1>1, <1>2, <1>3, <1>4, <1>5, <1>6, <1>7, <1>8 DEF Handle

LEMMA NodeExecType ==
  ASSUME TypeInv, NEW c \in Calls, NEW n \in Nodes, NodeExec(c, n)
  PROVE  TypeInv'
<1> USE DEF TypeInv
<1>1. PICK i \in DOMAIN queue[c][n] :
        NoScript(c, n, i) \/ AcquireScript(c, n, i) \/ ExtendScript(c, n, i) \/ ReleaseScript(c, n, i)
  BY DEF NodeExec
<1>2. queue' \in [Calls -> [Nodes -> Seq(Command)]]
  <2>1. \E res \in Ballots \union {"sent", "noscript"} :
          queue' = [queue EXCEPT ![c][n][i].res = res]
    BY <1>1 DEF NoScript, AcquireScript, ExtendScript, ReleaseScript, Reply, Ballots
  <2> QED
    BY <2>1, ResultType
<1>3. cached' \in [Nodes -> SUBSET Scripts]
  <2>1. queue[c][n][i].script \in Scripts
    <3>1. queue[c][n] \in Seq(Command)
      BY DEF TypeOK
    <3>2. queue[c][n][i] \in Command
      BY <3>1
    <3> QED
      BY <3>2 DEF Command
  <2>2. cached' = cached \/ cached' = [cached EXCEPT ![n] = @ \union {queue[c][n][i].script}]
    BY <1>1 DEF NoScript, AcquireScript, ExtendScript, ReleaseScript, Reply, nodeVars
  <2>3. cached[n] \union {queue[c][n][i].script} \in SUBSET Scripts
    BY <2>1 DEF TypeOK
  <2> QED
    BY <2>2, <2>3 DEF TypeOK
<1>4. /\ val' \in [Nodes -> [Resources -> Calls \union {NoVal}]]
      /\ ttl' \in [Nodes -> [Resources -> Nat]]
  <2>1. CASE NoScript(c, n, i)
    BY <2>1 DEF NoScript, nodeVars, TypeOK
  <2>2. CASE AcquireScript(c, n, i) \/ ExtendScript(c, n, i)
    <3>1. SetKeys(c, n) \/ UNCHANGED <<val, ttl>>
      BY <2>2 DEF AcquireScript, ExtendScript
    <3> QED
      BY <3>1, SetKeysType DEF TypeOK
  <2>3. CASE ReleaseScript(c, n, i)
    BY <2>3 DEF ReleaseScript, TypeOK
  <2> QED
    BY <1>1, <2>1, <2>2, <2>3
<1>5. UNCHANGED <<now, lost, phase, exp, err, run, tries, round, votes, start, faults>>
  BY <1>1 DEF NoScript, AcquireScript, ExtendScript, ReleaseScript, Reply, nodeVars, handleVars,
              attemptVars
<1> QED
  BY <1>2, <1>3, <1>4, <1>5 DEF TypeOK, RetriesLeft

LEMMA EnvironmentType ==
  ASSUME TypeInv, Environment
  PROVE  TypeInv'
<1> USE DEF TypeInv
<1>1. CASE Tick
  BY <1>1 DEF Tick, TypeOK, RetriesLeft, nodeVars, handleVars, attemptVars
<1>2. ASSUME NEW n \in Nodes, Restart(n)
      PROVE  TypeInv'
  BY <1>2 DEF Restart, TypeOK, RetriesLeft, handleVars, attemptVars
<1>3. ASSUME NEW n \in Nodes, NEW r \in Resources, Expire(n, r)
      PROVE  TypeInv'
  BY <1>3 DEF Expire, TypeOK, RetriesLeft, handleVars, attemptVars
<1>4. ASSUME NEW c \in Calls, NEW n \in Nodes, ConnFails(c, n) \/ Resend(c, n)
      PROVE  TypeInv'
  <2>1. queue' \in [Calls -> [Nodes -> Seq(Command)]]
    <3>1. CASE ConnFails(c, n)
      <4>1. "error" \in Ballots \union {"sent"}
        BY DEF Ballots
      <4> QED BY <3>1, <4>1, AllResultsType DEF ConnFails
    <3>2. CASE Resend(c, n)
      <4>1. "sent" \in Ballots \union {"sent"}
        OBVIOUS
      <4>2. queue' = [queue EXCEPT ![c][n] = [i \in DOMAIN @ |-> [@[i] EXCEPT !.res = "sent"]]]
        BY <3>2 DEF Resend
      <4>3. [queue EXCEPT ![c][n] = [i \in DOMAIN @ |-> [@[i] EXCEPT !.res = "sent"]]]
              \in [Calls -> [Nodes -> Seq(Command)]]
        BY <4>1, AllResultsType
      <4> QED BY <4>2, <4>3
    <3> QED BY <1>4, <3>1, <3>2
  <2>2. UNCHANGED <<now, phase, exp, err, run, tries, round, votes, start, val, ttl, cached>>
    BY <1>4 DEF ConnFails, Resend, nodeVars, handleVars, attemptVars
  <2>3. faults' \in Nat /\ lost' = lost
    BY <1>4 DEF ConnFails, Resend, TypeOK, nodeVars
  <2> QED BY <2>1, <2>2, <2>3 DEF TypeOK, RetriesLeft
<1> QED
  BY <1>1, <1>2, <1>3, <1>4 DEF Environment

LEMMA StutterType == ASSUME TypeInv, UNCHANGED vars PROVE TypeInv'
BY DEF TypeInv, TypeOK, RetriesLeft, vars, nodeVars, handleVars, attemptVars

LEMMA TypeInductive == TypeInv /\ [Next]_vars => TypeInv'
<1> SUFFICES ASSUME TypeInv, [Next]_vars PROVE TypeInv'
  OBVIOUS
<1>1. CASE Finished \/ UNCHANGED vars
  BY <1>1, StutterType DEF Finished
<1> QED
  BY <1>1, CallerType, HandleType, NodeExecType, EnvironmentType DEF Next

(* Every reachable state is well typed; in particular no execution of a    *)
(* script makes more attempts than retryCount + 1.                         *)
THEOREM TypeCorrect == Spec => []TypeOK
<1>1. Init => TypeInv
  BY InitTypeOK DEF Init, TypeInv, RetriesLeft
<1>2. TypeInv => TypeOK
  BY DEF TypeInv
<1> QED
  BY <1>1, <1>2, TypeInductive, PTL DEF Spec

-----------------------------------------------------------------------------
(* LeaseBacked is inductive together with the following facts.             *)

(* The commands on the connection of c to n. *)
Sent(c, n) == {queue[c][n][i] : i \in DOMAIN queue[c][n]}

(* No release is on its way to a node, or being retried, before the call   *)
(* asked for one.                                                          *)
NoReleaseSent == \A c \in Calls : phase[c] \in {"idle", "acquiring", "held"} =>
  /\ run[c]["unlock"] = "idle"
  /\ \A n \in Nodes : \A m \in Sent(c, n) : m.script # "release"

(* Commands belong to the current lock attempt or to an earlier one.       *)
RoundBound == \A c \in Calls, n \in Nodes : \A m \in Sent(c, n) :
  m.script # "release" => m.rnd <= round[c]["lock"]

Past ==
  /\ now >= 1
  /\ \A c \in Calls : start[c] <= now
  /\ \A n \in Nodes, r \in Resources : val[n][r] # NoVal => ttl[n][r] <= now + Duration

(* Node n has voted for the current lock attempt of c, or that vote is on  *)
(* its way to c.                                                           *)
ForVote(c, n) ==
  \/ votes[c]["lock"][n] = "for"
  \/ \E m \in Sent(c, n) :
       m.script # "release" /\ m.res = "for" /\ m.rnd = round[c]["lock"]

(* Such a vote already means what the handle will promise.                 *)
VoteBacked == \A c \in Calls, n \in Nodes :
  /\ phase[c] \in {"acquiring", "held"} /\ run[c]["lock"] = "attempt"
  /\ ForVote(c, n)
  => Backed(c, n, LeaseEnd(c))

SafeInv == TypeInv /\ NoReleaseSent /\ RoundBound /\ Past /\ VoteBacked /\ LeaseBacked

LEMMA SentType ==
  ASSUME TypeOK, NEW c \in Calls, NEW n \in Nodes, NEW m \in Sent(c, n)
  PROVE  m \in Command
<1>1. queue[c][n] \in Seq(Command)
  BY DEF TypeOK
<1>2. \A i \in DOMAIN queue[c][n] : queue[c][n][i] \in Command
  BY <1>1
<1> QED
  BY <1>2 DEF Sent

(* What the actions do to the commands on the connections. *)
LEMMA PopSent ==
  ASSUME TypeOK, NEW c \in Calls, NEW n \in Nodes, queue[c][n] # << >>, queue' = Pop(c, n)
  PROVE  /\ Head(queue[c][n]) \in Sent(c, n)
         /\ \A d \in Calls, k \in Nodes : Sent(d, k)' \subseteq Sent(d, k)
<1> DEFINE q == queue[c][n]
<1>1. q \in Seq(Command) /\ q # << >>
  BY DEF TypeOK
<1>2. 1 \in DOMAIN q /\ Head(q) = q[1]
  BY <1>1
<1>3. \A i \in DOMAIN Tail(q) : i + 1 \in DOMAIN q /\ Tail(q)[i] = q[i + 1]
  BY <1>1
<1>4. /\ queue'[c][n] = Tail(q)
      /\ \A d \in Calls, k \in Nodes : d # c \/ k # n => queue'[d][k] = queue[d][k]
  BY DEF Pop, TypeOK
<1>5. Head(q) \in Sent(c, n)
  BY <1>2 DEF Sent
<1>6. ASSUME NEW d \in Calls, NEW k \in Nodes
      PROVE  Sent(d, k)' \subseteq Sent(d, k)
  <2>1. CASE d = c /\ k = n
    BY <2>1, <1>3, <1>4 DEF Sent
  <2>2. CASE d # c \/ k # n
    BY <2>2, <1>4 DEF Sent
  <2> QED BY <2>1, <2>2
<1> QED
  BY <1>5, <1>6

LEMMA AppendSent ==
  ASSUME TypeOK, NEW c \in Calls, NEW q \in [Nodes -> Seq(Command)], NEW m \in Command,
         \A k \in Nodes : queue'[c][k] = Append(q[k], m),
         \A d \in Calls \ {c} : queue'[d] = queue[d],
         \A k \in Nodes : \A i \in DOMAIN q[k] : q[k][i] \in Sent(c, k)
  PROVE  /\ \A k \in Nodes : Sent(c, k)' \subseteq Sent(c, k) \union {m}
         /\ \A d \in Calls \ {c}, k \in Nodes : Sent(d, k)' = Sent(d, k)
<1>3. ASSUME NEW k \in Nodes
      PROVE  Sent(c, k)' \subseteq Sent(c, k) \union {m}
  <2>1. q[k] \in Seq(Command)
    OBVIOUS
  <2> DEFINE t == Append(q[k], m)
  <2>2. \A i \in DOMAIN t : (i \in DOMAIN q[k] /\ t[i] = q[k][i]) \/ t[i] = m
    BY <2>1
  <2>3. queue'[c][k] = t
    OBVIOUS
  <2>4. \A i \in DOMAIN t : t[i] \in Sent(c, k) \union {m}
    <3> HIDE DEF t
    <3> QED BY <2>2
  <2>5. Sent(c, k)' = {t[i] : i \in DOMAIN t}
    BY <2>3 DEF Sent
  <2> HIDE DEF t
  <2> QED
    BY <2>4, <2>5
<1> QED
  BY <1>3 DEF Sent

LEMMA AttemptSent ==
  ASSUME TypeOK, NEW c \in Calls, NEW s \in Slots, NEW k, NEW script \in Scripts,
         Attempt(c, s, k, script, queue[c])
  PROVE  /\ \A n \in Nodes : \A m \in Sent(c, n)' : m \notin Sent(c, n) =>
              m.script = script /\ m.rnd = round[c][s] + 1 /\ m.res = "sent"
         /\ \A d \in Calls \ {c}, n \in Nodes : Sent(d, n)' = Sent(d, n)
<1> DEFINE m == [script |-> script, rnd |-> round[c][s] + 1, raw |-> FALSE, res |-> "sent"]
<1>1. m \in Command /\ m.script = script /\ m.rnd = round[c][s] + 1 /\ m.res = "sent"
  BY DEF TypeOK, Command
<1>2. queue' = [queue EXCEPT ![c] = [n \in Nodes |-> Append(queue[c][n], m)]]
  BY DEF Attempt
<1>3. queue[c] \in [Nodes -> Seq(Command)]
  BY DEF TypeOK
<1>4. \A n \in Nodes : \A i \in DOMAIN queue[c][n] : queue[c][n][i] \in Sent(c, n)
  BY DEF Sent
<1>5. /\ \A n \in Nodes : Sent(c, n)' \subseteq Sent(c, n) \union {m}
      /\ \A d \in Calls \ {c}, n \in Nodes : Sent(d, n)' = Sent(d, n)
  <2> DEFINE q == queue[c]
  <2>1. /\ \A n \in Nodes : queue'[c][n] = Append(q[n], m)
        /\ \A d \in Calls \ {c} : queue'[d] = queue[d]
        /\ q \in [Nodes -> Seq(Command)] /\ m \in Command
        /\ \A n \in Nodes : \A i \in DOMAIN q[n] : q[n][i] \in Sent(c, n)
    <3> HIDE DEF m
    <3> QED BY <1>1, <1>2, <1>3, <1>4 DEF TypeOK
  <2> HIDE DEF m, q
  <2> QED BY <2>1, AppendSent
<1> QED
  <2> HIDE DEF m
  <2> QED BY <1>1, <1>5

LEMMA ResultSent ==
  ASSUME TypeOK, NEW c \in Calls, NEW n \in Nodes, NEW i \in DOMAIN queue[c][n],
         NEW res \in {"for", "locked", "noscript"},
         queue' = [queue EXCEPT ![c][n][i].res = res]
  PROVE  \A d \in Calls, k \in Nodes : \A m \in Sent(d, k)' : m \in Sent(d, k) \/
           /\ d = c /\ k = n /\ m.res = res
           /\ m.script = queue[c][n][i].script /\ m.rnd = queue[c][n][i].rnd
<1> DEFINE q == queue[c][n]
           t == [q EXCEPT ![i] = [q[i] EXCEPT !.res = res]]
<1>1. q \in Seq(Command) /\ q[i] \in Command
  BY DEF TypeOK
<1>2. queue'[c][n] = t
  BY DEF TypeOK
<1>3. \A d \in Calls, k \in Nodes : d # c \/ k # n => queue'[d][k] = queue[d][k]
  BY DEF TypeOK
<1>4. [q[i] EXCEPT !.res = res].res = res
      /\ [q[i] EXCEPT !.res = res].script = q[i].script
      /\ [q[i] EXCEPT !.res = res].rnd = q[i].rnd
  BY <1>1 DEF Command
<1>5. DOMAIN t = DOMAIN q /\ t[i] = [q[i] EXCEPT !.res = res]
      /\ \A j \in DOMAIN q \ {i} : t[j] = q[j]
  BY <1>1
<1>6. Sent(c, n)' = {t[j] : j \in DOMAIN t}
  BY <1>2 DEF Sent
<1>7. \A m \in Sent(c, n)' : m \in Sent(c, n) \/
        (m.res = res /\ m.script = q[i].script /\ m.rnd = q[i].rnd)
  <2> SUFFICES ASSUME NEW j \in DOMAIN t
               PROVE  t[j] \in Sent(c, n) \/
                 (t[j].res = res /\ t[j].script = q[i].script /\ t[j].rnd = q[i].rnd)
    BY <1>6
  <2>1. CASE j = i
    BY <1>4, <1>5, <2>1
  <2>2. CASE j # i
    <3>1. j \in DOMAIN q /\ t[j] = q[j]
      BY <1>5, <2>2
    <3>2. q[j] \in Sent(c, n)
      BY <3>1 DEF Sent
    <3> QED BY <3>1, <3>2
  <2> QED BY <2>1, <2>2
<1> QED
  BY <1>3, <1>7 DEF Sent

LEMMA AllResultsSent ==
  ASSUME TypeOK, NEW c \in Calls, NEW n \in Nodes, NEW res \in {"error", "sent"},
         (ConnFails(c, n) /\ res = "error") \/ (Resend(c, n) /\ res = "sent")
  PROVE  \A d \in Calls, k \in Nodes : \A m \in Sent(d, k)' :
           \E m0 \in Sent(d, k) : m0.script = m.script /\ m0.rnd = m.rnd /\ (m = m0 \/ m.res = res)
<1> DEFINE q == queue[c][n]
           t == [i \in DOMAIN q |-> [q[i] EXCEPT !.res = res]]
<1>1. q \in Seq(Command)
  BY DEF TypeOK
<1>2. queue'[c][n] = t
  <2>1. CASE ConnFails(c, n) /\ res = "error"
    BY <2>1 DEF TypeOK, ConnFails
  <2>2. CASE Resend(c, n) /\ res = "sent"
    BY <2>2 DEF TypeOK, Resend
  <2> QED BY <2>1, <2>2
<1>3. \A d \in Calls, k \in Nodes : d # c \/ k # n => queue'[d][k] = queue[d][k]
  BY DEF TypeOK, ConnFails, Resend
<1>4. \A m \in Command : [m EXCEPT !.res = res].res = res
        /\ [m EXCEPT !.res = res].script = m.script /\ [m EXCEPT !.res = res].rnd = m.rnd
  BY DEF Command
<1>5. DOMAIN t = DOMAIN q
      /\ \A i \in DOMAIN t : q[i] \in Command /\ t[i] = [q[i] EXCEPT !.res = res]
  BY <1>1
<1>6. \A i \in DOMAIN t : t[i].script = q[i].script /\ t[i].rnd = q[i].rnd /\ t[i].res = res
  <2> HIDE DEF t, q
  <2> TAKE i \in DOMAIN t
  <2>1. q[i] \in Command /\ t[i] = [q[i] EXCEPT !.res = res]
    BY <1>5
  <2> QED BY <1>4, <2>1
<1>7. Sent(c, n)' = {t[i] : i \in DOMAIN t}
  BY <1>2 DEF Sent
<1>8. ASSUME NEW m \in Sent(c, n)'
      PROVE  \E m0 \in Sent(c, n) : m0.script = m.script /\ m0.rnd = m.rnd /\ m.res = res
  <2> HIDE DEF t
  <2>1. PICK i \in DOMAIN t : m = t[i]
    BY <1>7
  <2>2. q[i] \in Sent(c, n)
    BY <1>5 DEF Sent
  <2> QED BY <1>6, <2>1, <2>2
<1>9. ASSUME NEW d \in Calls, NEW k \in Nodes, d # c \/ k # n
      PROVE  Sent(d, k)' = Sent(d, k)
  <2>1. queue'[d][k] = queue[d][k]
    BY <1>3, <1>9
  <2> QED
    BY <2>1 DEF Sent
<1>10. ASSUME NEW d \in Calls, NEW k \in Nodes, NEW m \in Sent(d, k)'
       PROVE  \E m0 \in Sent(d, k) : m0.script = m.script /\ m0.rnd = m.rnd /\ (m = m0 \/ m.res = res)
  BY <1>8, <1>9
<1> QED
  BY <1>10

-----------------------------------------------------------------------------
(* A quorum's promise is kept: until c asks for its release, no action     *)
(* takes the keys that back a lease of c away before it is over.           *)

LEMMA ScriptBacked ==
  ASSUME TypeOK, Past, NEW c \in Calls, NEW n \in Nodes, NEW e \in Int, Backed(c, n, e),
         NEW d \in Calls, NEW k \in Nodes, NEW i \in DOMAIN queue[d][k],
         NoScript(d, k, i) \/ AcquireScript(d, k, i) \/ ExtendScript(d, k, i) \/ ReleaseScript(d, k, i),
         d # c \/ ~ReleaseScript(d, k, i)
  PROVE  now' = now /\ lost' = lost /\ (Backed(c, n, e) => Backed(c, n, e)')
<1> USE ConstantsAssumption
<1>1. now' = now /\ lost' = lost
  BY DEF NoScript, AcquireScript, ExtendScript, ReleaseScript, Reply, nodeVars
<1>2. ASSUME NEW r \in Keys[c], val[n][r] = c, ttl[n][r] >= e + Drift
      PROVE  val'[n][r] = c /\ ttl'[n][r] >= e + Drift
  <2>1. r \in Resources
    OBVIOUS
  <2>2. CASE UNCHANGED <<val, ttl>>
    BY <1>2, <2>2
  <2>3. CASE SetKeys(d, k) /\ AcquireScript(d, k, i) /\ ~UNCHANGED <<val, ttl>>
    <3>1. \A r2 \in Keys[d] : val[k][r2] = NoVal
      BY <2>3 DEF AcquireScript
    <3>2. k # n \/ r \notin Keys[d]
      BY <1>2, <3>1
    <3> QED
      BY <1>2, <2>1, <2>3, <3>2 DEF SetKeys, TypeOK
  <2>4. CASE SetKeys(d, k) /\ ExtendScript(d, k, i) /\ ~UNCHANGED <<val, ttl>>
    <3>1. \A r2 \in Keys[d] : val[k][r2] = d
      BY <2>4 DEF ExtendScript, Owned
    <3>2. k # n \/ r \notin Keys[d] \/ d = c
      BY <1>2, <3>1
    <3>3. CASE k # n \/ r \notin Keys[d]
      BY <1>2, <2>1, <2>4, <3>3 DEF SetKeys, TypeOK
    <3>4. CASE k = n /\ r \in Keys[d] /\ d = c
      <4>1. val'[n][r] = c /\ ttl'[n][r] = now + Duration
        BY <2>1, <2>4, <3>4 DEF SetKeys, TypeOK
      <4>2. ttl[n][r] <= now + Duration /\ ttl[n][r] \in Nat
        BY <1>2, <2>1 DEF Past, TypeOK
      <4> QED
        BY <1>2, <4>1, <4>2, DriftIsNat DEF TypeOK
    <3> QED BY <3>2, <3>3, <3>4
  <2>5. CASE ReleaseScript(d, k, i) /\ d # c
    <3>1. k # n \/ r \notin Owned(d, k)
      BY <1>2, <2>5 DEF Owned
    <3> QED
      BY <1>2, <2>1, <2>5, <3>1 DEF ReleaseScript, TypeOK
  <2> QED
    BY <2>2, <2>3, <2>4, <2>5 DEF NoScript, AcquireScript, ExtendScript, nodeVars
<1> QED
  BY <1>1, <1>2 DEF Backed

LEMMA EnvironmentBacked ==
  ASSUME TypeOK, NEW c \in Calls, NEW n \in Nodes, NEW e \in Int, Backed(c, n, e), Environment
  PROVE  Backed(c, n, e)'
<1> USE ConstantsAssumption, DriftAssumption, DriftIsNat
<1>1. CASE Tick
  BY <1>1 DEF Tick, Backed, TypeOK, nodeVars
<1>2. ASSUME NEW k \in Nodes, Restart(k)
      PROVE  Backed(c, n, e)'
  BY <1>2 DEF Restart, Backed, TypeOK
<1>3. ASSUME NEW k \in Nodes, NEW r \in Resources, Expire(k, r)
      PROVE  Backed(c, n, e)'
  <2>1. CASE k = n /\ r \in Keys[c] /\ n \notin lost /\ ~(now > e)
    <3>1. ttl[n][r] >= e + Drift /\ ttl[n][r] \in Nat /\ now \in Nat
      BY <2>1 DEF Backed, TypeOK
    <3>2. now >= ttl[n][r] - Skew
      BY <1>3, <2>1 DEF Expire
    <3> QED
      BY <2>1, <3>1, <3>2
  <2>2. CASE k # n \/ r \notin Keys[c]
    BY <1>3, <2>2 DEF Expire, Backed, TypeOK
  <2>3. CASE n \in lost \/ now > e
    BY <1>3, <2>3 DEF Expire, Backed
  <2> QED BY <2>1, <2>2, <2>3
<1>4. ASSUME NEW d \in Calls, NEW k \in Nodes, ConnFails(d, k) \/ Resend(d, k)
      PROVE  Backed(c, n, e)'
  BY <1>4 DEF ConnFails, Resend, Backed, nodeVars
<1> QED
  BY <1>1, <1>2, <1>3, <1>4 DEF Environment

LEMMA LeaseKept ==
  ASSUME NEW c \in Calls, Cardinality({n \in Nodes : Backed(c, n, exp[c])}) >= Quorum,
         \A n \in Nodes : Backed(c, n, exp[c]) => Backed(c, n, exp[c])'
  PROVE  Cardinality({n \in Nodes : Backed(c, n, exp[c])'}) >= Quorum
<1> DEFINE S == {n \in Nodes : Backed(c, n, exp[c])}
           T == {n \in Nodes : Backed(c, n, exp[c])'}
<1>1. S \subseteq T /\ T \subseteq Nodes
  OBVIOUS
<1>2. IsFiniteSet(T) /\ IsFiniteSet(S)
  BY <1>1, ConstantsAssumption, FS_Subset
<1>3. Cardinality(S) <= Cardinality(T)
  BY <1>1, <1>2, FS_Subset
<1>4. Cardinality(S) \in Nat /\ Cardinality(T) \in Nat
  BY <1>2, FS_CardinalityType
<1> QED
  BY <1>3, <1>4, QuorumIsMajority

LEMMA CallerSafe ==
  ASSUME SafeInv, NEW c \in Calls, Caller(c)
  PROVE  NoReleaseSent' /\ RoundBound' /\ Past' /\ VoteBacked' /\ LeaseBacked'
<1> USE DEF SafeInv, TypeInv
<1>1. PICK s \in Slots, k \in Nat, script \in Scripts :
        /\ Attempt(c, s, k, script, queue[c])
        /\ s = SlotOf(script)
        /\ s = "unlock" => phase'[c] \notin {"idle", "acquiring", "held"}
  <2>1. CASE Acquire(c)
    <3>1. Attempt(c, "lock", 1, "acquire", queue[c]) /\ "lock" = SlotOf("acquire")
      BY <2>1 DEF Acquire, SlotOf
    <3> QED BY <3>1 DEF Slots, Scripts
  <2>2. CASE Extend(c)
    <3>1. Attempt(c, "lock", 1, "extend", queue[c]) /\ "lock" = SlotOf("extend")
      BY <2>2 DEF Extend, SlotOf
    <3> QED BY <3>1 DEF Slots, Scripts
  <2>3. CASE Release(c)
    <3>1. Attempt(c, "unlock", 1, "release", queue[c]) /\ "unlock" = SlotOf("release")
      BY <2>3 DEF Release, SlotOf
    <3>2. phase'[c] = "releasing"
      BY <2>3 DEF Release, TypeOK
    <3> QED BY <3>1, <3>2 DEF Slots, Scripts
  <2>4. ASSUME NEW s \in Slots, Retry(c, s)
        PROVE  \E k \in Nat, script \in Scripts :
                 /\ Attempt(c, s, k, script, queue[c])
                 /\ s = SlotOf(script)
                 /\ s = "unlock" => phase'[c] \notin {"idle", "acquiring", "held"}
    <3>1. Attempt(c, s, tries[c][s] + 1, ScriptOf(c, s), queue[c]) /\ tries[c][s] + 1 \in Nat
      BY <2>4 DEF Retry, TypeOK
    <3>2. ScriptOf(c, s) \in Scripts /\ s = SlotOf(ScriptOf(c, s))
      BY DEF ScriptOf, SlotOf, Scripts, Slots
    <3>3. s = "unlock" => phase'[c] \notin {"idle", "acquiring", "held"}
      BY <2>4 DEF Retry, NoReleaseSent, handleVars
    <3> QED BY <3>1, <3>2, <3>3
  <2> QED BY <2>1, <2>2, <2>3, <2>4 DEF Caller
<1>2. /\ \A n \in Nodes : \A m \in Sent(c, n)' : m \notin Sent(c, n) =>
           m.script = script /\ m.rnd = round[c][s] + 1 /\ m.res = "sent"
      /\ \A d \in Calls \ {c}, n \in Nodes : Sent(d, n)' = Sent(d, n)
  <2>1. TypeOK /\ Attempt(c, s, k, script, queue[c])
    BY <1>1
  <2> HIDE <1>1 DEF SafeInv, TypeInv
  <2> QED BY <2>1, AttemptSent
<1>3. /\ UNCHANGED <<now, val, ttl, lost>>
      /\ \A d \in Calls : phase'[d] # "held" \/ (phase[d] = "held" /\ exp'[d] = exp[d])
      /\ \A d \in Calls : phase'[d] \in {"idle", "acquiring", "held"} =>
           phase[d] \in {"idle", "acquiring", "held"}
      /\ \A d \in Calls \ {c} : phase'[d] = phase[d]
  BY DEF Caller, Acquire, Extend, Release, Retry, nodeVars, handleVars, TypeOK
<1>4. /\ run' = [run EXCEPT ![c][s] = "attempt"]
      /\ round' = [round EXCEPT ![c][s] = @ + 1]
      /\ votes' = [votes EXCEPT ![c][s] = NoVotes]
      /\ start' = IF s = "lock" THEN [start EXCEPT ![c] = now] ELSE start
  BY <1>1 DEF Attempt
<1>5. \A d \in Calls, n \in Nodes, e \in Int : Backed(d, n, e)' = Backed(d, n, e)
  BY <1>3 DEF Backed
<1>6. s = "unlock" \/ (s = "lock" /\ script # "release")
  BY <1>1 DEF SlotOf, Slots
<1>7. "lock" \in Slots /\ "unlock" \in Slots
  BY DEF Slots
<1>11. NoReleaseSent'
  <2> SUFFICES ASSUME NEW d \in Calls, phase'[d] \in {"idle", "acquiring", "held"}
               PROVE  /\ run'[d]["unlock"] = "idle"
                      /\ \A n \in Nodes : \A m \in Sent(d, n)' : m.script # "release"
    BY DEF NoReleaseSent
  <2>1. /\ run[d]["unlock"] = "idle"
        /\ \A n \in Nodes : \A m \in Sent(d, n) : m.script # "release"
    BY <1>3 DEF NoReleaseSent
  <2>2. d # c \/ s = "lock"
    BY <1>1, <1>6
  <2>3. run'[d]["unlock"] = "idle"
    BY <1>4, <1>7, <2>1, <2>2 DEF TypeOK
  <2> QED
    BY <1>2, <1>6, <2>1, <2>2, <2>3
<1>12. RoundBound'
  <2> SUFFICES ASSUME NEW d \in Calls, NEW n \in Nodes, NEW m \in Sent(d, n)', m.script # "release"
               PROVE  m.rnd <= round'[d]["lock"]
    BY DEF RoundBound
  <2>1. round[d]["lock"] \in Nat /\ round'[d]["lock"] \in Nat /\ round'[d]["lock"] >= round[d]["lock"]
        /\ (d = c /\ s = "lock" => round'[d]["lock"] = round[d]["lock"] + 1)
    <3>1. round \in [Calls -> [Slots -> Nat]] /\ round' = [round EXCEPT ![c][s] = round[c][s] + 1]
      BY <1>4 DEF TypeOK
    <3> QED BY <1>7, <3>1
  <2>2. CASE m \in Sent(d, n)
    <3>1. m.rnd <= round[d]["lock"]
      BY <2>2 DEF RoundBound
    <3>2. m.rnd \in Nat
      BY <2>2, SentType DEF Command
    <3> QED BY <2>1, <3>1, <3>2
  <2>3. CASE m \notin Sent(d, n)
    <3>1. d = c /\ m.script = script /\ m.rnd = round[c][s] + 1
      BY <1>2, <2>3
    <3>2. s = "lock"
      BY <1>1, <3>1 DEF SlotOf
    <3> QED BY <2>1, <3>1, <3>2
  <2> QED BY <2>2, <2>3
<1>13. Past'
  BY <1>3, <1>4 DEF Past, TypeOK
<1>14. VoteBacked'
  <2> SUFFICES ASSUME NEW d \in Calls, NEW n \in Nodes,
                      phase'[d] \in {"acquiring", "held"}, run'[d]["lock"] = "attempt", ForVote(d, n)'
               PROVE  Backed(d, n, LeaseEnd(d))'
    BY DEF VoteBacked
  <2>1. CASE d = c /\ s = "lock"
    <3>1. votes'[d]["lock"][n] = "none" /\ round'[d]["lock"] = round[d]["lock"] + 1
      BY <1>4, <1>7, <2>1 DEF TypeOK, NoVotes
    <3>2. PICK m \in Sent(d, n)' : m.script # "release" /\ m.res = "for" /\ m.rnd = round[d]["lock"] + 1
      BY <3>1 DEF ForVote
    <3>3. m \in Sent(d, n)
      BY <1>2, <2>1, <3>2
    <3>4. m.rnd <= round[d]["lock"]
      BY <3>2, <3>3 DEF RoundBound
    <3>5. round[d]["lock"] \in Nat
      BY DEF TypeOK, Slots
    <3> QED BY <3>2, <3>4, <3>5
  <2>2. CASE d # c \/ s # "lock"
    <3>1. /\ run'[d]["lock"] = run[d]["lock"] /\ round'[d]["lock"] = round[d]["lock"]
          /\ votes'[d]["lock"] = votes[d]["lock"] /\ start'[d] = start[d]
      BY <1>4, <1>7, <2>2 DEF TypeOK
    <3>2. d # c
      BY <1>1, <1>6, <2>2
    <3>3. phase[d] \in {"acquiring", "held"} /\ Sent(d, n)' = Sent(d, n)
      BY <1>2, <1>3, <3>2
    <3>4. ForVote(d, n)
      BY <3>1, <3>3 DEF ForVote
    <3>5. Backed(d, n, LeaseEnd(d))
      BY <3>1, <3>3, <3>4 DEF VoteBacked
    <3> QED BY <1>3, <3>1, <3>5 DEF Backed, LeaseEnd
  <2> QED BY <2>1, <2>2
<1>15. LeaseBacked'
  <2> SUFFICES ASSUME NEW d \in Calls, phase'[d] = "held"
               PROVE  Cardinality({n \in Nodes : Backed(d, n, exp[d])'}) >= Quorum
    BY DEF LeaseBacked
  <2>1. phase[d] = "held" /\ exp'[d] = exp[d]
    BY <1>3
  <2>2. \A n \in Nodes : Backed(d, n, exp[d]) => Backed(d, n, exp[d])'
    BY <1>3, <2>1 DEF Backed
  <2> QED BY <2>1, <2>2, LeaseKept DEF LeaseBacked
<1> QED
  BY <1>11, <1>12, <1>13, <1>14, <1>15

(* The voters counted by Counted voted for the attempt. *)
LEMMA CountedForVote ==
  ASSUME TypeOK, NEW c \in Calls, NEW n \in Nodes, Answers(c, n, "lock"), NEW k \in Nodes,
         Counted(c, n, "lock")[k] = "for"
  PROVE  ForVote(c, k)
<1>1. queue[c][n] # << >> /\ queue[c][n] \in Seq(Command)
  BY DEF Answers, Answered, TypeOK
<1>2. Head(queue[c][n]) \in Sent(c, n)
  <2>1. 1 \in DOMAIN queue[c][n] /\ Head(queue[c][n]) = queue[c][n][1]
    BY <1>1
  <2> QED BY <2>1 DEF Sent
<1>3. CASE k = n
  <2>1. Counted(c, n, "lock")[n] = Head(queue[c][n]).res
    BY DEF Counted, TypeOK, Slots
  <2>2. SlotOf(Head(queue[c][n]).script) = "lock" /\ Head(queue[c][n]).rnd = round[c]["lock"]
    BY DEF Answers
  <2>3. Head(queue[c][n]).script # "release"
    BY <2>2 DEF SlotOf
  <2> QED BY <1>2, <1>3, <2>1, <2>2, <2>3 DEF ForVote
<1>4. CASE k # n
  <2>1. Counted(c, n, "lock")[k] = votes[c]["lock"][k]
    BY <1>4 DEF Counted, TypeOK, Slots
  <2> QED BY <2>1 DEF ForVote
<1> QED BY <1>3, <1>4

(* Every way to handle an answer takes it from the connection, and sends   *)
(* at most the script's text or, when acquire() fails, a release.          *)
LEMMA HandleSent ==
  ASSUME TypeOK, NEW c \in Calls, NEW n \in Nodes, Handle(c, n)
  PROVE  /\ \A d \in Calls, k \in Nodes : \A m \in Sent(d, k)' : m \in Sent(d, k) \/
              \/ m.res = "sent" /\ \E m0 \in Sent(d, k) : m0.script = m.script /\ m0.rnd = m.rnd
              \/ d = c /\ m.script = "release" /\ phase'[c] = "cleanup"
         /\ UNCHANGED <<now, val, ttl, lost, start>>
<1>1. UNCHANGED <<now, val, ttl, lost, start>>
  BY DEF Handle, CountVote, RetryLater, LockSucceeds, AcquireFails, ExtendFails, UnlockEnds,
         IgnoreAnswer, FallBackToEval, Cleanup, nodeVars, attemptVars
<1>2. queue[c][n] # << >> /\ queue[c][n] \in Seq(Command)
  <2>1. Answered(c, n)
    BY DEF Handle, CountVote, RetryLater, LockSucceeds, AcquireFails, ExtendFails, UnlockEnds,
           IgnoreAnswer, FallBackToEval, Answers
  <2>2. queue[c][n] \in Seq(Command)
    BY DEF TypeOK
  <2> QED BY <2>1, <2>2 DEF Answered
<1>3. CASE queue' = Pop(c, n)
  BY <1>1, <1>2, <1>3, PopSent
<1>4. CASE AcquireFails(c, n)
  <2> DEFINE m == [script |-> "release", rnd |-> round[c]["unlock"] + 1, raw |-> FALSE, res |-> "sent"]
             q == Pop(c, n)[c]
  <2>1. queue' = [queue EXCEPT ![c] = [k \in Nodes |-> Append(q[k], m)]] /\ phase'[c] = "cleanup"
    BY <1>4 DEF AcquireFails, Cleanup, TypeOK
  <2>2. Pop(c, n) \in [Calls -> [Nodes -> Seq(Command)]]
    BY <1>2, PopType
  <2>3. m \in Command /\ m.script = "release"
    BY DEF TypeOK, Command, Scripts, Slots
  <2>4. /\ \A k \in Nodes : queue'[c][k] = Append(q[k], m)
        /\ \A d \in Calls \ {c} : queue'[d] = queue[d]
    <3> HIDE DEF m, q
    <3> QED BY <2>1 DEF TypeOK
  <2>5. q \in [Nodes -> Seq(Command)]
    BY <2>2
  <2>6. \A k \in Nodes : \A i \in DOMAIN q[k] : q[k][i] \in Sent(c, k)
    <3> SUFFICES ASSUME NEW k \in Nodes, NEW i \in DOMAIN q[k]
                 PROVE  q[k][i] \in Sent(c, k)
      OBVIOUS
    <3>1. CASE k = n
      <4>1. q[k] = Tail(queue[c][n])
        BY <3>1 DEF Pop, TypeOK
      <4>2. i + 1 \in DOMAIN queue[c][n] /\ Tail(queue[c][n])[i] = queue[c][n][i + 1]
        BY <1>2, <4>1
      <4> QED BY <3>1, <4>1, <4>2 DEF Sent
    <3>2. CASE k # n
      <4>1. q[k] = queue[c][k]
        BY <3>2 DEF Pop, TypeOK
      <4> QED BY <4>1 DEF Sent
    <3> QED BY <3>1, <3>2
  <2>7. /\ \A k \in Nodes : Sent(c, k)' \subseteq Sent(c, k) \union {m}
        /\ \A d \in Calls \ {c}, k \in Nodes : Sent(d, k)' = Sent(d, k)
    <3> HIDE DEF m, q
    <3> QED BY <2>3, <2>4, <2>5, <2>6, AppendSent
  <2> HIDE DEF m, q
  <2> QED BY <1>1, <2>1, <2>3, <2>7
<1>5. CASE FallBackToEval(c, n)
  <2> DEFINE h == Head(queue[c][n])
             m == [h EXCEPT !.raw = TRUE, !.res = "sent"]
             q == [queue[c] EXCEPT ![n] = Tail(queue[c][n])]
             t == Append(Tail(queue[c][n]), m)
  <2>1. h \in Command
    BY <1>2, PopType
  <2>2. m.script = h.script /\ m.rnd = h.rnd /\ m.res = "sent"
    BY <2>1 DEF Command
  <2>3. queue'[c][n] = t /\ \A d \in Calls, k \in Nodes : d # c \/ k # n => queue'[d][k] = queue[d][k]
    BY <1>5 DEF FallBackToEval, TypeOK
  <2>4. 1 \in DOMAIN queue[c][n] /\ h = queue[c][n][1]
    BY <1>2
  <2>5. h \in Sent(c, n)
    BY <2>4 DEF Sent
  <2>6. \A i \in DOMAIN t : (i + 1 \in DOMAIN queue[c][n] /\ t[i] = queue[c][n][i + 1]) \/ t[i] = m
    <3> HIDE DEF m
    <3> QED BY <1>2
  <2>7. \A i \in DOMAIN t : t[i] \in Sent(c, n) \union {m}
    <3> HIDE DEF t, m
    <3> QED BY <2>6 DEF Sent
  <2>8. Sent(c, n)' = {t[i] : i \in DOMAIN t}
    BY <2>3 DEF Sent
  <2>9. Sent(c, n)' \subseteq Sent(c, n) \union {m}
    <3> HIDE DEF t, m
    <3> QED BY <2>7, <2>8
  <2>10. ASSUME NEW d \in Calls, NEW k \in Nodes, d # c \/ k # n
         PROVE  Sent(d, k)' = Sent(d, k)
    <3>1. queue'[d][k] = queue[d][k]
      BY <2>3, <2>10
    <3> QED BY <3>1 DEF Sent
  <2> HIDE DEF t, m, h
  <2> QED BY <1>1, <2>2, <2>5, <2>9, <2>10
<1> QED
  BY <1>3, <1>4, <1>5 DEF Handle, CountVote, RetryLater, LockSucceeds, ExtendFails, UnlockEnds,
                          IgnoreAnswer

(* What handling an answer does to the state of the attempts. *)
LEMMA HandleState ==
  ASSUME SafeInv, NEW c \in Calls, NEW n \in Nodes, Handle(c, n)
  PROVE  \A d \in Calls :
           /\ phase'[d] \in {"acquiring", "held"} => phase[d] \in {"acquiring", "held"}
           /\ phase'[d] = "idle" => phase[d] = "idle"
           /\ phase'[d] \in {"idle", "acquiring", "held"} => run'[d]["unlock"] = "idle"
           /\ run'[d]["lock"] = "attempt" => run[d]["lock"] = "attempt"
           /\ round'[d]["lock"] = round[d]["lock"]
           /\ \A k \in Nodes : votes'[d]["lock"][k] = "for" => ForVote(d, k)
<1> DEFINE Goal == \A d \in Calls :
           /\ phase'[d] \in {"acquiring", "held"} => phase[d] \in {"acquiring", "held"}
           /\ phase'[d] = "idle" => phase[d] = "idle"
           /\ phase'[d] \in {"idle", "acquiring", "held"} => run'[d]["unlock"] = "idle"
           /\ run'[d]["lock"] = "attempt" => run[d]["lock"] = "attempt"
           /\ round'[d]["lock"] = round[d]["lock"]
           /\ \A k \in Nodes : votes'[d]["lock"][k] = "for" => ForVote(d, k)
<1> USE DEF SafeInv, TypeInv
<1>1. "lock" \in Slots /\ "unlock" \in Slots /\ \A s \in Slots : s = "lock" \/ s = "unlock"
  BY DEF Slots
<1>2. \A d \in Calls : phase[d] \in {"idle", "acquiring", "held"} => run[d]["unlock"] = "idle"
  BY DEF NoReleaseSent
<1>3. \A d \in Calls, k \in Nodes : votes[d]["lock"][k] = "for" => ForVote(d, k)
  BY DEF ForVote
<1>4. ASSUME NEW s \in Slots, CountVote(c, n, s)
      PROVE  Goal
  <2>1. UNCHANGED <<phase, run, round>> /\ votes' = [votes EXCEPT ![c][s] = Counted(c, n, s)]
        /\ Answers(c, n, s)
    BY <1>4 DEF CountVote, handleVars
  <2>2. ASSUME NEW d \in Calls, NEW k \in Nodes, votes'[d]["lock"][k] = "for"
        PROVE  ForVote(d, k)
    <3>1. CASE d = c /\ s = "lock"
      <4>1. votes'[d]["lock"] = Counted(c, n, "lock")
        BY <1>1, <2>1, <3>1 DEF TypeOK
      <4> QED BY <2>1, <2>2, <3>1, <4>1, CountedForVote
    <3>2. CASE d # c \/ s # "lock"
      <4>1. votes'[d]["lock"] = votes[d]["lock"]
        BY <1>1, <2>1, <3>2 DEF TypeOK
      <4> QED BY <1>3, <2>2, <4>1
    <3> QED BY <3>1, <3>2
  <2> QED BY <1>2, <2>1, <2>2
<1>5. ASSUME NEW s \in Slots, NEW next \in {"idle", "wait"}, Settle(c, s, next), UNCHANGED round,
             \A d \in Calls : phase'[d] \in {"acquiring", "held"} => phase[d] \in {"acquiring", "held"},
             \A d \in Calls : phase'[d] = "idle" => phase[d] = "idle",
             s = "unlock" => phase'[c] \notin {"idle", "acquiring", "held"}
      PROVE  Goal
  <2>1. run' = [run EXCEPT ![c][s] = next] /\ votes' = [votes EXCEPT ![c][s] = NoVotes]
    BY <1>5 DEF Settle
  <2>2. ASSUME NEW d \in Calls, NEW k \in Nodes, votes'[d]["lock"][k] = "for"
        PROVE  ForVote(d, k)
    <3>1. CASE d = c /\ s = "lock"
      BY <1>1, <2>1, <2>2, <3>1 DEF TypeOK, NoVotes
    <3>2. CASE d # c \/ s # "lock"
      <4>1. votes'[d]["lock"] = votes[d]["lock"]
        BY <1>1, <2>1, <3>2 DEF TypeOK
      <4> QED BY <1>3, <2>2, <4>1
    <3> QED BY <3>1, <3>2
  <2>3. \A d \in Calls : phase'[d] \in {"idle", "acquiring", "held"} => run'[d]["unlock"] = "idle"
    <3> SUFFICES ASSUME NEW d \in Calls, phase'[d] \in {"idle", "acquiring", "held"}
                 PROVE  run'[d]["unlock"] = "idle"
      OBVIOUS
    <3>1. run[d]["unlock"] = "idle"
      BY <1>2, <1>5
    <3>2. d # c \/ s = "lock"
      BY <1>1, <1>5
    <3> QED BY <1>1, <2>1, <3>1, <3>2 DEF TypeOK
  <2>4. \A d \in Calls : run'[d]["lock"] = "attempt" => run[d]["lock"] = "attempt"
    BY <1>1, <2>1 DEF TypeOK
  <2> QED BY <1>5, <2>2, <2>3, <2>4
<1>6. ASSUME NEW s \in Slots, RetryLater(c, n, s)
      PROVE  Goal
  <2>1. Settle(c, s, "wait") /\ UNCHANGED <<round, phase>> /\ run[c][s] = "attempt"
    BY <1>6 DEF RetryLater, Answers, handleVars
  <2>2. s = "unlock" => phase[c] \notin {"idle", "acquiring", "held"}
    BY <1>2, <2>1
  <2> QED BY <1>5, <2>1, <2>2
<1>7. CASE LockSucceeds(c, n)
  <2>1. Settle(c, "lock", "idle") /\ UNCHANGED round
        /\ phase' = IF phase[c] = "acquiring" THEN [phase EXCEPT ![c] = "held"] ELSE phase
    BY <1>7 DEF LockSucceeds
  <2>2. \A d \in Calls : phase'[d] = phase[d] \/ (phase[d] = "acquiring" /\ phase'[d] = "held")
    BY <2>1 DEF TypeOK
  <2> QED BY <1>1, <1>5, <2>1, <2>2
<1>8. CASE ExtendFails(c, n)
  <2>1. Settle(c, "lock", "idle") /\ UNCHANGED <<round, phase>>
    BY <1>8 DEF ExtendFails, handleVars
  <2> QED BY <1>1, <1>5, <2>1
<1>9. CASE UnlockEnds(c, n)
  <2>1. Settle(c, "unlock", "idle") /\ UNCHANGED round
    BY <1>9 DEF UnlockEnds
  <2>2. phase'[c] \in {"failed", "released", "unreleased"} /\ \A d \in Calls \ {c} : phase'[d] = phase[d]
    BY <1>9 DEF UnlockEnds, TypeOK
  <2> QED BY <1>1, <1>5, <2>1, <2>2
<1>10. CASE AcquireFails(c, n)
  <2>1. /\ phase'[c] = "cleanup" /\ run'[c]["lock"] = "idle" /\ votes'[c]["lock"] = NoVotes
        /\ \A d \in Calls \ {c} : phase'[d] = phase[d] /\ run'[d] = run[d] /\ votes'[d] = votes[d]
    BY <1>1, <1>10 DEF AcquireFails, Cleanup, TypeOK
  <2>2. \A d \in Calls : round'[d]["lock"] = round[d]["lock"]
    <3>1. round' = [round EXCEPT ![c]["unlock"] = @ + 1]
      BY <1>10 DEF AcquireFails, Cleanup
    <3> QED BY <1>1, <3>1 DEF TypeOK
  <2>3. \A k \in Nodes : votes'[c]["lock"][k] # "for"
    BY <2>1 DEF NoVotes
  <2> QED BY <1>2, <1>3, <2>1, <2>2, <2>3
<1>11. CASE IgnoreAnswer(c, n) \/ FallBackToEval(c, n)
  <2>1. UNCHANGED <<phase, run, round, votes>>
    BY <1>11 DEF IgnoreAnswer, FallBackToEval, handleVars, attemptVars
  <2> QED BY <1>2, <1>3, <2>1
<1> QED
  BY <1>4, <1>6, <1>7, <1>8, <1>9, <1>10, <1>11 DEF Handle

LEMMA HandleSafe ==
  ASSUME SafeInv, NEW c \in Calls, NEW n \in Nodes, Handle(c, n)
  PROVE  NoReleaseSent' /\ RoundBound' /\ Past' /\ VoteBacked' /\ LeaseBacked'
<1> USE DEF SafeInv, TypeInv
<1>1. /\ \A d \in Calls, k \in Nodes : \A m \in Sent(d, k)' : m \in Sent(d, k) \/
           \/ m.res = "sent" /\ \E m0 \in Sent(d, k) : m0.script = m.script /\ m0.rnd = m.rnd
           \/ d = c /\ m.script = "release" /\ phase'[c] = "cleanup"
      /\ UNCHANGED <<now, val, ttl, lost, start>>
  BY HandleSent
<1>2. \A d \in Calls :
           /\ phase'[d] \in {"acquiring", "held"} => phase[d] \in {"acquiring", "held"}
           /\ phase'[d] = "idle" => phase[d] = "idle"
           /\ phase'[d] \in {"idle", "acquiring", "held"} => run'[d]["unlock"] = "idle"
           /\ run'[d]["lock"] = "attempt" => run[d]["lock"] = "attempt"
           /\ round'[d]["lock"] = round[d]["lock"]
           /\ \A k \in Nodes : votes'[d]["lock"][k] = "for" => ForVote(d, k)
  BY HandleState
<1>3. NoReleaseSent'
  BY <1>1, <1>2 DEF NoReleaseSent
<1>4. RoundBound'
  BY <1>1, <1>2 DEF RoundBound
<1>5. Past'
  BY <1>1 DEF Past
<1>6. VoteBacked'
  <2> SUFFICES ASSUME NEW d \in Calls, NEW k \in Nodes,
                      phase'[d] \in {"acquiring", "held"}, run'[d]["lock"] = "attempt", ForVote(d, k)'
               PROVE  Backed(d, k, LeaseEnd(d))'
    BY DEF VoteBacked
  <2>1. ForVote(d, k)
    <3>1. CASE votes'[d]["lock"][k] = "for"
      BY <1>2, <3>1
    <3>2. CASE votes'[d]["lock"][k] # "for"
      <4>1. PICK m \in Sent(d, k)' :
              m.script # "release" /\ m.res = "for" /\ m.rnd = round'[d]["lock"]
        BY <3>2 DEF ForVote
      <4>2. m \in Sent(d, k)
        BY <1>1, <4>1
      <4> QED BY <1>2, <4>1, <4>2 DEF ForVote
    <3> QED BY <3>1, <3>2
  <2>2. Backed(d, k, LeaseEnd(d))
    BY <1>2, <2>1 DEF VoteBacked
  <2> QED BY <1>1, <2>2 DEF Backed, LeaseEnd
<1>7. LeaseBacked'
  <2> SUFFICES ASSUME NEW d \in Calls, phase'[d] = "held"
               PROVE  Cardinality({k \in Nodes : Backed(d, k, exp[d])'}) >= Quorum
    BY DEF LeaseBacked
  <2>1. CASE phase[d] = "held" /\ exp'[d] = exp[d]
    <3>1. \A k \in Nodes : Backed(d, k, exp[d]) => Backed(d, k, exp[d])'
      BY <1>1, <2>1 DEF Backed
    <3> QED BY <2>1, <3>1, LeaseKept DEF LeaseBacked
  <2>2. CASE d = c /\ LockSucceeds(c, n)
    <3> DEFINE S == {k \in Nodes : Counted(c, n, "lock")[k] = "for"}
               T == {k \in Nodes : Backed(c, k, exp[c])'}
    <3>1. phase[c] \in {"acquiring", "held"}
      BY <1>2, <2>2
    <3>2. Answers(c, n, "lock") /\ Cardinality(S) = Quorum /\ exp'[c] = LeaseEnd(c)
      BY <2>2 DEF LockSucceeds, QuorumFor, TypeOK
    <3>3. run[c]["lock"] = "attempt"
      BY <3>2 DEF Answers
    <3>4. ASSUME NEW k \in S
          PROVE  k \in T
      <4>1. ForVote(c, k)
        BY <3>2, CountedForVote
      <4>2. Backed(c, k, LeaseEnd(c))
        BY <3>1, <3>3, <4>1 DEF VoteBacked
      <4> QED BY <1>1, <3>2, <4>2 DEF Backed
    <3>5. S \subseteq T /\ T \subseteq Nodes
      BY <3>4
    <3> HIDE DEF S, T
    <3>6. IsFiniteSet(T)
      BY <3>5, ConstantsAssumption, FS_Subset
    <3>7. IsFiniteSet(S) /\ Cardinality(S) <= Cardinality(T)
      BY <3>5, <3>6, FS_Subset
    <3>8. Cardinality(T) >= Quorum
      BY <3>2, <3>6, <3>7, FS_CardinalityType
    <3> QED BY <2>2, <3>8 DEF T
  <2>3. (d = c /\ LockSucceeds(c, n)) \/ (phase[d] = "held" /\ exp'[d] = exp[d])
    BY DEF Handle, CountVote, RetryLater, LockSucceeds, AcquireFails, Cleanup, ExtendFails, UnlockEnds,
           IgnoreAnswer, FallBackToEval, handleVars, TypeOK
  <2> QED BY <2>1, <2>2, <2>3
<1> QED
  BY <1>3, <1>4, <1>5, <1>6, <1>7

LEMMA NodeExecSafe ==
  ASSUME SafeInv, NEW c \in Calls, NEW n \in Nodes, NodeExec(c, n)
  PROVE  NoReleaseSent' /\ RoundBound' /\ Past' /\ VoteBacked' /\ LeaseBacked'
<1> USE DEF SafeInv, TypeInv
<1>1. PICK i \in DOMAIN queue[c][n] :
        NoScript(c, n, i) \/ AcquireScript(c, n, i) \/ ExtendScript(c, n, i) \/ ReleaseScript(c, n, i)
  BY DEF NodeExec
<1> DEFINE q == queue[c][n][i]
<1>2. UNCHANGED <<now, lost, phase, exp, run, round, votes, start>>
  BY <1>1 DEF NoScript, AcquireScript, ExtendScript, ReleaseScript, Reply, nodeVars, handleVars,
              attemptVars
<1> DEFINE Answer(res) == \A d \in Calls, k \in Nodes : \A m \in Sent(d, k)' : m \in Sent(d, k) \/
        /\ d = c /\ k = n /\ m.res = res
        /\ m.script = q.script /\ m.rnd = q.rnd
<1>3. /\ queue' = [queue EXCEPT ![c][n][i].res = "noscript"] => Answer("noscript")
      /\ queue' = [queue EXCEPT ![c][n][i].res = "for"] => Answer("for")
      /\ queue' = [queue EXCEPT ![c][n][i].res = "locked"] => Answer("locked")
  <2>1. TypeOK
    OBVIOUS
  <2> HIDE DEF SafeInv, TypeInv
  <2> QED BY <2>1, ResultSent
<1>4. PICK res \in {"for", "locked", "noscript"} :
        /\ Answer(res)
        /\ res = "for" => SetKeys(c, n) \/ ReleaseScript(c, n, i)
  <2>1. CASE NoScript(c, n, i)
    <3>1. Answer("noscript")
      BY <1>3, <2>1 DEF NoScript
    <3> HIDE DEF Answer
    <3> QED BY <3>1
  <2>2. ASSUME NEW ok \in BOOLEAN, Reply(c, n, i, ok), ok => SetKeys(c, n) \/ ReleaseScript(c, n, i)
        PROVE  \E res \in {"for", "locked", "noscript"} :
                 /\ Answer(res)
                 /\ res = "for" => SetKeys(c, n) \/ ReleaseScript(c, n, i)
    <3>1. CASE ok
      <4>1. queue' = [queue EXCEPT ![c][n][i].res = "for"]
        BY <2>2, <3>1 DEF Reply
      <4>2. Answer("for")
        BY <1>3, <4>1
      <4> HIDE DEF Answer
      <4> QED BY <2>2, <3>1, <4>2
    <3>2. CASE ~ok
      <4>1. queue' = [queue EXCEPT ![c][n][i].res = "locked"]
        BY <2>2, <3>2 DEF Reply
      <4>2. Answer("locked")
        BY <1>3, <4>1
      <4> HIDE DEF Answer
      <4> QED BY <4>2
    <3> QED BY <3>1, <3>2
  <2>3. CASE AcquireScript(c, n, i)
    <3> DEFINE free == \A r \in Keys[c] : val[n][r] = NoVal
    <3>1. Reply(c, n, i, free) /\ (free => SetKeys(c, n)) /\ free \in BOOLEAN
      BY <2>3 DEF AcquireScript
    <3> HIDE DEF free, Answer
    <3> QED BY <2>2, <3>1
  <2>4. CASE ExtendScript(c, n, i)
    <3> DEFINE mine == Owned(c, n) = Keys[c]
    <3>1. Reply(c, n, i, mine) /\ (mine => SetKeys(c, n)) /\ mine \in BOOLEAN
      BY <2>4 DEF ExtendScript
    <3> HIDE DEF mine, Answer
    <3> QED BY <2>2, <3>1
  <2>5. CASE ReleaseScript(c, n, i)
    <3> DEFINE all == Owned(c, n) = Keys[c]
    <3>1. Reply(c, n, i, all) /\ all \in BOOLEAN
      BY <2>5 DEF ReleaseScript
    <3> HIDE DEF all, Answer
    <3> QED BY <2>2, <2>5, <3>1
  <2> HIDE DEF Answer
  <2> QED BY <1>1, <2>1, <2>3, <2>4, <2>5
<1>5. q \in Sent(c, n)
  BY DEF Sent
<1>6. phase[c] \in {"acquiring", "held"} => ~ReleaseScript(c, n, i) /\ q.script # "release"
  <2>1. ReleaseScript(c, n, i) => q.script = "release"
    BY DEF ReleaseScript, Runs
  <2> QED BY <1>5, <2>1 DEF NoReleaseSent
<1>7. \A d \in Calls, k \in Nodes, e \in Int :
        phase[d] \in {"acquiring", "held"} /\ Backed(d, k, e) => Backed(d, k, e)'
  <2> SUFFICES ASSUME NEW d \in Calls, NEW k \in Nodes, NEW e \in Int,
                      phase[d] \in {"acquiring", "held"}, Backed(d, k, e)
               PROVE  Backed(d, k, e)'
    OBVIOUS
  <2>1. c # d \/ ~ReleaseScript(c, n, i)
    BY <1>6
  <2> QED BY <1>1, <2>1, ScriptBacked
<1>11. NoReleaseSent'
  BY <1>2, <1>4, <1>5 DEF NoReleaseSent
<1>12. RoundBound'
  BY <1>2, <1>4, <1>5 DEF RoundBound
<1>13. Past'
  <2> SUFFICES ASSUME NEW k \in Nodes, NEW r \in Resources, val'[k][r] # NoVal
               PROVE  ttl'[k][r] <= now + Duration
    BY <1>2 DEF Past
  <2>1. CASE SetKeys(c, n)
    <3>1. ttl'[k][r] = now + Duration \/ (ttl'[k][r] = ttl[k][r] /\ val'[k][r] = val[k][r])
      BY <2>1 DEF SetKeys, TypeOK
    <3> QED BY <2>1, <3>1, ConstantsAssumption DEF Past, TypeOK
  <2>2. CASE ReleaseScript(c, n, i)
    <3>1. ttl'[k][r] = ttl[k][r] /\ val'[k][r] = val[k][r]
      BY <2>2 DEF ReleaseScript, TypeOK
    <3> QED BY <3>1 DEF Past
  <2>3. CASE UNCHANGED <<val, ttl>>
    BY <2>3 DEF Past
  <2> QED
    BY <1>1, <2>1, <2>2, <2>3 DEF NoScript, AcquireScript, ExtendScript, nodeVars
<1>14. VoteBacked'
  <2> SUFFICES ASSUME NEW d \in Calls, NEW k \in Nodes,
                      phase[d] \in {"acquiring", "held"}, run[d]["lock"] = "attempt", ForVote(d, k)'
               PROVE  Backed(d, k, LeaseEnd(d))'
    BY <1>2 DEF VoteBacked
  <2>1. CASE ForVote(d, k)
    <3>1. Backed(d, k, LeaseEnd(d)) /\ LeaseEnd(d) \in Int
      BY <2>1, LeaseEndIsInt DEF VoteBacked
    <3>2. now' = now /\ lost' = lost /\ start'[d] = start[d]
      BY <1>2
    <3> QED BY <1>7, <3>1, <3>2 DEF Backed, LeaseEnd
  <2>2. CASE ~ForVote(d, k)
    <3>1. PICK m \in Sent(d, k)' : m.script # "release" /\ m.res = "for" /\ m.rnd = round[d]["lock"]
      BY <1>2, <2>2 DEF ForVote
    <3>2. m \notin Sent(d, k)
      BY <2>2, <3>1 DEF ForVote
    <3>3. d = c /\ k = n /\ res = "for"
      BY <1>4, <3>1, <3>2
    <3>4. SetKeys(c, n)
      BY <1>4, <1>6, <3>3
    <3>5. \A r \in Keys[c] : val'[n][r] = c /\ ttl'[n][r] = now + Duration
      BY <3>4, ConstantsAssumption DEF SetKeys, TypeOK
    <3>6. start[c] <= now /\ start[c] \in Nat /\ now \in Nat
      BY DEF Past, TypeOK
    <3> QED
      BY <1>2, <3>3, <3>5, <3>6, DriftIsNat, ConstantsAssumption DEF Backed, LeaseEnd
  <2> QED BY <2>1, <2>2
<1>15. LeaseBacked'
  <2> SUFFICES ASSUME NEW d \in Calls, phase[d] = "held"
               PROVE  Cardinality({k \in Nodes : Backed(d, k, exp[d])'}) >= Quorum
    BY <1>2 DEF LeaseBacked
  <2>1. \A k \in Nodes : Backed(d, k, exp[d]) => Backed(d, k, exp[d])'
    <3>1. exp[d] \in Int /\ exp'[d] = exp[d]
      BY <1>2 DEF TypeOK
    <3> QED BY <1>7, <3>1 DEF Backed
  <2> QED BY <2>1, LeaseKept DEF LeaseBacked
<1> QED
  BY <1>11, <1>12, <1>13, <1>14, <1>15

LEMMA EnvironmentSafe ==
  ASSUME SafeInv, Environment
  PROVE  NoReleaseSent' /\ RoundBound' /\ Past' /\ VoteBacked' /\ LeaseBacked'
<1> USE DEF SafeInv, TypeInv
<1>1. UNCHANGED <<phase, exp, run, round, votes, start>>
  BY DEF Environment, Tick, Restart, Expire, ConnFails, Resend, handleVars, attemptVars
<1>2. \A d \in Calls, k \in Nodes : \A m \in Sent(d, k)' :
        \E m0 \in Sent(d, k) : m0.script = m.script /\ m0.rnd = m.rnd /\ (m = m0 \/ m.res # "for")
  <2>1. CASE queue' = queue
    BY <2>1 DEF Sent
  <2>2. ASSUME NEW c \in Calls, NEW n \in Nodes, ConnFails(c, n) \/ Resend(c, n)
        PROVE  \A d \in Calls, k \in Nodes : \A m \in Sent(d, k)' :
                 \E m0 \in Sent(d, k) : m0.script = m.script /\ m0.rnd = m.rnd /\ (m = m0 \/ m.res # "for")
    <3>1. CASE ConnFails(c, n)
      <4> "error" # "for" /\ "error" \in {"error", "sent"}
        OBVIOUS
      <4> QED BY <3>1, AllResultsSent
    <3>2. CASE Resend(c, n)
      <4> "sent" # "for" /\ "sent" \in {"error", "sent"}
        OBVIOUS
      <4> QED BY <3>2, AllResultsSent
    <3> QED BY <2>2, <3>1, <3>2
  <2> QED BY <2>1, <2>2 DEF Environment, Tick, Restart, Expire
<1>3. \A d \in Calls, k \in Nodes, e \in Int : Backed(d, k, e) => Backed(d, k, e)'
  BY EnvironmentBacked
<1>11. NoReleaseSent'
  BY <1>1, <1>2 DEF NoReleaseSent
<1>12. RoundBound'
  BY <1>1, <1>2 DEF RoundBound
<1>13. Past'
  <2>1. now' \in Nat /\ now' >= now
    <3>1. now' = now \/ now' = now + 1
      BY DEF Environment, Tick, Restart, Expire, ConnFails, Resend
    <3> QED BY <3>1 DEF TypeOK
  <2>2. \A k \in Nodes, r \in Resources : val'[k][r] # NoVal => val[k][r] # NoVal /\ ttl'[k][r] = ttl[k][r]
    <3>1. CASE UNCHANGED <<val, ttl>>
      BY <3>1
    <3>2. ASSUME NEW n \in Nodes, Restart(n)
          PROVE  \A k \in Nodes, r \in Resources :
                   val'[k][r] # NoVal => val[k][r] # NoVal /\ ttl'[k][r] = ttl[k][r]
      BY <3>2 DEF Restart, TypeOK
    <3>3. ASSUME NEW n \in Nodes, NEW r2 \in Resources, Expire(n, r2)
          PROVE  \A k \in Nodes, r \in Resources :
                   val'[k][r] # NoVal => val[k][r] # NoVal /\ ttl'[k][r] = ttl[k][r]
      <4>1. /\ val' = [val EXCEPT ![n][r2] = NoVal]
            /\ ttl' = [ttl EXCEPT ![n][r2] = 0]
        BY <3>3 DEF Expire
      <4> QED BY <4>1 DEF TypeOK
    <3> QED BY <3>1, <3>2, <3>3 DEF Environment, Tick, ConnFails, Resend, nodeVars
  <2> QED BY <1>1, <2>1, <2>2, ConstantsAssumption DEF Past, TypeOK
<1>14. VoteBacked'
  <2> SUFFICES ASSUME NEW d \in Calls, NEW k \in Nodes,
                      phase[d] \in {"acquiring", "held"}, run[d]["lock"] = "attempt", ForVote(d, k)'
               PROVE  Backed(d, k, LeaseEnd(d))'
    BY <1>1 DEF VoteBacked
  <2>1. ForVote(d, k)
    BY <1>1, <1>2 DEF ForVote
  <2>2. Backed(d, k, LeaseEnd(d)) /\ LeaseEnd(d) \in Int
    BY <2>1, LeaseEndIsInt DEF VoteBacked
  <2>3. start'[d] = start[d]
    BY <1>1
  <2> QED BY <1>3, <2>2, <2>3 DEF Backed, LeaseEnd
<1>15. LeaseBacked'
  <2> SUFFICES ASSUME NEW d \in Calls, phase[d] = "held"
               PROVE  Cardinality({k \in Nodes : Backed(d, k, exp[d])'}) >= Quorum
    BY <1>1 DEF LeaseBacked
  <2>1. \A k \in Nodes : Backed(d, k, exp[d]) => Backed(d, k, exp[d])'
    <3>1. exp[d] \in Int /\ exp'[d] = exp[d]
      BY <1>1 DEF TypeOK
    <3> QED BY <1>3, <3>1 DEF Backed
  <2> QED BY <2>1, LeaseKept DEF LeaseBacked
<1> QED
  BY <1>11, <1>12, <1>13, <1>14, <1>15

LEMMA InitSafe == Init => SafeInv
<1> SUFFICES ASSUME Init PROVE SafeInv
  OBVIOUS
<1>1. \A c \in Calls, n \in Nodes : Sent(c, n) = {}
  BY DEF Init, Sent
<1>2. /\ now = 1 /\ \A c \in Calls, s \in Slots : run[c][s] = "idle"
      /\ \A c \in Calls : phase[c] = "idle" /\ start[c] <= now
      /\ \A n \in Nodes, r \in Resources : val[n][r] = NoVal
  BY DEF Init
<1>3. TypeInv
  BY <1>2, InitTypeOK DEF TypeInv, RetriesLeft
<1> QED
  BY <1>1, <1>2, <1>3 DEF SafeInv, NoReleaseSent, RoundBound, Past, VoteBacked, LeaseBacked, Slots

LEMMA SafeInductive == SafeInv /\ [Next]_vars => SafeInv'
<1> SUFFICES ASSUME SafeInv, [Next]_vars PROVE SafeInv'
  OBVIOUS
<1>1. TypeInv'
  BY TypeInductive DEF SafeInv
<1>2. CASE Finished \/ UNCHANGED vars
  <2>1. UNCHANGED vars
    BY <1>2 DEF Finished
  <2>2. UNCHANGED <<now, val, ttl, lost, queue, phase, exp, run, round, votes, start>>
    BY <2>1 DEF vars, nodeVars, handleVars, attemptVars
  <2>3. NoReleaseSent' /\ RoundBound'
    BY <2>2 DEF SafeInv, NoReleaseSent, RoundBound, Sent
  <2>4. Past'
    BY <2>2 DEF SafeInv, Past
  <2>5. VoteBacked'
    BY <2>2 DEF SafeInv, VoteBacked, ForVote, Sent, Backed, LeaseEnd
  <2>6. LeaseBacked'
    <3> SUFFICES ASSUME NEW c \in Calls, phase'[c] = "held"
                 PROVE  Cardinality({n \in Nodes : Backed(c, n, exp[c])'}) >= Quorum
      BY DEF LeaseBacked
    <3>1. \A n \in Nodes : Backed(c, n, exp[c]) => Backed(c, n, exp[c])'
      BY <2>2 DEF Backed
    <3> QED BY <2>2, <3>1, LeaseKept DEF SafeInv, LeaseBacked
  <2> QED
    BY <1>1, <2>3, <2>4, <2>5, <2>6 DEF SafeInv
<1>3. ASSUME NEW c \in Calls, NEW n \in Nodes, Caller(c) \/ Handle(c, n) \/ NodeExec(c, n)
      PROVE  SafeInv'
  BY <1>1, <1>3, CallerSafe, HandleSafe, NodeExecSafe DEF SafeInv
<1>4. CASE Environment
  BY <1>1, <1>4, EnvironmentSafe DEF SafeInv
<1> QED
  BY <1>2, <1>3, <1>4, ConstantsAssumption DEF Next

LEMMA SafeCorrect == Spec => []SafeInv
BY InitSafe, SafeInductive, PTL DEF Spec

(* Whatever the number of nodes and calls, a handle is backed by a quorum  *)
(* of nodes until it expires.                                              *)
THEOREM HandlesAreBacked == Spec => []LeaseBacked
<1>1. SafeInv => LeaseBacked
  BY DEF SafeInv
<1> QED
  BY <1>1, SafeCorrect, PTL

(* Two sets of a quorum each share more nodes than those that restarted.   *)
LEMMA QuorumsMeet ==
  ASSUME FewLost, lost \subseteq Nodes, NEW S \in SUBSET Nodes, NEW T \in SUBSET Nodes,
         Cardinality(S) >= Quorum, Cardinality(T) >= Quorum
  PROVE  \E n \in S \intersect T : n \notin lost
<1>1. IsFiniteSet(S) /\ IsFiniteSet(T) /\ IsFiniteSet(S \union T) /\ IsFiniteSet(S \intersect T)
      /\ IsFiniteSet(lost)
  BY ConstantsAssumption, FS_Subset
<1>2. /\ Cardinality(S) \in Nat /\ Cardinality(T) \in Nat /\ Cardinality(lost) \in Nat
      /\ Cardinality(S \union T) \in Nat /\ Cardinality(S \intersect T) \in Nat
  BY <1>1, FS_CardinalityType
<1>3. Cardinality(S \union T) = Cardinality(S) + Cardinality(T) - Cardinality(S \intersect T)
  BY <1>1, FS_Union
<1>4. Cardinality(S \union T) <= Cardinality(Nodes)
  <2>1. S \union T \in SUBSET Nodes
    OBVIOUS
  <2> QED BY <2>1, ConstantsAssumption, FS_Subset
<1>5. Cardinality(lost) < Cardinality(S \intersect T)
  BY <1>2, <1>3, <1>4, QuorumIsMajority DEF FewLost
<1>6. ~(S \intersect T \subseteq lost)
  <2> SUFFICES ASSUME S \intersect T \subseteq lost PROVE FALSE
    OBVIOUS
  <2>1. Cardinality(S \intersect T) <= Cardinality(lost)
    BY <1>1, FS_Subset
  <2> QED BY <1>2, <1>5, <2>1
<1> QED
  BY <1>6

LEMMA BackedExcludes == ASSUME TypeOK, LeaseBacked PROVE Exclusion
<1> SUFFICES ASSUME FewLost, NEW c \in Calls, NEW d \in Calls, Compete(c, d), Holding(c), Holding(d)
             PROVE  FALSE
  BY DEF Exclusion, MutualExclusion
<1> DEFINE S == {n \in Nodes : Backed(c, n, exp[c])}
           T == {n \in Nodes : Backed(d, n, exp[d])}
<1>1. Cardinality(S) >= Quorum /\ Cardinality(T) >= Quorum
  BY DEF LeaseBacked, Holding
<1>2. S \in SUBSET Nodes /\ T \in SUBSET Nodes /\ lost \subseteq Nodes
  BY DEF TypeOK
<1>3. PICK n \in S \intersect T : n \notin lost
  <2> HIDE DEF S, T
  <2> QED BY <1>1, <1>2, QuorumsMeet
<1>4. n \in Nodes /\ Backed(c, n, exp[c]) /\ Backed(d, n, exp[d])
  BY <1>3
<1>5. ~(now > exp[c]) /\ ~(now > exp[d])
  BY DEF Holding, TypeOK
<1>6. /\ \A r \in Keys[c] : val[n][r] = c
      /\ \A r \in Keys[d] : val[n][r] = d
  BY <1>3, <1>4, <1>5 DEF Backed
<1> QED
  BY <1>6 DEF Compete

(* Mutual exclusion of valid handles, for any number of nodes, calls and   *)
(* keys, as long as two quorums share a node that kept its keys.           *)
THEOREM ExclusionHolds == Spec => []Exclusion
<1>1. SafeInv => Exclusion
  BY BackedExcludes DEF SafeInv, TypeInv
<1> QED
  BY <1>1, SafeCorrect, PTL

(* While a call acquires or holds, its keys are only lost to time or to a  *)
(* restart: no other call's script and no late command of its own removes  *)
(* or overwrites them.                                                     *)
LEMMA KeyStep ==
  ASSUME SafeInv, Next, NEW c \in Calls, NEW n \in Nodes, NEW r \in Resources,
         val[n][r] = c, val'[n][r] # c, phase[c] \in {"acquiring", "held"}
  PROVE  val'[n][r] = NoVal /\ (n \in lost' \/ now >= ttl[n][r] - Skew)
<1> USE DEF SafeInv, TypeInv
<1>1. c # NoVal
  BY ConstantsAssumption
<1>2. ASSUME NEW d \in Calls, NEW k \in Nodes, NodeExec(d, k)
      PROVE  FALSE
  <2>1. PICK i \in DOMAIN queue[d][k] :
          NoScript(d, k, i) \/ AcquireScript(d, k, i) \/ ExtendScript(d, k, i) \/ ReleaseScript(d, k, i)
    BY <1>2 DEF NodeExec
  <2>2. CASE UNCHANGED val
    BY <2>2
  <2>3. CASE AcquireScript(d, k, i) /\ ~UNCHANGED val
    <3>1. SetKeys(d, k) /\ \A r2 \in Keys[d] : val[k][r2] = NoVal
      BY <2>3 DEF AcquireScript
    <3>2. k # n \/ r \notin Keys[d]
      BY <1>1, <3>1
    <3> QED BY <3>1, <3>2 DEF SetKeys, TypeOK
  <2>4. CASE ExtendScript(d, k, i) /\ ~UNCHANGED val
    <3>1. SetKeys(d, k) /\ \A r2 \in Keys[d] : val[k][r2] = d
      BY <2>4 DEF ExtendScript, Owned
    <3>2. k # n \/ r \notin Keys[d] \/ d = c
      BY <3>1
    <3> QED BY <3>1, <3>2 DEF SetKeys, TypeOK
  <2>5. CASE ReleaseScript(d, k, i)
    <3>1. queue[d][k][i] \in Sent(d, k) /\ queue[d][k][i].script = "release"
      BY <2>5 DEF ReleaseScript, Runs, Sent
    <3>2. d # c
      BY <3>1 DEF NoReleaseSent
    <3>3. k # n \/ r \notin Owned(d, k)
      BY <3>2 DEF Owned
    <3> QED BY <2>5, <3>3 DEF ReleaseScript, TypeOK
  <2> QED BY <2>1, <2>2, <2>3, <2>4, <2>5 DEF NoScript, nodeVars
<1>3. ASSUME NEW k \in Nodes, Restart(k)
      PROVE  val'[n][r] = NoVal /\ n \in lost'
  BY <1>3 DEF Restart, TypeOK
<1>4. ASSUME NEW k \in Nodes, NEW r2 \in Resources, Expire(k, r2)
      PROVE  val'[n][r] = NoVal /\ now >= ttl[n][r] - Skew
  <2>1. k = n /\ r2 = r
    BY <1>4 DEF Expire, TypeOK
  <2> QED BY <1>4, <2>1 DEF Expire, TypeOK
<1>5. ASSUME NEW d \in Calls, NEW k \in Nodes, Handle(d, k)
      PROVE  FALSE
  <2>1. UNCHANGED val
    BY <1>5, HandleSent
  <2> QED BY <2>1
<1>6. ASSUME NEW d \in Calls, Caller(d)
      PROVE  FALSE
  BY <1>6 DEF Caller, Acquire, Extend, Release, Retry, nodeVars
<1>7. ASSUME UNCHANGED val
      PROVE  FALSE
  BY <1>7
<1> QED
  BY <1>2, <1>3, <1>4, <1>5, <1>6, <1>7
     DEF Next, Environment, Tick, ConnFails, Resend, Finished, vars, nodeVars

(* The keys of a call that acquires or holds are safe from everything but  *)
(* time and restarts.                                                      *)
THEOREM KeysStayUntouched == Spec => KeysUntouched
<1> DEFINE Kept == \A c \in Calls, n \in Nodes, r \in Resources :
      val[n][r] = c /\ val'[n][r] # c /\ phase[c] \in {"acquiring", "held"} =>
        /\ val'[n][r] = NoVal
        /\ n \in lost' \/ now >= ttl[n][r] - Skew
<1>1. SafeInv /\ [Next]_vars => [Kept]_vars
  <2> SUFFICES ASSUME SafeInv, Next PROVE Kept
    OBVIOUS
  <2> QED BY KeyStep
<1> QED
  BY <1>1, SafeCorrect, PTL DEF Spec, KeysUntouched

-----------------------------------------------------------------------------
(* The service implements the abstract lease service.                      *)

LEMMA LeaseOfCaller ==
  ASSUME SafeInv, NEW c \in Calls, Caller(c)
  PROVE  [L!Next]_<<now, lease>>
<1> USE DEF SafeInv, TypeInv
<1>1. CASE Release(c)
  <2>1. phase'[c] = "releasing" /\ now' = now
        /\ \A d \in Calls \ {c} : phase'[d] = phase[d] /\ exp'[d] = exp[d]
    BY <1>1 DEF Release, TypeOK
  <2>2. lease' = [lease EXCEPT ![c] = 0]
    BY <2>1 DEF lease
  <2> QED BY <2>1, <2>2 DEF L!Next, L!Drop
<1>2. CASE ~Release(c)
  <2>1. now' = now /\ exp' = exp /\ \A d \in Calls : phase'[d] = "held" <=> phase[d] = "held"
    BY <1>2 DEF Caller, Acquire, Extend, Retry, handleVars, TypeOK
  <2>2. lease' = lease
    BY <2>1 DEF lease
  <2> QED BY <2>1, <2>2
<1> QED BY <1>1, <1>2

LEMMA LeaseOfHandle ==
  ASSUME SafeInv, Exclusion', FewLost', NEW c \in Calls, NEW n \in Nodes, Handle(c, n)
  PROVE  [L!Next]_<<now, lease>>
<1> USE DEF SafeInv, TypeInv
<1>0. now' = now /\ now \in Nat /\ start[c] <= now /\ start[c] \in Nat
  BY HandleSent DEF TypeOK, Past
<1>1. CASE LockSucceeds(c, n) /\ phase'[c] = "held"
  <2> DEFINE e == IF exp'[c] > 0 THEN exp'[c] ELSE 0
  <2>1. /\ exp'[c] = LeaseEnd(c)
        /\ \A d \in Calls \ {c} : phase'[d] = phase[d] /\ exp'[d] = exp[d]
    BY <1>1 DEF LockSucceeds, TypeOK
  <2>2. lease' = [lease EXCEPT ![c] = e]
    BY <1>1, <2>1 DEF lease
  <2>3. exp'[c] \in Int /\ exp'[c] <= now + Duration
    BY <1>0, <2>1, DriftIsNat, ConstantsAssumption DEF LeaseEnd
  <2>4. e \in 0 .. (now + Duration)
    BY <1>0, <2>3, ConstantsAssumption
  <2>5. CASE exp'[c] > 0
    <3>1. ASSUME e >= now, NEW d \in Calls \ {c}, Keys[c] \intersect Keys[d] # {}
          PROVE  ~(lease[d] >= now)
      <4>1. Holding(c)'
        BY <1>0, <1>1, <2>5, <3>1 DEF Holding
      <4>2. ~Holding(d)'
        BY <3>1, <4>1 DEF Exclusion, MutualExclusion, Compete
      <4>3. CASE phase[d] = "held" /\ exp[d] > 0
        <5>1. lease[d] = exp[d]
          BY <4>3 DEF lease
        <5> QED BY <1>0, <2>1, <4>2, <4>3, <5>1 DEF Holding
      <4>4. CASE ~(phase[d] = "held" /\ exp[d] > 0)
        <5>1. lease[d] = 0
          BY <4>4 DEF lease
        <5> QED BY <1>0, <5>1 DEF Past
      <4> QED BY <4>3, <4>4
    <3>2. L!Grant(c)
      BY <1>0, <2>2, <2>4, <3>1 DEF L!Grant, L!Valid
    <3> QED BY <3>2 DEF L!Next
  <2>6. CASE ~(exp'[c] > 0)
    BY <1>0, <2>2, <2>6 DEF L!Next, L!Drop
  <2> QED BY <2>5, <2>6
<1>2. CASE ~(LockSucceeds(c, n) /\ phase'[c] = "held")
  <2>1. \A d \in Calls : (phase'[d] = "held" <=> phase[d] = "held")
                         /\ (phase[d] = "held" => exp'[d] = exp[d])
    <3>1. CASE LockSucceeds(c, n)
      <4>1. phase' = phase /\ phase[c] # "held" /\ \A d \in Calls \ {c} : exp'[d] = exp[d]
        BY <1>2, <3>1 DEF LockSucceeds, TypeOK
      <4> QED BY <4>1
    <3>2. CASE AcquireFails(c, n)
      <4>1. phase[c] = "acquiring" /\ phase' = [phase EXCEPT ![c] = "cleanup"] /\ exp' = exp
        BY <3>2 DEF AcquireFails, Cleanup
      <4> QED BY <4>1 DEF TypeOK
    <3>3. CASE UnlockEnds(c, n)
      <4>1. run[c]["unlock"] = "attempt" /\ exp' = exp
        BY <3>3 DEF UnlockEnds, Answers
      <4>2. phase[c] # "held"
        BY <4>1 DEF NoReleaseSent
      <4>3. phase'[c] \in {"failed", "released", "unreleased"} /\ \A d \in Calls \ {c} : phase'[d] = phase[d]
        BY <3>3 DEF UnlockEnds, TypeOK
      <4> QED BY <4>1, <4>2, <4>3
    <3>4. CASE UNCHANGED <<phase, exp>>
      BY <3>4
    <3> QED
      BY <3>1, <3>2, <3>3, <3>4 DEF Handle, CountVote, RetryLater, ExtendFails, IgnoreAnswer,
                                    FallBackToEval, handleVars
  <2>2. lease' = lease
    BY <2>1 DEF lease
  <2> QED BY <1>0, <2>2
<1> QED BY <1>1, <1>2

LEMMA LeaseStep ==
  ASSUME SafeInv, Exclusion', FewLost', [Next]_vars
  PROVE  [L!Next]_<<now, lease>>
<1>1. CASE Finished \/ UNCHANGED vars
  BY <1>1 DEF Finished, vars, handleVars, lease
<1>2. ASSUME NEW c \in Calls, NEW n \in Nodes, NodeExec(c, n)
      PROVE  [L!Next]_<<now, lease>>
  <2>1. UNCHANGED <<now, phase, exp>>
    BY <1>2 DEF NodeExec, NoScript, AcquireScript, ExtendScript, ReleaseScript, Reply, handleVars
  <2> QED BY <2>1 DEF lease
<1>3. CASE Environment
  <2>1. UNCHANGED <<phase, exp>> /\ (now' = now \/ now' = now + 1)
    BY <1>3 DEF Environment, Tick, Restart, Expire, ConnFails, Resend, handleVars
  <2>2. lease' = lease
    BY <2>1 DEF lease
  <2> QED BY <2>1, <2>2 DEF L!Next, L!Tick
<1> QED
  BY <1>1, <1>2, <1>3, LeaseOfCaller, LeaseOfHandle DEF Next

(* As long as few nodes lose their keys, every handle that the service     *)
(* returns is a lease that the abstract service could have granted.        *)
THEOREM ImplementsLease == Spec /\ []FewLost => LeaseSpec
<1>1. Init => L!Init
  BY DEF Init, L!Init, lease
<1>2. SafeInv => Exclusion
  BY BackedExcludes DEF SafeInv, TypeInv
<1> QED
  BY <1>1, <1>2, LeaseStep, SafeCorrect, PTL DEF Spec, LeaseSpec, L!Spec

-----------------------------------------------------------------------------
(* The queues.                                                             *)

(* q still holds a command of the attempt r of slot s. *)
Awaits(q, r, s) == \E i \in DOMAIN q : q[i].rnd = r /\ SlotOf(q[i].script) = s

(* Every node whose vote is missing has a command of the attempt to answer. *)
VoteToCome == \A c \in Calls, s \in Slots, n \in Nodes :
  run[c][s] = "attempt" /\ votes[c][s][n] = "none" => Awaits(queue[c][n], round[c][s], s)

For(v) == {n \in Nodes : v[n] = "for"}
Against(v) == {n \in Nodes : v[n] \in {"locked", "error"}}

(* The votes counted so far decide nothing. *)
Open(v) == Cardinality(For(v)) < Quorum /\ Cardinality(Against(v)) < Quorum

Undecided == \A c \in Calls, s \in Slots : run[c][s] = "attempt" => Open(votes[c][s])

VoteInv == TypeInv /\ VoteToCome /\ Undecided

-----------------------------------------------------------------------------
(* What the operations on a queue do to the indices of its commands.       *)

LEMMA TailIndex ==
  ASSUME NEW S, NEW q \in Seq(S), q # << >>
  PROVE  /\ Len(q) \in Nat \ {0} /\ DOMAIN q = 1 .. Len(q) /\ Head(q) = q[1]
         /\ DOMAIN Tail(q) = 1 .. (Len(q) - 1)
         /\ \A i \in DOMAIN Tail(q) : i + 1 \in DOMAIN q /\ Tail(q)[i] = q[i + 1]
         /\ \A i \in DOMAIN q : i # 1 => i - 1 \in DOMAIN Tail(q) /\ Tail(q)[i - 1] = q[i]
         /\ Tail(q) \in Seq(S) /\ Head(q) \in S
OBVIOUS

LEMMA AppendIndex ==
  ASSUME NEW S, NEW q \in Seq(S), NEW m \in S
  PROVE  /\ Len(q) \in Nat /\ DOMAIN q = 1 .. Len(q)
         /\ DOMAIN Append(q, m) = 1 .. (Len(q) + 1)
         /\ \A i \in DOMAIN q : i \in DOMAIN Append(q, m) /\ Append(q, m)[i] = q[i]
         /\ Append(q, m)[Len(q) + 1] = m
OBVIOUS

LEMMA AwaitsTail ==
  ASSUME NEW q \in Seq(Command), q # << >>, NEW r, NEW s, Awaits(q, r, s),
         ~(Head(q).rnd = r /\ SlotOf(Head(q).script) = s)
  PROVE  Awaits(Tail(q), r, s)
<1>1. PICK i \in DOMAIN q : q[i].rnd = r /\ SlotOf(q[i].script) = s
  BY DEF Awaits
<1>2. i - 1 \in DOMAIN Tail(q) /\ Tail(q)[i - 1] = q[i]
  BY <1>1, TailIndex
<1> QED
  BY <1>1, <1>2 DEF Awaits

LEMMA AwaitsAppend ==
  ASSUME NEW q \in Seq(Command), NEW m \in Command, NEW r, NEW s,
         Awaits(q, r, s) \/ (m.rnd = r /\ SlotOf(m.script) = s)
  PROVE  Awaits(Append(q, m), r, s)
BY AppendIndex DEF Awaits

(* New results leave the commands what they are. *)
LEMMA AwaitsResults ==
  ASSUME NEW p \in Seq(Command), NEW q \in Seq(Command), DOMAIN p = DOMAIN q,
         \A i \in DOMAIN q : p[i].rnd = q[i].rnd /\ p[i].script = q[i].script,
         NEW r, NEW s, Awaits(q, r, s)
  PROVE  Awaits(p, r, s)
BY DEF Awaits

(* The results of the commands of one queue change. *)
OnlyResults == \A c \in Calls, n \in Nodes :
  /\ DOMAIN queue'[c][n] = DOMAIN queue[c][n]
  /\ \A i \in DOMAIN queue[c][n] :
       queue'[c][n][i].rnd = queue[c][n][i].rnd /\ queue'[c][n][i].script = queue[c][n][i].script

LEMMA ResultOnly ==
  ASSUME TypeOK, NEW c \in Calls, NEW n \in Nodes, NEW i \in DOMAIN queue[c][n], NEW res,
         queue' = [queue EXCEPT ![c][n][i].res = res]
  PROVE  OnlyResults
<1>1. queue[c][n] \in Seq(Command) /\ queue[c][n][i] \in Command
  BY DEF TypeOK
<1> DEFINE m == [queue[c][n][i] EXCEPT !.res = res]
<1>2. m.rnd = queue[c][n][i].rnd /\ m.script = queue[c][n][i].script
  BY <1>1 DEF Command
<1>3. \A d \in Calls, k \in Nodes :
        queue'[d][k] = IF d = c /\ k = n THEN [queue[c][n] EXCEPT ![i] = m] ELSE queue[d][k]
  BY DEF TypeOK
<1> HIDE DEF m
<1> QED
  BY <1>1, <1>2, <1>3 DEF OnlyResults

LEMMA AllResultsOnly ==
  ASSUME TypeOK, NEW c \in Calls, NEW n \in Nodes, NEW res,
         queue' = [queue EXCEPT ![c][n] = [i \in DOMAIN @ |-> [@[i] EXCEPT !.res = res]]]
  PROVE  OnlyResults
<1>1. queue[c][n] \in Seq(Command)
  BY DEF TypeOK
<1> DEFINE t == [i \in DOMAIN queue[c][n] |-> [queue[c][n][i] EXCEPT !.res = res]]
<1>2. /\ DOMAIN t = DOMAIN queue[c][n]
      /\ \A i \in DOMAIN t : t[i].rnd = queue[c][n][i].rnd /\ t[i].script = queue[c][n][i].script
  BY <1>1 DEF Command
<1>3. \A d \in Calls, k \in Nodes : queue'[d][k] = IF d = c /\ k = n THEN t ELSE queue[d][k]
  BY DEF TypeOK
<1> HIDE DEF t
<1> QED
  BY <1>2, <1>3 DEF OnlyResults

-----------------------------------------------------------------------------
(* One more vote brings neither side further than the quorum.              *)

LEMMA NoVotesOpen == Open(NoVotes)
<1>1. For(NoVotes) = {} /\ Against(NoVotes) = {}
  BY DEF For, Against, NoVotes
<1> QED
  BY <1>1, FS_EmptySet, QuorumIsMajority DEF Open

LEMMA CountedOpen ==
  ASSUME TypeOK, NEW c \in Calls, NEW n \in Nodes, NEW s \in Slots, Answers(c, n, s),
         Open(votes[c][s]),
         ~QuorumFor(Counted(c, n, s)), ~QuorumAgainst(Counted(c, n, s))
  PROVE  Open(Counted(c, n, s))
<1> DEFINE v == votes[c][s]
           w == Counted(c, n, s)
<1>1. \A k \in Nodes \ {n} : w[k] = v[k]
  BY DEF Counted, TypeOK
<1>2. ASSUME NEW S \in SUBSET Nodes, NEW T \in SUBSET Nodes, T \subseteq S \union {n},
             Cardinality(S) < Quorum, Cardinality(T) # Quorum
      PROVE  Cardinality(T) < Quorum
  <2>1. IsFiniteSet(S) /\ IsFiniteSet(S \union {n})
    BY ConstantsAssumption, FS_Subset, FS_AddElement
  <2>2. Cardinality(T) <= Cardinality(S \union {n}) /\ Cardinality(S \union {n}) <= Cardinality(S) + 1
    <3>1. Cardinality(T) <= Cardinality(S \union {n})
      BY <2>1, <1>2, FS_Subset
    <3>2. Cardinality(S) \in Nat
      BY <2>1, FS_CardinalityType
    <3>3. Cardinality(S \union {n}) = IF n \in S THEN Cardinality(S) ELSE Cardinality(S) + 1
      BY <2>1, FS_AddElement
    <3> QED BY <3>1, <3>2, <3>3
  <2>3. Cardinality(T) \in Nat /\ Cardinality(S) \in Nat /\ Cardinality(S \union {n}) \in Nat
    BY <2>1, <1>2, FS_Subset, FS_CardinalityType
  <2> QED
    BY <1>2, <2>2, <2>3, QuorumIsMajority
<1>3. For(w) \subseteq For(v) \union {n} /\ Against(w) \subseteq Against(v) \union {n}
  BY <1>1 DEF For, Against
<1>4. For(v) \in SUBSET Nodes /\ For(w) \in SUBSET Nodes
      /\ Against(v) \in SUBSET Nodes /\ Against(w) \in SUBSET Nodes
  BY DEF For, Against
<1>5. Cardinality(For(w)) # Quorum /\ Cardinality(Against(w)) # Quorum
  BY DEF QuorumFor, QuorumAgainst, For, Against
<1> HIDE DEF v, w
<1>6. Cardinality(For(v)) < Quorum /\ Cardinality(Against(v)) < Quorum
  BY DEF v, Open
<1>7. Cardinality(For(w)) < Quorum /\ Cardinality(Against(w)) < Quorum
  BY <1>2, <1>3, <1>4, <1>5, <1>6
<1> QED
  BY <1>7 DEF w, Open

-----------------------------------------------------------------------------
(* VoteInv is inductive.                                                   *)

(* What a step keeps of an attempt that goes on, and what a new one has. *)
LEMMA VotesKept ==
  ASSUME VoteToCome, Undecided,
         \A c \in Calls, s \in Slots : run'[c][s] = "attempt" =>
           \/ /\ run[c][s] = "attempt"
              /\ votes'[c][s] = votes[c][s] /\ round'[c][s] = round[c][s]
              /\ \A n \in Nodes : Awaits(queue[c][n], round[c][s], s) =>
                                    Awaits(queue'[c][n], round[c][s], s)
           \/ /\ votes'[c][s] = NoVotes
              /\ \A n \in Nodes : Awaits(queue'[c][n], round'[c][s], s)
  PROVE  VoteToCome' /\ Undecided'
<1>1. VoteToCome'
  BY DEF VoteToCome
<1>2. Undecided'
  <2> SUFFICES ASSUME NEW c \in Calls, NEW s \in Slots, run'[c][s] = "attempt"
               PROVE  Open(votes'[c][s])
    BY DEF Undecided, Open, For, Against
  <2> QED
    BY NoVotesOpen DEF Undecided
<1> QED
  BY <1>1, <1>2

LEMMA AttemptVotes ==
  ASSUME TypeOK, VoteToCome, Undecided, NEW c \in Calls, NEW s \in Slots, NEW k,
         NEW script \in Scripts, SlotOf(script) = s, Attempt(c, s, k, script, queue[c])
  PROVE  VoteToCome' /\ Undecided'
<1> DEFINE m == [script |-> script, rnd |-> round[c][s] + 1, raw |-> FALSE, res |-> "sent"]
<1>1. m \in Command /\ m.script = script /\ m.rnd = round[c][s] + 1
  BY DEF TypeOK, Command
<1>2. \A n \in Nodes : queue'[c][n] = Append(queue[c][n], m) /\ queue[c][n] \in Seq(Command)
  BY DEF Attempt, TypeOK
<1>3. \A d \in Calls \ {c}, n \in Nodes : queue'[d][n] = queue[d][n]
  BY DEF Attempt, TypeOK
<1>4. /\ votes'[c][s] = NoVotes /\ round'[c][s] = round[c][s] + 1
      /\ \A d \in Calls, t \in Slots : d # c \/ t # s =>
           run'[d][t] = run[d][t] /\ votes'[d][t] = votes[d][t] /\ round'[d][t] = round[d][t]
  BY DEF Attempt, TypeOK
<1> HIDE DEF m
<1>5. \A n \in Nodes : Awaits(queue'[c][n], round'[c][s], s)
  <2> SUFFICES ASSUME NEW n \in Nodes PROVE Awaits(queue'[c][n], round'[c][s], s)
    OBVIOUS
  <2>1. m.rnd = round'[c][s] /\ SlotOf(m.script) = s
    BY <1>1, <1>4
  <2>2. Awaits(Append(queue[c][n], m), round'[c][s], s)
    BY <1>1, <1>2, <2>1, AwaitsAppend
  <2> QED BY <1>2, <2>2
<1>6. \A n \in Nodes : \A r, t : Awaits(queue[c][n], r, t) => Awaits(queue'[c][n], r, t)
  BY <1>1, <1>2, AwaitsAppend
<1> QED
  <2>1. ASSUME NEW d \in Calls, NEW t \in Slots, d # c \/ t # s
        PROVE  /\ run'[d][t] = run[d][t] /\ votes'[d][t] = votes[d][t] /\ round'[d][t] = round[d][t]
               /\ \A n \in Nodes : Awaits(queue[d][n], round[d][t], t) =>
                                     Awaits(queue'[d][n], round[d][t], t)
    BY <1>3, <1>4, <1>6, <2>1
  <2>2. votes'[c][s] = NoVotes /\ \A n \in Nodes : Awaits(queue'[c][n], round'[c][s], s)
    BY <1>4, <1>5
  <2> QED BY <2>1, <2>2, VotesKept

LEMMA CallerVotes ==
  ASSUME VoteInv, NEW c \in Calls, Caller(c)
  PROVE  VoteToCome' /\ Undecided'
<1> USE DEF VoteInv, TypeInv
<1>1. \E s \in Slots, k \in Nat, script \in Scripts :
        SlotOf(script) = s /\ Attempt(c, s, k, script, queue[c])
  <2>1. CASE Acquire(c) \/ Extend(c)
    BY <2>1 DEF Acquire, Extend, Slots, Scripts, SlotOf
  <2>2. CASE Release(c)
    BY <2>2 DEF Release, Slots, Scripts, SlotOf
  <2>3. ASSUME NEW s \in Slots, Retry(c, s)
        PROVE  SlotOf(ScriptOf(c, s)) = s /\ ScriptOf(c, s) \in Scripts /\ tries[c][s] + 1 \in Nat
               /\ Attempt(c, s, tries[c][s] + 1, ScriptOf(c, s), queue[c])
    BY <2>3, ConstantsAssumption DEF Retry, ScriptOf, SlotOf, Slots, Scripts, TypeOK
  <2> QED
    BY <2>1, <2>2, <2>3 DEF Caller
<1> QED
  BY <1>1, AttemptVotes

(* The answer at the head of a queue is taken off: whoever does not wait   *)
(* for it has lost nothing.                                                *)
LEMMA PopVotes ==
  ASSUME TypeOK, NEW c \in Calls, NEW n \in Nodes, queue[c][n] # << >>, queue' = Pop(c, n),
         NEW d \in Calls, NEW k \in Nodes, NEW r, NEW s, Awaits(queue[d][k], r, s),
         ~(d = c /\ k = n /\ Head(queue[c][n]).rnd = r /\ SlotOf(Head(queue[c][n]).script) = s)
  PROVE  Awaits(queue'[d][k], r, s)
<1>1. queue[d][k] \in Seq(Command)
  BY DEF TypeOK
<1>2. CASE d = c /\ k = n
  <2>1. queue'[d][k] = Tail(queue[d][k])
    BY <1>2 DEF Pop, TypeOK
  <2> QED
    BY <1>1, <1>2, <2>1, AwaitsTail
<1>3. CASE d # c \/ k # n
  BY <1>3 DEF Pop, TypeOK
<1> QED
  BY <1>2, <1>3

LEMMA HandleVotes ==
  ASSUME VoteInv, NEW c \in Calls, NEW n \in Nodes, Handle(c, n)
  PROVE  VoteToCome' /\ Undecided'
<1> USE DEF VoteInv, TypeInv
<1>1. ASSUME NEW s \in Slots, CountVote(c, n, s)
      PROVE  VoteToCome' /\ Undecided'
  <2>1. /\ Answers(c, n, s) /\ queue' = Pop(c, n) /\ UNCHANGED <<run, round>>
        /\ votes' = [votes EXCEPT ![c][s] = Counted(c, n, s)]
        /\ ~QuorumFor(Counted(c, n, s)) /\ ~QuorumAgainst(Counted(c, n, s))
    BY <1>1 DEF CountVote
  <2>2. /\ queue[c][n] # << >> /\ run[c][s] = "attempt"
        /\ Head(queue[c][n]).res \in Ballots /\ SlotOf(Head(queue[c][n]).script) = s
    BY <2>1 DEF Answers, Answered
  <2>3. votes'[c][s] = Counted(c, n, s)
        /\ \A d \in Calls, t \in Slots : d # c \/ t # s => votes'[d][t] = votes[d][t]
    BY <2>1 DEF TypeOK
  <2>4. Counted(c, n, s)[n] # "none" /\ \A k \in Nodes \ {n} : Counted(c, n, s)[k] = votes[c][s][k]
    BY <2>2 DEF Counted, TypeOK, Ballots
  <2>5. VoteToCome'
    <3> SUFFICES ASSUME NEW d \in Calls, NEW t \in Slots, NEW k \in Nodes,
                        run[d][t] = "attempt", votes'[d][t][k] = "none"
                 PROVE  Awaits(queue'[d][k], round[d][t], t)
      BY <2>1 DEF VoteToCome
    <3>1. votes[d][t][k] = "none" /\ ~(d = c /\ k = n /\ t = s)
      BY <2>3, <2>4
    <3>2. Awaits(queue[d][k], round[d][t], t)
      BY <3>1 DEF VoteToCome
    <3> QED
      BY <2>1, <2>2, <3>1, <3>2, PopVotes
  <2>6. Undecided'
    <3>1. Open(Counted(c, n, s))
      BY <2>1, <2>2, CountedOpen DEF Undecided
    <3>2. \A d \in Calls, t \in Slots : run'[d][t] = "attempt" => Open(votes'[d][t])
      BY <2>1, <2>3, <3>1 DEF Undecided
    <3> QED
      BY <3>2 DEF Undecided, Open, For, Against
  <2> QED
    BY <2>5, <2>6
<1>2. ASSUME NEW s \in Slots, NEW next \in {"idle", "wait"}, Answers(c, n, s), Settle(c, s, next),
             queue' = Pop(c, n), UNCHANGED round
      PROVE  VoteToCome' /\ Undecided'
  <2>1. queue[c][n] # << >> /\ SlotOf(Head(queue[c][n]).script) = s
    BY <1>2 DEF Answers, Answered
  <2>2. /\ run'[c][s] # "attempt"
        /\ \A d \in Calls, t \in Slots : d # c \/ t # s =>
             run'[d][t] = run[d][t] /\ votes'[d][t] = votes[d][t]
    BY <1>2 DEF Settle, TypeOK
  <2>3. \A d \in Calls, k \in Nodes, t \in Slots : d # c \/ t # s =>
          (Awaits(queue[d][k], round[d][t], t) => Awaits(queue'[d][k], round[d][t], t))
    BY <1>2, <2>1, PopVotes
  <2> QED
    BY <1>2, <2>2, <2>3, VotesKept
<1>3. CASE AcquireFails(c, n)
  <2> DEFINE m == [script |-> "release", rnd |-> round[c]["unlock"] + 1, raw |-> FALSE, res |-> "sent"]
             q == Pop(c, n)[c]
  <2>1. queue[c][n] # << >> /\ Cleanup(c, q)
    BY <1>3 DEF AcquireFails, Answers, Answered
  <2>2. m \in Command /\ m.rnd = round[c]["unlock"] + 1 /\ SlotOf(m.script) = "unlock"
    BY DEF TypeOK, Command, Scripts, Slots, SlotOf
  <2>3. q \in [Nodes -> Seq(Command)]
    BY <2>1, PopType
  <2>4. /\ \A k \in Nodes : queue'[c][k] = Append(q[k], m)
        /\ \A d \in Calls \ {c}, k \in Nodes : queue'[d][k] = queue[d][k]
    BY <2>1 DEF Cleanup, TypeOK
  <2>5. /\ votes'[c]["unlock"] = NoVotes /\ round'[c]["unlock"] = round[c]["unlock"] + 1
        /\ run'[c]["lock"] = "idle" /\ Slots = {"lock", "unlock"}
        /\ \A d \in Calls \ {c}, t \in Slots :
             run'[d][t] = run[d][t] /\ votes'[d][t] = votes[d][t] /\ round'[d][t] = round[d][t]
    BY <2>1 DEF Cleanup, TypeOK, Slots
  <2> HIDE DEF m, q
  <2>6. ASSUME NEW k \in Nodes
        PROVE  Awaits(queue'[c][k], round'[c]["unlock"], "unlock")
    <3>1. q[k] \in Seq(Command) /\ queue'[c][k] = Append(q[k], m)
      BY <2>3, <2>4
    <3>2. m.rnd = round'[c]["unlock"]
      BY <2>2, <2>5
    <3> QED
      BY <2>2, <3>1, <3>2, AwaitsAppend
  <2> QED
    BY <2>4, <2>5, <2>6, VotesKept
<1>4. CASE IgnoreAnswer(c, n)
  <2>1. /\ Answered(c, n) /\ Head(queue[c][n]).res # "noscript"
        /\ \A s \in Slots : ~Answers(c, n, s)
        /\ queue' = Pop(c, n) /\ UNCHANGED <<run, round, votes>>
    BY <1>4 DEF IgnoreAnswer, attemptVars
  <2>2. queue[c][n] # << >> /\ Head(queue[c][n]).res \in Ballots
    BY <2>1, PopType DEF Answered, Command
  <2>3. \A s \in Slots : run[c][s] = "attempt" =>
          ~(Head(queue[c][n]).rnd = round[c][s] /\ SlotOf(Head(queue[c][n]).script) = s)
    BY <2>1, <2>2 DEF Answers
  <2>4. \A d \in Calls, k \in Nodes, t \in Slots : run[d][t] = "attempt" =>
          (Awaits(queue[d][k], round[d][t], t) => Awaits(queue'[d][k], round[d][t], t))
    BY <2>1, <2>2, <2>3, PopVotes
  <2> QED
    BY <2>1, <2>4, VotesKept
<1>5. CASE FallBackToEval(c, n)
  <2> DEFINE q == queue[c][n]
             m == [Head(q) EXCEPT !.raw = TRUE, !.res = "sent"]
  <2>1. q # << >> /\ q \in Seq(Command) /\ Head(q) \in Command
    BY <1>5, PopType DEF FallBackToEval, Answered, TypeOK
  <2>2. m \in Command /\ m.rnd = Head(q).rnd /\ m.script = Head(q).script
    BY <2>1 DEF Command
  <2>3. /\ queue'[c][n] = Append(Tail(q), m)
        /\ \A d \in Calls, k \in Nodes : d # c \/ k # n => queue'[d][k] = queue[d][k]
        /\ UNCHANGED <<run, round, votes>>
    BY <1>5 DEF FallBackToEval, TypeOK, attemptVars
  <2> HIDE DEF m
  <2>4. \A r, s : Awaits(q, r, s) => Awaits(queue'[c][n], r, s)
    <3> SUFFICES ASSUME NEW r, NEW s, Awaits(q, r, s)
                 PROVE  Awaits(Append(Tail(q), m), r, s)
      BY <2>3
    <3>1. Awaits(Tail(q), r, s) \/ (m.rnd = r /\ SlotOf(m.script) = s)
      BY <2>1, <2>2, AwaitsTail
    <3>2. Tail(q) \in Seq(Command)
      BY <2>1, TailIndex
    <3> QED
      BY <2>2, <3>1, <3>2, AwaitsAppend
  <2> QED
    BY <2>3, <2>4, VotesKept
<1> QED
  BY <1>1, <1>2, <1>3, <1>4, <1>5
     DEF Handle, RetryLater, LockSucceeds, ExtendFails, UnlockEnds, Slots

LEMMA ResultsVotes ==
  ASSUME VoteInv, TypeOK', OnlyResults, UNCHANGED <<run, round, votes>>
  PROVE  VoteToCome' /\ Undecided'
<1>1. ASSUME NEW c \in Calls, NEW n \in Nodes, NEW r, NEW s, Awaits(queue[c][n], r, s)
      PROVE  Awaits(queue'[c][n], r, s)
  <2>1. queue[c][n] \in Seq(Command) /\ queue'[c][n] \in Seq(Command)
    BY DEF TypeOK, VoteInv, TypeInv
  <2> QED
    BY <1>1, <2>1, AwaitsResults DEF OnlyResults
<1> QED
  BY <1>1, VotesKept DEF VoteInv

LEMMA VoteInductive == VoteInv /\ [Next]_vars => VoteInv'
<1> SUFFICES ASSUME VoteInv, [Next]_vars PROVE VoteInv'
  OBVIOUS
<1>1. TypeInv /\ TypeOK /\ TypeInv' /\ TypeOK'
  BY TypeInductive DEF VoteInv, TypeInv
<1>2. ASSUME UNCHANGED <<queue, run, round, votes>>
      PROVE  VoteInv'
  <2>1. VoteToCome' /\ Undecided'
    BY <1>2, VotesKept DEF VoteInv
  <2> QED
    BY <1>1, <2>1 DEF VoteInv
<1>3. ASSUME OnlyResults, UNCHANGED <<run, round, votes>>
      PROVE  VoteInv'
  BY <1>1, <1>3, ResultsVotes DEF VoteInv
<1>4. ASSUME NEW c \in Calls, Caller(c)
      PROVE  VoteInv'
  BY <1>1, <1>4, CallerVotes DEF VoteInv
<1>5. ASSUME NEW c \in Calls, NEW n \in Nodes, Handle(c, n)
      PROVE  VoteInv'
  BY <1>1, <1>5, HandleVotes DEF VoteInv
<1>6. ASSUME NEW c \in Calls, NEW n \in Nodes, NodeExec(c, n)
      PROVE  VoteInv'
  <2>1. PICK i \in DOMAIN queue[c][n] :
          NoScript(c, n, i) \/ AcquireScript(c, n, i) \/ ExtendScript(c, n, i) \/ ReleaseScript(c, n, i)
    BY <1>6 DEF NodeExec
  <2>2. PICK res : queue' = [queue EXCEPT ![c][n][i].res = res]
    BY <2>1 DEF NoScript, AcquireScript, ExtendScript, ReleaseScript, Reply
  <2>3. UNCHANGED <<run, round, votes>>
    BY <2>1 DEF NoScript, AcquireScript, ExtendScript, ReleaseScript, Reply, attemptVars
  <2>4. OnlyResults
    BY <1>1, <2>2, ResultOnly
  <2> QED
    BY <1>3, <2>3, <2>4
<1>7. ASSUME NEW c \in Calls, NEW n \in Nodes, ConnFails(c, n) \/ Resend(c, n)
      PROVE  VoteInv'
  <2>1. UNCHANGED <<run, round, votes>>
    BY <1>7 DEF ConnFails, Resend, attemptVars
  <2>2. CASE ConnFails(c, n)
    <3>1. queue' = [queue EXCEPT ![c][n] = [i \in DOMAIN @ |-> [@[i] EXCEPT !.res = "error"]]]
      BY <2>2 DEF ConnFails
    <3>2. OnlyResults
      BY <1>1, <3>1, AllResultsOnly
    <3> QED
      BY <1>3, <2>1, <3>2
  <2>3. CASE Resend(c, n)
    <3>1. queue' = [queue EXCEPT ![c][n] = [i \in DOMAIN @ |-> [@[i] EXCEPT !.res = "sent"]]]
      BY <2>3 DEF Resend
    <3>2. OnlyResults
      BY <1>1, <3>1, AllResultsOnly
    <3> QED
      BY <1>3, <2>1, <3>2
  <2> QED
    BY <1>7, <2>2, <2>3
<1>8. CASE Finished \/ UNCHANGED vars \/ Tick \/ \E n \in Nodes : Restart(n) \/ \E r \in Resources : Expire(n, r)
  BY <1>2, <1>8 DEF Finished, vars, Tick, Restart, Expire, attemptVars
<1> QED
  BY <1>4, <1>5, <1>6, <1>7, <1>8 DEF Next, Environment

LEMMA InitVotes == Init => VoteInv
<1> SUFFICES ASSUME Init PROVE VoteInv
  OBVIOUS
<1>1. \A c \in Calls, s \in Slots : run[c][s] = "idle"
  BY DEF Init
<1>2. TypeInv
  BY <1>1, InitTypeOK DEF TypeInv, RetriesLeft
<1> QED
  BY <1>1, <1>2 DEF VoteInv, VoteToCome, Undecided

(* With every vote in, one side would have a majority of an odd number. *)
LEMMA VotesDecide ==
  ASSUME Cardinality(Nodes) % 2 = 1, NEW v \in [Nodes -> Ballots], Open(v)
  PROVE  FALSE
<1>1. For(v) \union Against(v) = Nodes /\ For(v) \intersect Against(v) = {}
  BY DEF For, Against, Ballots
<1>2. IsFiniteSet(For(v)) /\ IsFiniteSet(Against(v))
  BY <1>1, ConstantsAssumption, FS_Subset
<1>3. Cardinality(For(v)) \in Nat /\ Cardinality(Against(v)) \in Nat
  BY <1>2, FS_CardinalityType
<1>4. Cardinality(Nodes) = Cardinality(For(v)) + Cardinality(Against(v))
  <2>1. Cardinality(For(v) \union Against(v))
          = Cardinality(For(v)) + Cardinality(Against(v)) - Cardinality(For(v) \intersect Against(v))
    BY <1>2, FS_Union
  <2>2. Cardinality(For(v) \intersect Against(v)) = 0
    BY <1>1, FS_EmptySet
  <2>3. Cardinality(For(v) \union Against(v)) = Cardinality(Nodes)
    BY <1>1
  <2> QED
    BY <1>3, <2>1, <2>2, <2>3, QuorumIsMajority
<1> QED
  BY <1>3, <1>4, QuorumIsMajority DEF Open, Quorum

(* An attempt never waits with every vote in, for any odd number of nodes: *)
(* among all votes one side has the quorum, and the vote that brought it   *)
(* there has ended the attempt.                                            *)
THEOREM AttemptsCanEnd ==
  ASSUME Cardinality(Nodes) % 2 = 1
  PROVE  Spec => []AttemptCanEnd
<1>1. VoteInv => AttemptCanEnd
  <2> SUFFICES ASSUME VoteInv, NEW c \in Calls, NEW s \in Slots, run[c][s] = "attempt"
               PROVE  \E n \in Nodes : votes[c][s][n] = "none" /\ Awaits(queue[c][n], round[c][s], s)
    BY DEF AttemptCanEnd, Awaits
  <2>1. votes[c][s] \in [Nodes -> Ballots \union {"none"}] /\ Open(votes[c][s])
    BY DEF VoteInv, TypeInv, TypeOK, Undecided
  <2>2. PICK n \in Nodes : votes[c][s][n] = "none"
    <3> SUFFICES ASSUME \A n \in Nodes : votes[c][s][n] # "none" PROVE FALSE
      OBVIOUS
    <3>1. votes[c][s] \in [Nodes -> Ballots]
      BY <2>1
    <3> QED
      BY <2>1, <3>1, VotesDecide
  <2> QED
    BY <2>2 DEF VoteInv, VoteToCome
<1>2. Spec => []VoteInv
  BY InitVotes, VoteInductive, PTL DEF Spec
<1> QED
  BY <1>1, <1>2, PTL

-----------------------------------------------------------------------------
(* Cleaning up.  The commands of one connection run in order, so a release *)
(* sent last takes away what the others of its call stored; only a script  *)
(* that was not cached is run later than it was sent.                      *)

Ending == {"cleanup", "failed", "releasing", "released", "unreleased"}

(* A release is still to run, and no acquire comes after it. *)
ReleaseToCome(q) == \E i \in DOMAIN q :
  /\ q[i].script = "release" /\ q[i].res \in {"sent", "noscript"}
  /\ \A j \in DOMAIN q : j > i => q[j].script # "acquire"

NoAcquireToCome(q) == \A j \in DOMAIN q : q[j].script = "acquire" => q[j].res # "sent"

(* A node that has not restarted runs every acquire when it comes. *)
AcquireCached == \A n \in Nodes \ lost :
  /\ "acquire" \in cached[n]
  /\ \A c \in Calls : \A i \in DOMAIN queue[c][n] :
       queue[c][n][i].script = "acquire" => queue[c][n][i].res # "noscript"

(* Once its cleanup or release has begun, a call stores nothing at n, or   *)
(* its release will take that away.                                        *)
SweptAt(c, n) ==
  \/ ReleaseToCome(queue[c][n])
  \/ NoAcquireToCome(queue[c][n]) /\ Owned(c, n) = {}

Swept == \A c \in Calls, n \in Nodes \ lost : phase[c] \in Ending /\ faults = 0 => SweptAt(c, n)

SweptInv == SafeInv /\ AcquireCached /\ Swept

LEMMA SweptTail ==
  ASSUME NEW q \in Seq(Command), q # << >>, Head(q).res \notin {"sent", "noscript"}
  PROVE  /\ ReleaseToCome(q) => ReleaseToCome(Tail(q))
         /\ NoAcquireToCome(q) => NoAcquireToCome(Tail(q))
<1>1. ASSUME ReleaseToCome(q)
      PROVE  ReleaseToCome(Tail(q))
  <2>1. PICK i \in DOMAIN q :
          /\ q[i].script = "release" /\ q[i].res \in {"sent", "noscript"}
          /\ \A j \in DOMAIN q : j > i => q[j].script # "acquire"
    BY <1>1 DEF ReleaseToCome
  <2>2. i - 1 \in DOMAIN Tail(q) /\ Tail(q)[i - 1] = q[i]
    BY <2>1, TailIndex
  <2>3. \A j \in DOMAIN Tail(q) : j > i - 1 => Tail(q)[j].script # "acquire"
    BY <2>1, TailIndex
  <2> QED
    BY <2>1, <2>2, <2>3 DEF ReleaseToCome
<1>2. ASSUME NoAcquireToCome(q)
      PROVE  NoAcquireToCome(Tail(q))
  BY <1>2, TailIndex DEF NoAcquireToCome
<1> QED
  BY <1>1, <1>2

LEMMA SweptAppend ==
  ASSUME NEW q \in Seq(Command), NEW m \in Command, m.script # "acquire"
  PROVE  /\ ReleaseToCome(q) => ReleaseToCome(Append(q, m))
         /\ NoAcquireToCome(q) => NoAcquireToCome(Append(q, m))
         /\ m.script = "release" /\ m.res = "sent" => ReleaseToCome(Append(q, m))
<1> DEFINE p == Append(q, m)
<1>1. /\ Len(q) \in Nat /\ DOMAIN q = 1 .. Len(q) /\ DOMAIN p = 1 .. (Len(q) + 1)
      /\ \A i \in DOMAIN q : i \in DOMAIN p /\ p[i] = q[i]
      /\ p[Len(q) + 1] = m
  BY AppendIndex
<1> HIDE DEF p
<1>2. \A j \in DOMAIN p : j \in DOMAIN q \/ j = Len(q) + 1
  BY <1>1
<1>3. ASSUME ReleaseToCome(q)
      PROVE  ReleaseToCome(p)
  <2>1. PICK i \in DOMAIN q :
          /\ q[i].script = "release" /\ q[i].res \in {"sent", "noscript"}
          /\ \A j \in DOMAIN q : j > i => q[j].script # "acquire"
    BY <1>3 DEF ReleaseToCome
  <2>2. i \in DOMAIN p /\ p[i] = q[i]
    BY <1>1
  <2>3. \A j \in DOMAIN p : j > i => p[j].script # "acquire"
    BY <1>1, <1>2, <2>1
  <2> QED
    BY <2>1, <2>2, <2>3 DEF ReleaseToCome
<1>4. ASSUME NoAcquireToCome(q)
      PROVE  NoAcquireToCome(p)
  BY <1>1, <1>2, <1>4 DEF NoAcquireToCome
<1>5. ASSUME m.script = "release", m.res = "sent"
      PROVE  ReleaseToCome(p)
  <2>1. Len(q) + 1 \in DOMAIN p /\ \A j \in DOMAIN p : ~(j > Len(q) + 1)
    BY <1>1
  <2> QED
    BY <1>1, <1>5, <2>1 DEF ReleaseToCome
<1> QED
  BY <1>3, <1>4, <1>5 DEF p

(* The command that was run is sent again with its text, as the last one. *)
LEMMA SweptAgain ==
  ASSUME NEW q \in Seq(Command), q # << >>, Head(q).res = "noscript", Head(q).script # "acquire",
         NEW m \in Command, m.script = Head(q).script, m.res = "sent"
  PROVE  /\ ReleaseToCome(q) => ReleaseToCome(Append(Tail(q), m))
         /\ NoAcquireToCome(q) => NoAcquireToCome(Append(Tail(q), m))
<1>1. Tail(q) \in Seq(Command) /\ Head(q) = q[1]
  BY TailIndex
<1>2. ASSUME NoAcquireToCome(q)
      PROVE  NoAcquireToCome(Append(Tail(q), m))
  <2>1. NoAcquireToCome(Tail(q))
    BY <1>2, TailIndex DEF NoAcquireToCome
  <2> QED
    BY <1>1, <2>1, SweptAppend
<1>3. ASSUME ReleaseToCome(q)
      PROVE  ReleaseToCome(Append(Tail(q), m))
  <2>1. PICK i \in DOMAIN q :
          /\ q[i].script = "release" /\ q[i].res \in {"sent", "noscript"}
          /\ \A j \in DOMAIN q : j > i => q[j].script # "acquire"
    BY <1>3 DEF ReleaseToCome
  <2>2. CASE i = 1
    BY <1>1, <2>1, <2>2, SweptAppend
  <2>3. CASE i # 1
    <3>1. i - 1 \in DOMAIN Tail(q) /\ Tail(q)[i - 1] = q[i]
      BY <2>3, TailIndex
    <3>2. \A j \in DOMAIN Tail(q) : j > i - 1 => Tail(q)[j].script # "acquire"
      BY <2>1, TailIndex
    <3>3. ReleaseToCome(Tail(q))
      BY <2>1, <3>1, <3>2 DEF ReleaseToCome
    <3> QED
      BY <1>1, <3>3, SweptAppend
  <2> QED
    BY <2>2, <2>3
<1> QED
  BY <1>2, <1>3

(* The node runs the first command that it has not answered. *)
FirstRun(q, i, res, p) ==
  /\ i \in DOMAIN q /\ q[i].res = "sent" /\ res # "sent"
  /\ \A j \in 1 .. (i - 1) : q[j].res # "sent"
  /\ p = [q EXCEPT ![i] = [q[i] EXCEPT !.res = res]]

LEMMA SweptRun ==
  ASSUME NEW q \in Seq(Command), NEW i, NEW res, NEW p, FirstRun(q, i, res, p)
  PROVE  /\ NoAcquireToCome(q) => NoAcquireToCome(p)
         /\ ReleaseToCome(q) => ReleaseToCome(p) \/
              (q[i].script = "release" /\ res # "noscript" /\ NoAcquireToCome(p))
<1> USE DEF FirstRun
<1>1. /\ q[i] \in Command /\ DOMAIN p = DOMAIN q
      /\ DOMAIN q = 1 .. Len(q) /\ Len(q) \in Nat
  OBVIOUS
<1>2. /\ p[i].script = q[i].script /\ p[i].res = res
      /\ \A j \in DOMAIN q : j # i => p[j] = q[j]
  BY <1>1 DEF Command
<1>3. \A j \in DOMAIN q : p[j].script = q[j].script
  BY <1>2
<1>4. NoAcquireToCome(q) => NoAcquireToCome(p)
  BY <1>1, <1>2, <1>3 DEF NoAcquireToCome
<1>5. ASSUME ReleaseToCome(q)
      PROVE  ReleaseToCome(p) \/ (q[i].script = "release" /\ res # "noscript" /\ NoAcquireToCome(p))
  <2>1. PICK w \in DOMAIN q :
          /\ q[w].script = "release" /\ q[w].res \in {"sent", "noscript"}
          /\ \A j \in DOMAIN q : j > w => q[j].script # "acquire"
    BY <1>5 DEF ReleaseToCome
  <2>2. CASE w # i \/ res = "noscript"
    <3>1. p[w].res \in {"sent", "noscript"} /\ p[w].script = "release"
      BY <1>2, <1>3, <2>1, <2>2
    <3>2. \A j \in DOMAIN p : j > w => p[j].script # "acquire"
      BY <1>1, <1>3, <2>1
    <3> QED
      BY <1>1, <3>1, <3>2 DEF ReleaseToCome
  <2>3. CASE w = i /\ res # "noscript"
    <3>1. \A j \in DOMAIN q : j < i => j \in 1 .. (i - 1)
      BY <1>1
    <3>2. \A j \in DOMAIN q : j < i \/ j = i \/ j > i
      BY <1>1
    <3>3. NoAcquireToCome(p)
      BY <1>1, <1>2, <1>3, <2>1, <2>3, <3>1, <3>2 DEF NoAcquireToCome
    <3> QED
      BY <2>1, <2>3, <3>3
  <2> QED
    BY <2>2, <2>3
<1> QED
  BY <1>4, <1>5

(* Nobody takes a key over in the name of c. *)
OwnedShrinks(c, n) == \A r \in Keys[c] : val'[n][r] = c => val[n][r] = c

LEMMA SweptKept ==
  ASSUME NEW c \in Calls, NEW n \in Nodes, SweptAt(c, n), OwnedShrinks(c, n),
         ReleaseToCome(queue[c][n]) => ReleaseToCome(queue'[c][n]),
         NoAcquireToCome(queue[c][n]) => NoAcquireToCome(queue'[c][n])
  PROVE  SweptAt(c, n)'
BY DEF SweptAt, Owned, OwnedShrinks

LEMMA CallerSwept ==
  ASSUME SweptInv, NEW c \in Calls, Caller(c)
  PROVE  AcquireCached' /\ Swept'
<1> USE DEF SweptInv, SafeInv, TypeInv
<1>1. PICK s \in Slots, k \in Nat, script \in Scripts :
        /\ Attempt(c, s, k, script, queue[c])
        /\ script = "acquire" => phase'[c] \notin Ending
        /\ phase'[c] \in Ending => phase[c] \in Ending \/ script = "release"
  <2>1. CASE Acquire(c)
    <3>1. Attempt(c, "lock", 1, "acquire", queue[c]) /\ phase'[c] = "acquiring"
      BY <2>1 DEF Acquire, TypeOK
    <3> QED BY <3>1 DEF Slots, Scripts, Ending
  <2>2. CASE Extend(c)
    <3>1. Attempt(c, "lock", 1, "extend", queue[c]) /\ phase' = phase
      BY <2>2 DEF Extend, handleVars
    <3> QED BY <3>1 DEF Slots, Scripts
  <2>3. CASE Release(c)
    BY <2>3 DEF Release, Slots, Scripts
  <2>4. ASSUME NEW s \in Slots, Retry(c, s)
        PROVE  \E k \in Nat, script \in Scripts :
                 /\ Attempt(c, s, k, script, queue[c])
                 /\ script = "acquire" => phase'[c] \notin Ending
                 /\ phase'[c] \in Ending => phase[c] \in Ending \/ script = "release"
    <3>1. /\ Attempt(c, s, tries[c][s] + 1, ScriptOf(c, s), queue[c]) /\ tries[c][s] + 1 \in Nat
          /\ phase' = phase
      BY <2>4 DEF Retry, TypeOK, handleVars
    <3>2. ScriptOf(c, s) \in Scripts /\ (ScriptOf(c, s) = "acquire" => phase[c] = "acquiring")
      BY DEF ScriptOf, Scripts
    <3> QED BY <3>1, <3>2 DEF Ending
  <2> QED BY <2>1, <2>2, <2>3, <2>4 DEF Caller
<1> DEFINE m == [script |-> script, rnd |-> round[c][s] + 1, raw |-> FALSE, res |-> "sent"]
<1>2. m \in Command /\ m.script = script /\ m.res = "sent"
  BY DEF TypeOK, Command
<1>3. /\ \A n \in Nodes : queue'[c][n] = Append(queue[c][n], m)
      /\ \A d \in Calls \ {c}, n \in Nodes : queue'[d][n] = queue[d][n]
      /\ \A d \in Calls, n \in Nodes : queue[d][n] \in Seq(Command)
  BY <1>1 DEF Attempt, TypeOK
<1>4. /\ UNCHANGED <<val, cached, lost, faults>>
      /\ \A d \in Calls \ {c} : phase'[d] = phase[d]
  BY DEF Caller, Acquire, Extend, Release, Retry, nodeVars, handleVars, TypeOK
<1> HIDE DEF m
<1>5. AcquireCached'
  <2> SUFFICES ASSUME NEW n \in Nodes \ lost, NEW d \in Calls, NEW i \in DOMAIN queue'[d][n],
                      queue'[d][n][i].script = "acquire"
               PROVE  queue'[d][n][i].res # "noscript"
    BY <1>4 DEF AcquireCached
  <2>1. CASE d = c
    <3>1. \/ i \in DOMAIN queue[c][n] /\ queue'[c][n][i] = queue[c][n][i]
          \/ queue'[c][n][i] = m
      BY <1>2, <1>3, <2>1, AppendIndex
    <3> QED BY <1>2, <2>1, <3>1 DEF AcquireCached
  <2>2. CASE d # c
    BY <1>3, <2>2 DEF AcquireCached
  <2> QED BY <2>1, <2>2
<1>6. Swept'
  <2> SUFFICES ASSUME NEW d \in Calls, NEW n \in Nodes \ lost, phase'[d] \in Ending, faults = 0
               PROVE  SweptAt(d, n)'
    BY <1>4 DEF Swept
  <2>1. OwnedShrinks(d, n)
    BY <1>4 DEF OwnedShrinks
  <2>2. CASE phase[d] \in Ending
    <3>1. SweptAt(d, n)
      BY <2>2 DEF Swept
    <3>2. d = c => m.script # "acquire"
      BY <1>1, <1>2
    <3>3. /\ ReleaseToCome(queue[d][n]) => ReleaseToCome(queue'[d][n])
          /\ NoAcquireToCome(queue[d][n]) => NoAcquireToCome(queue'[d][n])
      BY <1>2, <1>3, <3>2, SweptAppend
    <3> QED BY <2>1, <3>1, <3>3, SweptKept
  <2>3. CASE phase[d] \notin Ending
    <3>1. d = c /\ m.script = "release"
      BY <1>1, <1>2, <1>4, <2>3
    <3>2. ReleaseToCome(queue'[c][n])
      BY <1>2, <1>3, <3>1, SweptAppend
    <3> QED BY <3>1, <3>2 DEF SweptAt
  <2> QED BY <2>2, <2>3
<1> QED
  BY <1>5, <1>6

LEMMA HandleSwept ==
  ASSUME SweptInv, NEW c \in Calls, NEW n \in Nodes, Handle(c, n)
  PROVE  AcquireCached' /\ Swept'
<1> USE DEF SweptInv, SafeInv, TypeInv
<1>1. UNCHANGED <<val, cached, lost, faults>>
  BY DEF Handle, CountVote, RetryLater, LockSucceeds, AcquireFails, ExtendFails, UnlockEnds,
         IgnoreAnswer, FallBackToEval, nodeVars
<1>2. /\ queue[c][n] # << >> /\ Head(queue[c][n]) \in Command
      /\ \A d \in Calls, k \in Nodes : queue[d][k] \in Seq(Command)
  <2>1. queue[c][n] # << >>
    BY DEF Handle, CountVote, RetryLater, LockSucceeds, AcquireFails, ExtendFails, UnlockEnds,
           IgnoreAnswer, FallBackToEval, Answers, Answered
  <2> QED BY <2>1, PopType DEF TypeOK
<1>3. AcquireCached'
  <2>1. \A d \in Calls, k \in Nodes : \A m \in Sent(d, k)' :
          m \in Sent(d, k) \/ m.res = "sent" \/ m.script = "release"
    BY HandleSent
  <2> SUFFICES ASSUME NEW k \in Nodes \ lost, NEW d \in Calls, NEW i \in DOMAIN queue'[d][k],
                      queue'[d][k][i].script = "acquire"
               PROVE  queue'[d][k][i].res # "noscript"
    BY <1>1 DEF AcquireCached
  <2>2. queue'[d][k][i] \in Sent(d, k)'
    BY DEF Sent
  <2>3. queue'[d][k][i] \in Sent(d, k) \/ queue'[d][k][i].res = "sent"
    BY <2>1, <2>2
  <2> QED BY <2>3 DEF AcquireCached, Sent
<1>4. ASSUME queue' = Pop(c, n), Head(queue[c][n]).res \in Ballots,
             \A d \in Calls : phase'[d] \in Ending => phase[d] \in Ending
      PROVE  Swept'
  <2> SUFFICES ASSUME NEW d \in Calls, NEW k \in Nodes \ lost, phase[d] \in Ending, faults = 0
               PROVE  SweptAt(d, k)'
    BY <1>1, <1>4 DEF Swept
  <2>1. SweptAt(d, k) /\ OwnedShrinks(d, k)
    BY <1>1 DEF Swept, OwnedShrinks
  <2>2. /\ queue'[d][k] = IF d = c /\ k = n THEN Tail(queue[c][n]) ELSE queue[d][k]
        /\ Head(queue[c][n]).res \notin {"sent", "noscript"}
    BY <1>4 DEF Pop, TypeOK, Ballots
  <2>3. /\ ReleaseToCome(queue[d][k]) => ReleaseToCome(queue'[d][k])
        /\ NoAcquireToCome(queue[d][k]) => NoAcquireToCome(queue'[d][k])
    BY <1>2, <2>2, SweptTail
  <2> QED BY <2>1, <2>3, SweptKept
<1>5. CASE (\E s \in Slots : CountVote(c, n, s) \/ RetryLater(c, n, s)) \/ LockSucceeds(c, n)
           \/ ExtendFails(c, n) \/ UnlockEnds(c, n) \/ IgnoreAnswer(c, n)
  <2>1. queue' = Pop(c, n)
    BY <1>5 DEF CountVote, RetryLater, LockSucceeds, ExtendFails, UnlockEnds, IgnoreAnswer
  <2>2. Head(queue[c][n]).res \in Ballots
    BY <1>2, <1>5 DEF CountVote, RetryLater, LockSucceeds, ExtendFails, UnlockEnds, IgnoreAnswer,
                      Answers, Answered, Command
  <2>3. UnlockEnds(c, n) => phase[c] \in Ending
    BY DEF UnlockEnds, Answers, NoReleaseSent, TypeOK, Ending
  <2>4. \A d \in Calls : phase'[d] \in Ending => phase[d] \in Ending
    <3>1. CASE UnlockEnds(c, n)
      BY <2>3, <3>1 DEF UnlockEnds, TypeOK
    <3>2. CASE LockSucceeds(c, n)
      BY <3>2 DEF LockSucceeds, TypeOK, Ending
    <3> QED BY <1>5, <3>1, <3>2 DEF CountVote, RetryLater, ExtendFails, IgnoreAnswer, handleVars
  <2> QED BY <1>3, <1>4, <2>1, <2>2, <2>4
<1>6. CASE AcquireFails(c, n)
  <2> DEFINE m == [script |-> "release", rnd |-> round[c]["unlock"] + 1, raw |-> FALSE, res |-> "sent"]
             q == Pop(c, n)[c]
  <2>1. Cleanup(c, q)
    BY <1>6 DEF AcquireFails
  <2>2. m \in Command /\ m.script = "release" /\ m.res = "sent"
    BY DEF TypeOK, Command, Scripts, Slots
  <2>3. q \in [Nodes -> Seq(Command)]
    BY <1>2, PopType
  <2>4. /\ \A k \in Nodes : queue'[c][k] = Append(q[k], m)
        /\ \A d \in Calls \ {c}, k \in Nodes : queue'[d][k] = queue[d][k] /\ phase'[d] = phase[d]
    BY <2>1 DEF Cleanup, TypeOK
  <2> HIDE DEF m, q
  <2>5. \A k \in Nodes : ReleaseToCome(queue'[c][k])
    BY <2>2, <2>3, <2>4, SweptAppend
  <2>6. Swept'
    <3> SUFFICES ASSUME NEW d \in Calls, NEW k \in Nodes \ lost, phase'[d] \in Ending, faults = 0
                 PROVE  SweptAt(d, k)'
      BY <1>1 DEF Swept
    <3>1. CASE d = c
      BY <2>5, <3>1 DEF SweptAt
    <3>2. CASE d # c
      <4>1. SweptAt(d, k) /\ OwnedShrinks(d, k) /\ queue'[d][k] = queue[d][k]
        BY <1>1, <2>4, <3>2 DEF Swept, OwnedShrinks
      <4> QED BY <4>1, SweptKept
    <3> QED BY <3>1, <3>2
  <2> QED BY <1>3, <2>6
<1>7. CASE FallBackToEval(c, n)
  <2> DEFINE q == queue[c][n]
             m == [Head(q) EXCEPT !.raw = TRUE, !.res = "sent"]
  <2>1. Head(q).res = "noscript"
    BY <1>7 DEF FallBackToEval
  <2>2. m \in Command /\ m.res = "sent" /\ m.script = Head(q).script
    BY <1>2 DEF Command
  <2>3. /\ queue'[c][n] = Append(Tail(q), m)
        /\ \A d \in Calls, k \in Nodes : d # c \/ k # n => queue'[d][k] = queue[d][k]
        /\ phase' = phase
    BY <1>7 DEF FallBackToEval, TypeOK, handleVars
  <2> HIDE DEF m
  <2>4. n \notin lost => Head(q).script # "acquire"
    <3>1. 1 \in DOMAIN q /\ q[1] = Head(q)
      BY <1>2
    <3> QED BY <2>1, <3>1 DEF AcquireCached
  <2>5. Swept'
    <3> SUFFICES ASSUME NEW d \in Calls, NEW k \in Nodes \ lost, phase[d] \in Ending, faults = 0
                 PROVE  SweptAt(d, k)'
      BY <1>1, <2>3 DEF Swept
    <3>1. SweptAt(d, k) /\ OwnedShrinks(d, k)
      BY <1>1 DEF Swept, OwnedShrinks
    <3>2. /\ ReleaseToCome(queue[d][k]) => ReleaseToCome(queue'[d][k])
          /\ NoAcquireToCome(queue[d][k]) => NoAcquireToCome(queue'[d][k])
      BY <1>2, <2>1, <2>2, <2>3, <2>4, SweptAgain
    <3> QED BY <3>1, <3>2, SweptKept
  <2> QED BY <1>3, <2>5
<1> QED
  BY <1>5, <1>6, <1>7 DEF Handle

LEMMA NodeExecSwept ==
  ASSUME SweptInv, NEW c \in Calls, NEW n \in Nodes, NodeExec(c, n)
  PROVE  AcquireCached' /\ Swept'
<1>0. TypeOK /\ AcquireCached /\ Swept
  BY DEF SweptInv, SafeInv, TypeInv
<1>1. PICK i \in DOMAIN queue[c][n] :
        NoScript(c, n, i) \/ AcquireScript(c, n, i) \/ ExtendScript(c, n, i) \/ ReleaseScript(c, n, i)
  BY DEF NodeExec
<1> DEFINE q == queue[c][n]
<1>2. PICK res \in {"for", "locked", "noscript"} :
        /\ queue' = [queue EXCEPT ![c][n][i].res = res]
        /\ res = "noscript" <=> NoScript(c, n, i)
  <2>1. NoScript(c, n, i) => ~Found(c, n, i) /\ queue' = [queue EXCEPT ![c][n][i].res = "noscript"]
    BY DEF NoScript
  <2>2. AcquireScript(c, n, i) \/ ExtendScript(c, n, i) \/ ReleaseScript(c, n, i) =>
          Found(c, n, i) /\ \E res \in {"for", "locked"} : queue' = [queue EXCEPT ![c][n][i].res = res]
    BY DEF AcquireScript, ExtendScript, ReleaseScript, Reply
  <2> QED BY <1>1, <2>1, <2>2 DEF NoScript
<1>3. /\ UNCHANGED <<phase, lost, faults>> /\ \A k \in Nodes : cached[k] \subseteq cached'[k]
      /\ q[i].res = "sent" /\ \A j \in 1 .. (i - 1) : q[j].res # "sent"
  <2>1. UNCHANGED <<phase, lost, faults>>
    BY <1>1 DEF NoScript, AcquireScript, ExtendScript, ReleaseScript, Reply, nodeVars, handleVars
  <2>2. cached' = cached \/ cached' = [cached EXCEPT ![n] = @ \union {queue[c][n][i].script}]
    BY <1>1 DEF NoScript, AcquireScript, ExtendScript, ReleaseScript, Reply, nodeVars
  <2>3. \A k \in Nodes : cached[k] \subseteq cached'[k]
    BY <1>0, <2>2 DEF TypeOK
  <2>4. \E script \in Scripts : Runs(c, n, i, script)
    BY <1>1 DEF NoScript, AcquireScript, ExtendScript, ReleaseScript, Scripts
  <2> QED BY <2>1, <2>3, <2>4 DEF Runs
<1>4. q \in Seq(Command) /\ c # NoVal
  BY <1>0, ConstantsAssumption DEF TypeOK
<1>5. n \notin lost /\ res = "noscript" => q[i].script # "acquire"
  BY <1>0, <1>2 DEF NoScript, Found, AcquireCached
<1>6. AcquireCached'
  <2>1. \A d \in Calls, k \in Nodes : \A m \in Sent(d, k)' : m \in Sent(d, k) \/
          /\ d = c /\ k = n /\ m.res = res
          /\ m.script = queue[c][n][i].script /\ m.rnd = queue[c][n][i].rnd
    <3>1. /\ TypeOK /\ i \in DOMAIN queue[c][n]
          /\ \/ queue' = [queue EXCEPT ![c][n][i].res = "for"] /\ res = "for"
             \/ queue' = [queue EXCEPT ![c][n][i].res = "locked"] /\ res = "locked"
             \/ queue' = [queue EXCEPT ![c][n][i].res = "noscript"] /\ res = "noscript"
      BY <1>0, <1>1, <1>2
    <3> QED BY <3>1, ResultSent
  <2> SUFFICES ASSUME NEW k \in Nodes \ lost, NEW d \in Calls, NEW j \in DOMAIN queue'[d][k],
                      queue'[d][k][j].script = "acquire"
               PROVE  queue'[d][k][j].res # "noscript"
    BY <1>0, <1>3 DEF AcquireCached
  <2>2. queue'[d][k][j] \in Sent(d, k)'
    BY DEF Sent
  <2>3. queue'[d][k][j] \in Sent(d, k) \/
          (k = n /\ queue'[d][k][j].res = res /\ queue'[d][k][j].script = q[i].script)
    BY <2>1, <2>2
  <2> QED BY <1>0, <1>5, <2>3 DEF AcquireCached, Sent
<1>7. \A k \in Nodes, r \in Resources :
        val'[k][r] = val[k][r] \/ (k = n /\ val'[k][r] \in {c, NoVal})
  <2>1. CASE NoScript(c, n, i)
    BY <2>1 DEF NoScript, nodeVars
  <2>2. CASE AcquireScript(c, n, i) \/ ExtendScript(c, n, i)
    <3>1. UNCHANGED val \/ SetKeys(c, n)
      BY <2>2 DEF AcquireScript, ExtendScript
    <3> QED BY <1>0, <3>1 DEF SetKeys, TypeOK
  <2>3. CASE ReleaseScript(c, n, i)
    BY <1>0, <2>3 DEF ReleaseScript, TypeOK
  <2> QED BY <1>1, <2>1, <2>2, <2>3
<1>8. queue'[c][n] = [q EXCEPT ![i] = [q[i] EXCEPT !.res = res]]
      /\ \A d \in Calls, k \in Nodes : d # c \/ k # n => queue'[d][k] = queue[d][k]
  BY <1>0, <1>2 DEF TypeOK
<1>9. /\ NoAcquireToCome(q) => NoAcquireToCome(queue'[c][n])
      /\ ReleaseToCome(q) => ReleaseToCome(queue'[c][n]) \/
           (q[i].script = "release" /\ res # "noscript" /\ NoAcquireToCome(queue'[c][n]))
  <2> DEFINE p == queue'[c][n]
  <2>1. q \in Seq(Command) /\ FirstRun(q, i, res, p)
    BY <1>1, <1>2, <1>3, <1>4, <1>8 DEF FirstRun
  <2> HIDE DEF p, q
  <2>2. /\ NoAcquireToCome(q) => NoAcquireToCome(p)
        /\ ReleaseToCome(q) => ReleaseToCome(p) \/
             (q[i].script = "release" /\ res # "noscript" /\ NoAcquireToCome(p))
    BY <2>1, SweptRun
  <2> QED BY <2>2 DEF p
<1>10. \A d \in Calls : Keys[d] \subseteq Resources
  BY ConstantsAssumption
<1>11. ReleaseScript(c, n, i) => Owned(c, n)' = {}
  <2> SUFFICES ASSUME ReleaseScript(c, n, i), NEW r \in Keys[c], val'[n][r] = c
               PROVE  FALSE
    BY DEF Owned
  <2>1. val'[n][r] = IF r \in Owned(c, n) THEN NoVal ELSE val[n][r]
    BY <1>0, <1>10 DEF ReleaseScript, TypeOK
  <2> QED BY <1>4, <2>1 DEF Owned
<1>12. ASSUME n \notin lost, SweptAt(c, n)
       PROVE  SweptAt(c, n)'
  <2>1. CASE ReleaseToCome(q)
    <3>1. CASE ReleaseToCome(queue'[c][n])
      BY <3>1 DEF SweptAt
    <3>2. CASE q[i].script = "release" /\ res # "noscript" /\ NoAcquireToCome(queue'[c][n])
      <4>1. ReleaseScript(c, n, i)
        BY <1>1, <1>2, <3>2 DEF AcquireScript, ExtendScript, Runs
      <4> QED BY <1>11, <3>2, <4>1 DEF SweptAt
    <3> QED BY <1>9, <2>1, <3>1, <3>2
  <2>2. CASE NoAcquireToCome(q) /\ Owned(c, n) = {}
    <3>1. ~AcquireScript(c, n, i)
      BY <2>2 DEF AcquireScript, Runs, NoAcquireToCome
    <3>2. ExtendScript(c, n, i) \/ NoScript(c, n, i) => val' = val \/ Keys[c] = {}
      BY <2>2 DEF ExtendScript, NoScript, nodeVars
    <3>3. Owned(c, n)' = {}
      BY <1>1, <1>11, <2>2, <3>1, <3>2 DEF Owned
    <3> QED BY <1>9, <2>2, <3>3 DEF SweptAt
  <2> QED BY <1>12, <2>1, <2>2 DEF SweptAt
<1>13. Swept'
  <2> SUFFICES ASSUME NEW d \in Calls, NEW k \in Nodes \ lost, phase[d] \in Ending, faults = 0
               PROVE  SweptAt(d, k)'
    BY <1>3 DEF Swept
  <2>1. SweptAt(d, k)
    BY <1>0 DEF Swept
  <2>2. CASE d = c /\ k = n
    BY <1>12, <2>1, <2>2
  <2>3. CASE d # c \/ k # n
    <3>1. OwnedShrinks(d, k)
      BY <1>7, <1>10, <2>3, ConstantsAssumption DEF OwnedShrinks
    <3> QED BY <1>8, <2>1, <2>3, <3>1, SweptKept
  <2> QED BY <2>2, <2>3
<1> QED
  BY <1>6, <1>13

LEMMA EnvironmentSwept ==
  ASSUME SweptInv, Environment
  PROVE  AcquireCached' /\ Swept'
<1> USE DEF SweptInv, SafeInv, TypeInv
<1>1. CASE Tick \/ \E n \in Nodes : Restart(n) \/ \E r \in Resources : Expire(n, r)
  <2>1. /\ UNCHANGED <<queue, phase>> /\ lost \subseteq lost' /\ (faults' = 0 => faults = 0)
        /\ \A n \in Nodes \ lost' : cached'[n] = cached[n]
        /\ \A n \in Nodes, r \in Resources : val'[n][r] = val[n][r] \/ val'[n][r] = NoVal
    <3>1. CASE Tick
      BY <3>1 DEF Tick, nodeVars, handleVars
    <3>2. ASSUME NEW n \in Nodes, Restart(n)
          PROVE  /\ UNCHANGED <<queue, phase>> /\ lost \subseteq lost' /\ faults' # 0
                 /\ \A k \in Nodes \ lost' : cached'[k] = cached[k]
                 /\ \A k \in Nodes, r \in Resources : val'[k][r] = val[k][r] \/ val'[k][r] = NoVal
      BY <3>2 DEF Restart, handleVars, TypeOK
    <3>3. ASSUME NEW n \in Nodes, NEW r0 \in Resources, Expire(n, r0)
          PROVE  /\ UNCHANGED <<queue, phase, faults, lost, cached>>
                 /\ \A k \in Nodes, r \in Resources : val'[k][r] = val[k][r] \/ val'[k][r] = NoVal
      BY <3>3 DEF Expire, handleVars, TypeOK
    <3> QED BY <1>1, <3>1, <3>2, <3>3
  <2>2. AcquireCached'
    BY <2>1 DEF AcquireCached
  <2>3. \A c \in Calls, n \in Nodes : OwnedShrinks(c, n)
    BY <2>1, ConstantsAssumption DEF OwnedShrinks
  <2>4. Swept'
    <3> SUFFICES ASSUME NEW c \in Calls, NEW n \in Nodes \ lost', phase[c] \in Ending, faults' = 0
                 PROVE  SweptAt(c, n)'
      BY <2>1 DEF Swept
    <3>1. SweptAt(c, n)
      BY <2>1 DEF Swept
    <3> QED BY <2>1, <2>3, <3>1, SweptKept
  <2> QED BY <2>2, <2>4
<1>2. ASSUME NEW c \in Calls, NEW n \in Nodes, NEW res \in {"error", "sent"},
             (ConnFails(c, n) /\ res = "error") \/ (Resend(c, n) /\ res = "sent")
      PROVE  AcquireCached' /\ Swept'
  <2>1. \A d \in Calls, k \in Nodes : \A m \in Sent(d, k)' :
          \E m0 \in Sent(d, k) : m0.script = m.script /\ m0.rnd = m.rnd /\ (m = m0 \/ m.res = res)
    BY <1>2, AllResultsSent
  <2>2. /\ UNCHANGED <<cached, lost>> /\ faults' # 0
    BY <1>2 DEF ConnFails, Resend, nodeVars, TypeOK
  <2>3. AcquireCached'
    <3> SUFFICES ASSUME NEW k \in Nodes \ lost, NEW d \in Calls, NEW j \in DOMAIN queue'[d][k],
                        queue'[d][k][j].script = "acquire"
                 PROVE  queue'[d][k][j].res # "noscript"
      BY <2>2 DEF AcquireCached
    <3>1. queue'[d][k][j] \in Sent(d, k)'
      BY DEF Sent
    <3>2. queue'[d][k][j] \in Sent(d, k) \/ queue'[d][k][j].res \in {"error", "sent"}
      BY <2>1, <3>1
    <3> QED BY <3>2 DEF AcquireCached, Sent
  <2> QED BY <2>2, <2>3 DEF Swept
<1> QED
  BY <1>1, <1>2 DEF Environment

LEMMA SweptInductive == SweptInv /\ [Next]_vars => SweptInv'
<1> SUFFICES ASSUME SweptInv, [Next]_vars PROVE SweptInv'
  OBVIOUS
<1>1. SafeInv'
  BY SafeInductive DEF SweptInv
<1>2. CASE Finished \/ UNCHANGED vars
  <2>1. UNCHANGED <<val, cached, lost, queue, phase, faults>>
    BY <1>2 DEF Finished, vars, nodeVars, handleVars
  <2>2. AcquireCached' /\ Swept'
    BY <2>1 DEF SweptInv, AcquireCached, Swept, SweptAt, Owned
  <2> QED BY <1>1, <2>2 DEF SweptInv
<1> QED
  BY <1>1, <1>2, CallerSwept, HandleSwept, NodeExecSwept, EnvironmentSwept DEF SweptInv, Next

LEMMA SweptCorrect ==
  ASSUME "acquire" \in InitialScripts
  PROVE  Spec => []SweptInv
<1>1. Init => SweptInv
  <2> SUFFICES ASSUME Init PROVE SweptInv
    OBVIOUS
  <2>1. \A c \in Calls : phase[c] = "idle" /\ \A n \in Nodes : DOMAIN queue[c][n] = {}
    BY DEF Init
  <2>2. \A n \in Nodes : "acquire" \in cached[n]
    BY DEF Init
  <2> QED
    BY <2>1, <2>2, InitSafe DEF SweptInv, AcquireCached, Swept, Ending
<1> QED
  BY <1>1, SweptInductive, PTL DEF Spec

LEMMA NothingLeft ==
  ASSUME SweptInv, NEW c \in Calls, NEW n \in Nodes \ lost, phase[c] \in Ending,
         queue[c][n] = << >>, faults = 0
  PROVE  Owned(c, n) = {}
<1>1. SweptAt(c, n)
  BY DEF SweptInv, Swept
<1>2. ~ReleaseToCome(queue[c][n])
  BY DEF ReleaseToCome
<1> QED
  BY <1>1, <1>2 DEF SweptAt

(* A node that lost its keys counts as a failure. *)
NothingLost == faults = 0 => lost = {}

LEMMA NothingLostInductive == TypeOK /\ NothingLost /\ [Next]_vars => NothingLost'
<1> SUFFICES ASSUME TypeOK, NothingLost, [Next]_vars PROVE NothingLost'
  OBVIOUS
<1>1. faults \in Nat
  BY DEF TypeOK
<1>2. ASSUME NEW c \in Calls, Caller(c) PROVE UNCHANGED <<lost, faults>>
  BY <1>2 DEF Caller, Acquire, Extend, Release, Retry, nodeVars
<1>3. ASSUME NEW c \in Calls, NEW n \in Nodes, Handle(c, n) PROVE UNCHANGED <<lost, faults>>
  BY <1>3 DEF Handle, CountVote, RetryLater, LockSucceeds, AcquireFails, ExtendFails, UnlockEnds,
         IgnoreAnswer, FallBackToEval, nodeVars
<1>4. ASSUME NEW c \in Calls, NEW n \in Nodes, NodeExec(c, n) PROVE UNCHANGED <<lost, faults>>
  BY <1>4 DEF NodeExec, NoScript, AcquireScript, ExtendScript, ReleaseScript, Reply, nodeVars
<1>5. CASE Environment
  <2>1. (lost' = lost /\ faults' = faults) \/ faults' = faults + 1
    BY <1>5 DEF Environment, Tick, Restart, Expire, ConnFails, Resend, nodeVars
  <2> QED BY <1>1, <2>1 DEF NothingLost
<1>6. CASE Finished \/ UNCHANGED vars
  BY <1>6 DEF Finished, vars, nodeVars, NothingLost
<1> QED
  BY <1>2, <1>3, <1>4, <1>5, <1>6 DEF Next, NothingLost

(* However many nodes and calls there are, a call that is over leaves no   *)
(* key on a node, as long as no connection failed and no node lost the     *)
(* script of acquire(), so that no node runs it after the release.         *)
THEOREM CallsCleanUp ==
  ASSUME "acquire" \in InitialScripts
  PROVE  Spec => []CleanedUp
<1>1. Init => NothingLost
  BY DEF Init, NothingLost
<1>2. SweptInv /\ NothingLost => CleanedUp
  BY NothingLeft DEF CleanedUp, Ending, NothingLost
<1>3. SweptInv => TypeOK
  BY DEF SweptInv, SafeInv, TypeInv
<1> QED
  BY <1>1, <1>2, <1>3, NothingLostInductive, SweptCorrect, PTL DEF Spec
=============================================================================
