------------------------ MODULE RedlockWithLockProofs ------------------------
(***************************************************************************)
(* withLock() only calls Redlock, so that what is proved of Redlock holds  *)
(* of it; two handlers overlap only while an extension is pending; and a   *)
(* lock that is given back is gone from every node.                        *)
(***************************************************************************)
EXTENDS RedlockWithLock, RedlockProofs

allVars == <<vars, withLockVars>>

LEMMA StepOfRedlock == ASSUME [WithLockNext]_allVars PROVE [Next]_vars
<1>1. ASSUME NEW c \in Calls, WithLock(c) \/ HandlerEnds(c) \/ \E s \in Slots : Retry(c, s)
      PROVE  Next
  BY <1>1 DEF WithLock, HandlerEnds, Next, Caller
<1>2. ASSUME NEW c \in Calls, TimerFires(c)
      PROVE  [Next]_vars
  BY <1>2 DEF TimerFires, Next, Caller
<1>3. ASSUME NEW c \in Calls, NEW n \in Nodes,
             Acquired(c, n) \/ Extended(c, n) \/ ExtensionFails(c, n) \/ InnerAnswer(c, n)
      PROVE  Next
  BY <1>3 DEF Acquired, Extended, ExtensionFails, InnerAnswer, Handle, Next
<1> QED
  BY <1>1, <1>2, <1>3 DEF WithLockNext, AllReturned, Next, allVars

(* Every behaviour of withLock() is one of Redlock: its exclusion, backing *)
(* and refinement theorems apply.                                          *)
THEOREM WithLockUsesRedlock == WithLockSpec => Spec
<1>1. WithLockInit => Init
  BY DEF WithLockInit
<1>2. [WithLockNext]_allVars => [Next]_vars
  BY StepOfRedlock
<1> QED
  BY <1>1, <1>2, PTL DEF WithLockSpec, Spec, allVars

-----------------------------------------------------------------------------
(* While the handler runs, the lock has not been released; its timer never *)
(* fires later than the handle expires, unless it was armed too late; and  *)
(* as long as the signal is not aborted, it is armed or has started an     *)
(* extension.                                                              *)
Attended(c) ==
  /\ phase[c] = "held"
  /\ timer[c] <= now \/ timer[c] <= exp[c]
  /\ ~aborted[c] => timer[c] # 0 \/ run[c]["lock"] # "idle"

HandlersAttended == \A c \in Calls : handler[c] = "running" => Attended(c)

WithLockInv == WithLockTypeOK /\ HandlersAttended

LEMMA FiringTimeBound ==
  ASSUME NEW e \in Int, now \in Nat, now >= 1
  PROVE  /\ FiringTime(e) \in Nat /\ FiringTime(e) # 0
         /\ FiringTime(e) <= now \/ FiringTime(e) <= e
BY ThresholdAssumption, ConstantsAssumption DEF FiringTime

LEMMA NowGrows == ASSUME SafeInv, [Next]_vars PROVE now \in Nat /\ now' \in Nat /\ now' >= now
<1>1. now \in Nat
  BY DEF SafeInv, TypeInv, TypeOK
<1>2. (\E c \in Calls : Caller(c)) => now' = now
  BY DEF Caller, Acquire, Extend, Release, Retry
<1>3. (\E c \in Calls, n \in Nodes : Handle(c, n)) => now' = now
  BY HandleSent DEF SafeInv, TypeInv
<1>4. (\E c \in Calls, n \in Nodes : NodeExec(c, n)) => now' = now
  <2>1. \A c \in Calls, n \in Nodes : \A i \in DOMAIN queue[c][n] :
          \/ NoScript(c, n, i) \/ AcquireScript(c, n, i)
          \/ ExtendScript(c, n, i) \/ ReleaseScript(c, n, i)
          => now' = now
    BY DEF NoScript, AcquireScript, ExtendScript, ReleaseScript, Reply
  <2> QED BY <2>1 DEF NodeExec
<1>5. Environment => now' = now \/ now' = now + 1
  BY DEF Environment, Tick, Restart, Expire, ConnFails, Resend
<1>6. Finished \/ UNCHANGED vars => now' = now
  BY DEF Finished, vars
<1> QED BY <1>1, <1>2, <1>3, <1>4, <1>5, <1>6 DEF Next

(* A step that leaves the phase, the handle and the attempts of the lock   *)
(* slot of every held lock, and all that withLock() keeps.                 *)
LEMMA AttendedKept ==
  ASSUME WithLockInv, SafeInv, [Next]_vars, UNCHANGED withLockVars,
         \A c \in Calls : phase[c] = "held" =>
           /\ phase'[c] = "held" /\ exp'[c] = exp[c]
           /\ run[c]["lock"] # "idle" => run'[c]["lock"] # "idle"
  PROVE  WithLockInv'
<1>1. now \in Nat /\ now' \in Nat /\ now' >= now
  BY NowGrows
<1>2. WithLockTypeOK'
  BY DEF WithLockInv, WithLockTypeOK, withLockVars
<1>3. ASSUME NEW c \in Calls, handler'[c] = "running"
      PROVE  Attended(c)'
  <2>1. Attended(c)
    BY <1>3 DEF WithLockInv, HandlersAttended, withLockVars
  <2>2. timer'[c] = timer[c] /\ timer[c] \in Nat /\ aborted'[c] = aborted[c]
    BY DEF withLockVars, WithLockInv, WithLockTypeOK
  <2> QED BY <1>1, <2>1, <2>2 DEF Attended
<1> QED BY <1>2, <1>3 DEF WithLockInv, HandlersAttended

LEMMA CallerAttended ==
  ASSUME WithLockInv, SafeInv, NEW c \in Calls,
         WithLock(c) \/ \E s \in Slots : Retry(c, s) /\ UNCHANGED withLockVars
  PROVE  WithLockInv'
<1>1. [Next]_vars /\ UNCHANGED withLockVars
  BY DEF WithLock, Next, Caller
<1>2. PICK s \in Slots : run' = [run EXCEPT ![c][s] = "attempt"]
  BY DEF WithLock, Acquire, Retry, Attempt, Slots
<1>3. exp' = exp /\ \A d \in Calls : phase[d] = "held" => phase'[d] = "held"
  BY DEF WithLock, Acquire, Retry, handleVars, SafeInv, TypeInv, TypeOK
<1>4. \A d \in Calls : run[d]["lock"] # "idle" => run'[d]["lock"] # "idle"
  BY <1>2 DEF SafeInv, TypeInv, TypeOK, Slots
<1> QED BY <1>1, <1>3, <1>4, AttendedKept

LEMMA TimerAttended ==
  ASSUME WithLockInv, SafeInv, NEW c \in Calls, TimerFires(c)
  PROVE  WithLockInv'
<1> USE DEF SafeInv, TypeInv, TypeOK, WithLockInv, WithLockTypeOK
<1>1. timer' = [timer EXCEPT ![c] = 0] /\ handler' = handler /\ now' = now
      /\ phase' = phase /\ exp' = exp
  BY DEF TimerFires, Extend, vars, handleVars
<1>2. CASE Extend(c) /\ UNCHANGED aborted
  <2>1. run' = [run EXCEPT ![c]["lock"] = "attempt"]
    BY <1>2 DEF Extend, Attempt
  <2>2. \A d \in Calls : run[d]["lock"] # "idle" => run'[d]["lock"] # "idle"
    BY <2>1 DEF Slots
  <2>3. run'[c]["lock"] # "idle"
    BY <2>1 DEF Slots
  <2> QED BY <1>1, <1>2, <2>2, <2>3 DEF HandlersAttended, Attended
<1>3. CASE aborted' = [aborted EXCEPT ![c] = TRUE] /\ UNCHANGED vars
  BY <1>1, <1>3 DEF HandlersAttended, Attended, vars, attemptVars
<1> QED BY <1>2, <1>3 DEF TimerFires

LEMMA HandlerEndAttended ==
  ASSUME WithLockInv, SafeInv, NEW c \in Calls, HandlerEnds(c)
  PROVE  WithLockInv'
<1> USE DEF SafeInv, TypeInv, TypeOK, WithLockInv, WithLockTypeOK
<1>1. /\ handler' = [handler EXCEPT ![c] = "over"] /\ timer' = [timer EXCEPT ![c] = 0]
      /\ aborted' = aborted /\ now' = now
      /\ \A d \in Calls \ {c} : phase'[d] = phase[d] /\ exp'[d] = exp[d] /\ run'[d] = run[d]
  BY DEF HandlerEnds, Release, Attempt
<1> QED BY <1>1 DEF HandlersAttended, Attended

LEMMA LockAttended ==
  ASSUME WithLockInv, SafeInv, NEW c \in Calls, NEW n \in Nodes,
         Acquired(c, n) \/ Extended(c, n) \/ ExtensionFails(c, n)
  PROVE  WithLockInv'
<1> USE DEF SafeInv, TypeInv, TypeOK, WithLockInv, WithLockTypeOK
<1>1. /\ now' = now /\ now \in Nat /\ now >= 1
      /\ \A d \in Calls \ {c} : phase'[d] = phase[d] /\ exp'[d] = exp[d] /\ run'[d] = run[d]
  BY DEF Acquired, Extended, ExtensionFails, LockSucceeds, ExtendFails, Settle, handleVars, Past
<1>2. CASE Acquired(c, n) \/ Extended(c, n)
  <2>1. exp'[c] \in Int
    BY <1>2, LeaseEndIsInt DEF Acquired, Extended, LockSucceeds
  <2>2. /\ FiringTime(exp'[c]) \in Nat /\ FiringTime(exp'[c]) # 0
        /\ FiringTime(exp'[c]) <= now \/ FiringTime(exp'[c]) <= exp'[c]
    BY <1>1, <2>1, FiringTimeBound
  <2>3. CASE timer' = [timer EXCEPT ![c] = FiringTime(exp'[c])]
    <3>1. WithLockTypeOK'
      BY <1>2, <2>2, <2>3 DEF Acquired, Extended
    <3>2. handler'[c] = "running" => phase'[c] = "held"
      BY <1>2 DEF Acquired, Extended, LockSucceeds, HandlersAttended, Attended
    <3>3. \A d \in Calls \ {c} : timer'[d] = timer[d] /\ handler'[d] = handler[d] /\ aborted'[d] = aborted[d]
      BY <1>2, <2>3 DEF Acquired, Extended
    <3> QED BY <1>1, <2>2, <2>3, <3>1, <3>2, <3>3 DEF HandlersAttended, Attended
  <2>4. CASE handler' = [handler EXCEPT ![c] = "unstarted"] /\ UNCHANGED <<timer, aborted>>
    BY <1>1, <2>4 DEF HandlersAttended, Attended
  <2> QED BY <1>2, <2>3, <2>4 DEF Acquired, Extended
<1>3. CASE ExtensionFails(c, n)
  <2>1. aborted' = [aborted EXCEPT ![c] = TRUE] /\ UNCHANGED <<handler, timer, phase, exp>>
    BY <1>3 DEF ExtensionFails, ExtendFails, handleVars
  <2> QED BY <1>1, <2>1 DEF HandlersAttended, Attended
<1> QED BY <1>2, <1>3

LEMMA InnerAttended ==
  ASSUME WithLockInv, SafeInv, NEW c \in Calls, NEW n \in Nodes, InnerAnswer(c, n)
  PROVE  WithLockInv'
<1> USE DEF SafeInv, TypeInv, TypeOK
<1>1. [Next]_vars /\ UNCHANGED withLockVars
  BY DEF InnerAnswer, Handle, Next
<1>2. \A d \in Calls : phase[d] = "held" =>
        /\ phase'[d] = "held" /\ exp'[d] = exp[d]
        /\ run[d]["lock"] # "idle" => run'[d]["lock"] # "idle"
  <2>1. CASE (\E s \in Slots : CountVote(c, n, s)) \/ IgnoreAnswer(c, n) \/ FallBackToEval(c, n)
    BY <2>1 DEF CountVote, IgnoreAnswer, FallBackToEval, handleVars, attemptVars
  <2>2. CASE \E s \in Slots : RetryLater(c, n, s)
    BY <2>2 DEF RetryLater, Settle, handleVars, Slots
  <2>3. CASE AcquireFails(c, n)
    BY <2>3 DEF AcquireFails, Cleanup
  <2>4. CASE UnlockEnds(c, n)
    <3>1. run[c]["unlock"] = "attempt" /\ exp' = exp
          /\ run' = [run EXCEPT ![c]["unlock"] = "idle"]
          /\ \A d \in Calls \ {c} : phase'[d] = phase[d]
      BY <2>4 DEF UnlockEnds, Answers, Settle
    <3>2. phase[c] # "held"
      BY <3>1 DEF NoReleaseSent
    <3>3. \A d \in Calls : run'[d]["lock"] = run[d]["lock"]
      BY <3>1 DEF Slots
    <3> QED BY <3>1, <3>2, <3>3
  <2> QED BY <2>1, <2>2, <2>3, <2>4 DEF InnerAnswer
<1> QED BY <1>1, <1>2, AttendedKept

LEMMA WithLockInductive ==
  ASSUME WithLockInv, SafeInv, [WithLockNext]_allVars
  PROVE  WithLockInv'
<1>1. ASSUME NEW c \in Calls, NEW n \in Nodes, NodeExec(c, n), UNCHANGED withLockVars
      PROVE  WithLockInv'
  <2>1. UNCHANGED <<phase, exp, run>>
    BY <1>1 DEF NodeExec, NoScript, AcquireScript, ExtendScript, ReleaseScript, Reply, handleVars,
                attemptVars
  <2>2. [Next]_vars
    BY <1>1 DEF Next
  <2> QED BY <1>1, <2>1, <2>2, AttendedKept
<1>2. CASE Environment /\ UNCHANGED withLockVars
  <2>1. UNCHANGED <<phase, exp, run>>
    BY <1>2 DEF Environment, Tick, Restart, Expire, ConnFails, Resend, handleVars, attemptVars
  <2>2. [Next]_vars
    BY <1>2 DEF Next
  <2> QED BY <1>2, <2>1, <2>2, AttendedKept
<1>3. CASE UNCHANGED allVars
  <2>1. UNCHANGED <<phase, exp, run>> /\ [Next]_vars /\ UNCHANGED withLockVars
    BY <1>3 DEF allVars, vars, handleVars, attemptVars
  <2> QED BY <2>1, AttendedKept
<1> QED
  BY <1>1, <1>2, <1>3, CallerAttended, TimerAttended, HandlerEndAttended, LockAttended, InnerAttended
     DEF WithLockNext, AllReturned, allVars

LEMMA WithLockInvCorrect == WithLockSpec => [](WithLockInv /\ SafeInv)
<1>1. WithLockInit => WithLockInv
  BY DEF WithLockInit, WithLockInv, WithLockTypeOK, HandlersAttended
<1>2. WithLockInv /\ SafeInv /\ [WithLockNext]_allVars => WithLockInv'
  BY WithLockInductive
<1> QED
  BY <1>1, <1>2, WithLockUsesRedlock, SafeCorrect, PTL DEF WithLockSpec, allVars

(* Types of the variables of withLock(). *)
THEOREM WithLockTypes == WithLockSpec => []WithLockTypeOK
<1>1. WithLockInv => WithLockTypeOK
  BY DEF WithLockInv
<1> QED BY <1>1, WithLockInvCorrect, PTL

(* Two handlers work on a common key only while one's handle has expired   *)
(* and its extension is due or under way.                                  *)
THEOREM HandlersOverlapOnlyWhileExtending == WithLockSpec => []OverlapOnlyWhileExtending
<1>1. ASSUME WithLockInv, SafeInv PROVE OverlapOnlyWhileExtending
  <2> SUFFICES ASSUME FewLost, NEW c \in Calls, NEW d \in Calls,
                      Compete(c, d), Working(c), Working(d)
               PROVE  \E e \in {c, d} : exp[e] < now /\ ExtensionPending(e)
    BY DEF OverlapOnlyWhileExtending
  <2>1. Exclusion
    BY <1>1, BackedExcludes DEF SafeInv, TypeInv
  <2>2. Attended(c) /\ Attended(d) /\ ~aborted[c] /\ ~aborted[d]
    BY <1>1 DEF WithLockInv, HandlersAttended, Working
  <2>3. now \in Nat /\ \A e \in Calls : exp[e] \in Int /\ timer[e] \in Nat
    BY <1>1 DEF SafeInv, TypeInv, TypeOK, WithLockInv, WithLockTypeOK
  <2>4. PICK e \in {c, d} : ~(exp[e] >= now)
    BY <2>1, <2>2 DEF Exclusion, MutualExclusion, Holding, Attended
  <2>5. ExtensionPending(e)
    BY <2>2, <2>3, <2>4 DEF Attended, ExtensionPending
  <2> QED BY <2>3, <2>4, <2>5
<1> QED BY <1>1, WithLockInvCorrect, PTL

-----------------------------------------------------------------------------
(* A call that has begun to give up its keys never acquires again. *)
LEMMA EndingStays ==
  ASSUME SafeInv, [Next]_vars, NEW c \in Calls, phase[c] \in Ending
  PROVE  phase'[c] \in Ending
<1> USE DEF SafeInv, TypeInv
<1>1. ASSUME NEW d \in Calls, Caller(d)
      PROVE  phase'[c] \in Ending
  <2>1. phase' = phase \/ \E p \in {"acquiring", "releasing"} :
          phase' = [phase EXCEPT ![d] = p] /\ (p = "acquiring" => phase[d] = "idle")
    BY <1>1 DEF Caller, Acquire, Extend, Release, Retry, handleVars
  <2> QED BY <2>1 DEF Ending, TypeOK
<1>2. ASSUME NEW d \in Calls, NEW n \in Nodes, Handle(d, n)
      PROVE  phase'[c] \in Ending
  <2>1. CASE LockSucceeds(d, n)
    BY <2>1 DEF LockSucceeds, Ending, TypeOK
  <2>2. CASE AcquireFails(d, n)
    BY <2>2 DEF AcquireFails, Cleanup, Ending, TypeOK
  <2>3. CASE UnlockEnds(d, n)
    BY <2>3 DEF UnlockEnds, Ending, TypeOK
  <2> QED
    BY <1>2, <2>1, <2>2, <2>3 DEF Handle, CountVote, RetryLater, ExtendFails, IgnoreAnswer,
                                  FallBackToEval, handleVars
<1>3. ASSUME NEW d \in Calls, NEW n \in Nodes, NodeExec(d, n)
      PROVE  phase'[c] \in Ending
  BY <1>3 DEF NodeExec, NoScript, AcquireScript, ExtendScript, ReleaseScript, Reply, handleVars
<1>4. CASE Environment \/ Finished \/ UNCHANGED vars
  BY <1>4 DEF Environment, Tick, Restart, Expire, ConnFails, Resend, Finished, vars, handleVars
<1> QED
  BY <1>1, <1>2, <1>3, <1>4 DEF Next

OverMeansReleased == \A c \in Calls : handler[c] = "over" => phase[c] \in Ending

LEMMA OverInductive ==
  ASSUME SafeInv, WithLockTypeOK, OverMeansReleased, [WithLockNext]_allVars
  PROVE  OverMeansReleased'
<1> SUFFICES ASSUME NEW c \in Calls, handler'[c] = "over"
             PROVE  phase'[c] \in Ending
  BY DEF OverMeansReleased
<1>1. CASE handler[c] = "over"
  BY <1>1, StepOfRedlock, EndingStays DEF OverMeansReleased
<1>2. CASE handler[c] # "over"
  <2>1. HandlerEnds(c)
    <3>1. ASSUME NEW d \in Calls, HandlerEnds(d), d # c
          PROVE  handler'[c] = handler[c]
      BY <3>1 DEF HandlerEnds, WithLockTypeOK
    <3>2. ASSUME NEW d \in Calls, NEW n \in Nodes, Acquired(d, n)
          PROVE  handler'[c] # "over"
      BY <1>2, <3>2 DEF Acquired, WithLockTypeOK
    <3> QED
      BY <1>2, <3>1, <3>2 DEF WithLockNext, WithLock, TimerFires, Extended, ExtensionFails,
                              InnerAnswer, AllReturned, allVars, withLockVars
  <2>2. phase'[c] = "releasing"
    BY <2>1 DEF HandlerEnds, Release, SafeInv, TypeInv, TypeOK
  <2> QED
    BY <2>2 DEF Ending
<1> QED
  BY <1>1, <1>2

(* Whatever extension crosses the release, withLock() leaves no key of its *)
(* lock on any node, under the conditions of CallsCleanUp.                 *)
THEOREM LocksAreGivenBack ==
  ASSUME "acquire" \in InitialScripts
  PROVE  WithLockSpec => []ReleasedForGood
<1>1. WithLockInit => OverMeansReleased
  BY DEF WithLockInit, OverMeansReleased
<1>2. WithLockInv /\ SafeInv /\ OverMeansReleased /\ [WithLockNext]_allVars => OverMeansReleased'
  BY OverInductive DEF WithLockInv
<1>3. WithLockSpec => []SweptInv
  BY SweptCorrect, WithLockUsesRedlock, PTL
<1>4. Spec => []NothingLost
  <2>1. Init => NothingLost
    BY DEF Init, NothingLost
  <2>2. SweptInv => TypeOK
    BY DEF SweptInv, SafeInv, TypeInv
  <2> QED BY <2>1, <2>2, NothingLostInductive, SweptCorrect, PTL DEF Spec
<1>5. OverMeansReleased /\ SweptInv /\ NothingLost => ReleasedForGood
  BY NothingLeft DEF OverMeansReleased, ReleasedForGood, Ending, NothingLost
<1> QED
  BY <1>1, <1>2, <1>3, <1>4, <1>5, WithLockInvCorrect, WithLockUsesRedlock, PTL DEF WithLockSpec, allVars
=============================================================================
