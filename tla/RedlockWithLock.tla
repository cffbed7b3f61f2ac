--------------------------- MODULE RedlockWithLock ---------------------------
(***************************************************************************)
(* RedlockService.withLock(): acquire the lock, run the handler, extend    *)
(* the lock on a timer until the handler ends, then release it.  Every     *)
(* call of Redlock is made by a withLock() of its own; the lock operations *)
(* are those of Redlock.  An await that continues without going back to    *)
(* the event loop is part of the step before it.                           *)
(***************************************************************************)
EXTENDS Redlock

CONSTANT Threshold   \* automaticExtensionThreshold, in ticks

(* withLock() throws "Invalid extension threshold" otherwise. *)
ASSUME ThresholdAssumption == Threshold \in Nat /\ Threshold < Duration

VARIABLES
  handler,  \* handler[c]: none, running, over, or never started because a
            \* listener of the "acquired" event threw
  timer,    \* timer[c]: when the extension timer fires, 0 if it is not armed
  aborted   \* aborted[c]: the signal given to the handler

withLockVars == <<handler, timer, aborted>>

WithLockInit ==
  /\ Init
  /\ handler = [c \in Calls |-> "none"]
  /\ timer = [c \in Calls |-> 0]
  /\ aborted = [c \in Calls |-> FALSE]

(* setTimeout(.., expiration - now - threshold), at once if that is past *)
FaultyFiringTime(e) == e - now - Threshold
FiringTime(e) == IF e - Threshold >= now THEN e - Threshold ELSE now

WithLock(c) == Acquire(c) /\ UNCHANGED withLockVars

(* The lock is acquired, the timer armed and the handler started, unless a *)
(* listener throws: then withLock() rejects without a release.             *)
Acquired(c, n) ==
  /\ phase[c] = "acquiring" /\ LockSucceeds(c, n)
  /\ \/ /\ handler' = [handler EXCEPT ![c] = "running"]
        /\ timer' = [timer EXCEPT ![c] = FiringTime(exp'[c])]
     \/ handler' = [handler EXCEPT ![c] = "unstarted"] /\ UNCHANGED timer
  /\ UNCHANGED aborted

(* lock.extend() throws at once if the handle has expired, and the signal  *)
(* is aborted.  (extending is never set here: the timer is armed again     *)
(* only when the extension before has ended.)                              *)
TimerFires(c) ==
  /\ timer[c] # 0 /\ now >= timer[c]
  /\ timer' = [timer EXCEPT ![c] = 0]
  /\ \/ Extend(c) /\ UNCHANGED aborted
     \/ exp[c] < now /\ aborted' = [aborted EXCEPT ![c] = TRUE] /\ UNCHANGED vars
  /\ UNCHANGED handler

(* The timer is armed for the new handle, also when the handler is over.   *)
Extended(c, n) ==
  /\ phase[c] # "acquiring" /\ LockSucceeds(c, n)
  /\ timer' = [timer EXCEPT ![c] = FiringTime(exp'[c])]
  /\ UNCHANGED <<handler, aborted>>

FaultyExtensionFails(c, n) == ExtendFails(c, n) /\ UNCHANGED withLockVars

ExtensionFails(c, n) ==
  /\ ExtendFails(c, n)
  /\ aborted' = [aborted EXCEPT ![c] = TRUE]
  /\ UNCHANGED <<handler, timer>>

FaultyHandlerEnds(c) ==
  /\ handler[c] = "running"
  /\ handler' = [handler EXCEPT ![c] = "over"]
  /\ timer' = [timer EXCEPT ![c] = 0]
  /\ UNCHANGED <<vars, aborted>>

(* The handler resolves or rejects: clearTimeout() stops a timer that has  *)
(* not fired, and the lock is released.                                    *)
HandlerEnds(c) ==
  /\ handler[c] = "running"
  /\ handler' = [handler EXCEPT ![c] = "over"]
  /\ timer' = [timer EXCEPT ![c] = 0]
  /\ Release(c)
  /\ UNCHANGED aborted

(* Answers that withLock() does not see. *)
InnerAnswer(c, n) ==
  /\ \/ \E s \in Slots : CountVote(c, n, s) \/ RetryLater(c, n, s)
     \/ AcquireFails(c, n) \/ UnlockEnds(c, n) \/ IgnoreAnswer(c, n) \/ FallBackToEval(c, n)
  /\ UNCHANGED withLockVars

(* withLock() has ended and nothing is in flight; a timer may be armed.     *)
Returned(c) ==
  /\ \/ phase[c] = "failed"
     \/ handler[c] = "unstarted"
     \/ handler[c] = "over" /\ phase[c] \in {"released", "unreleased"}
  /\ \A s \in Slots : run[c][s] = "idle"
  /\ \A n \in Nodes : queue[c][n] = << >>

AllReturned == (\A c \in Calls : Returned(c)) /\ UNCHANGED <<vars, withLockVars>>

WithLockNext ==
  \/ \E c \in Calls :
       \/ WithLock(c) \/ TimerFires(c) \/ HandlerEnds(c)
       \/ \E s \in Slots : Retry(c, s) /\ UNCHANGED withLockVars
  \/ \E c \in Calls, n \in Nodes :
       \/ Acquired(c, n) \/ Extended(c, n) \/ ExtensionFails(c, n) \/ InnerAnswer(c, n)
       \/ NodeExec(c, n) /\ UNCHANGED withLockVars
  \/ Environment /\ UNCHANGED withLockVars
  \/ AllReturned

WithLockSpec == WithLockInit /\ [][WithLockNext]_<<vars, withLockVars>>

-----------------------------------------------------------------------------
(* Types of the variables of withLock(). *)
WithLockTypeOK ==
  /\ handler \in [Calls -> {"none", "running", "over", "unstarted"}]
  /\ timer \in [Calls -> Nat]
  /\ aborted \in [Calls -> BOOLEAN]

(* The handler runs and has not been told that its lock may be lost. *)
Working(c) == handler[c] = "running" /\ ~aborted[c]

(* An extension of c's lock is due or under way. *)
ExtensionPending(c) ==
  \/ run[c]["lock"] # "idle"
  \/ timer[c] # 0 /\ timer[c] <= now

(* Two handlers work on a common key only while the handle of one of them  *)
(* has expired and its extension has not been answered yet: nobody works   *)
(* on with an expired handle that nothing will extend and no abort will    *)
(* report.                                                                 *)
OverlapOnlyWhileExtending == FewLost => \A c, d \in Calls :
  Compete(c, d) /\ Working(c) /\ Working(d) =>
    \E e \in {c, d} : exp[e] < now /\ ExtensionPending(e)

(* When withLock() has ended and everything it sent is answered, no node   *)
(* stores its keys, whatever extension crossed the release.  (As long as   *)
(* no connection failed and no node restarted.)                            *)
ReleasedForGood == \A c \in Calls, n \in Nodes :
  /\ handler[c] = "over" \/ phase[c] = "failed"
  /\ queue[c][n] = << >> /\ faults = 0
  => Owned(c, n) = {}

(* release(): "ignore errors, as the lock will automatically expire after  *)
(* its TTL": once withLock() has released its lock, nothing renews a key.  *)
ExpiresAfterRelease == [][\A c \in Calls, n \in Nodes, r \in Resources :
  handler[c] = "over" /\ phase[c] \in {"released", "unreleased"} /\ val[n][r] = c
    => ttl'[n][r] <= ttl[n][r]]_<<vars, withLockVars>>
=============================================================================
