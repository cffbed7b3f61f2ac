----------------------------- MODULE PgLockProofs -----------------------------
(***************************************************************************)
(* Theorems of PgLock: types, exclusion of handlers, and what an idle      *)
(* session may hold.                                                       *)
(***************************************************************************)
EXTENDS PgLock, FiniteSetTheorems, TLAPS

(* The calls that have a client. *)
Using(c) == phase[c] \in {"locking", "running", "releasing", "leaked"}

(* A client is neither idle nor used by two calls. *)
ClientsExclusive ==
  /\ \A c \in Calls : Using(c) => conn[c] \in Conns \ pool
  /\ \A c, d \in Calls : c # d /\ Using(c) /\ Using(d) => conn[c] # conn[d]

(* Only a release sends unlock queries. *)
UnlocksOfRelease == \A s \in Conns :
  unlocking[s] # << >> => \E c \in Calls : phase[c] = "releasing" /\ conn[c] = s

(* PostgreSQL gives a lock to one session at a time. *)
SessionsExclusive == \A s, t \in Conns, r \in Resources :
  s # t /\ locks[s][r] > 0 => locks[t][r] = 0

(* What acquire() has come to is locked until its session ends. *)
AcquiredSoFar ==
  /\ \A c \in Calls : phase[c] \in {"idle", "connecting"} => next[c] = 1
  /\ \A c \in Calls : phase[c] = "running" => next[c] \notin DOMAIN Keys[c]
  /\ \A c \in Calls : phase[c] \in {"locking", "running"} /\ conn[c] \notin broken =>
       \A i \in DOMAIN Keys[c] : i < next[c] => locks[conn[c]][Keys[c][i]] > 0

PgInv == TypeOK /\ ClientsExclusive /\ UnlocksOfRelease /\ SessionsExclusive /\ AcquiredSoFar

LEMMA KeyType ==
  /\ \A c \in Calls : Keys[c] \in Seq(Resources)
  /\ \A c \in Calls : \A i \in DOMAIN Keys[c] : Keys[c][i] \in Resources /\ i \in Nat
BY PgAssumption

LEMMA InitInv == Init => PgInv
BY PgAssumption DEF Init, PgInv, TypeOK, ClientsExclusive, Using, UnlocksOfRelease,
                    SessionsExclusive, AcquiredSoFar

(* The pool and the calls that wait for it. *)
LEMMA PoolStep ==
  ASSUME PgInv, NEW c \in Calls, Connect(c) \/ ConnectFails(c) \/ \E s \in Conns : Connected(c, s)
  PROVE  PgInv'
<1> USE DEF PgInv, TypeOK
<1>1. CASE Connect(c)
  <2>1. waiting' \in Seq(Calls)
    BY <1>1 DEF Connect
  <2>2. \A d \in Calls : Using(d)' <=> Using(d)
    BY <1>1 DEF Connect, Using
  <2>3. \A d \in Calls : phase'[d] = phase[d] \/ (d = c /\ phase[d] = "idle" /\ phase'[d] = "connecting")
    BY <1>1 DEF Connect
  <2>4. UNCHANGED <<locks, broken, pool, conn, next, unlocking, err, faults>>
    BY <1>1 DEF Connect, serverVars
  <2>5. TypeOK'
    BY <1>1, <2>1, <2>4 DEF Connect
  <2>7. ClientsExclusive'
    BY <2>2, <2>4 DEF ClientsExclusive
  <2>8. UnlocksOfRelease'
    <3>1. \A d \in Calls : phase[d] = "releasing" => phase'[d] = "releasing"
      BY <2>3
    <3> QED BY <2>4, <3>1 DEF UnlocksOfRelease
  <2>9. SessionsExclusive'
    BY <2>4 DEF SessionsExclusive
  <2>10. AcquiredSoFar'
    BY <2>3, <2>4 DEF AcquiredSoFar
  <2> QED BY <2>5, <2>7, <2>8, <2>9, <2>10
<1>2. CASE ConnectFails(c)
  <2>1. waiting' \in Seq(Calls)
    BY <1>2 DEF ConnectFails
  <2>2. \A d \in Calls : Using(d)' <=> Using(d)
    BY <1>2 DEF ConnectFails, Using
  <2>3. \A d \in Calls : phase'[d] = phase[d]
                         \/ (d = c /\ phase[d] = "connecting" /\ phase'[d] = "failed")
    BY <1>2 DEF ConnectFails
  <2>4. UNCHANGED <<locks, broken, pool, conn, next, unlocking>>
    BY <1>2 DEF ConnectFails, serverVars
  <2>5. /\ phase' = [phase EXCEPT ![c] = "failed"] /\ err' = [err EXCEPT ![c] = "connect"]
        /\ faults' = faults + 1
    BY <1>2 DEF ConnectFails
  <2>6. TypeOK'
    BY <2>1, <2>4, <2>5
  <2>7. ClientsExclusive'
    BY <2>2, <2>4 DEF ClientsExclusive
  <2>8. UnlocksOfRelease'
    <3>1. \A d \in Calls : phase[d] = "releasing" => phase'[d] = "releasing"
      BY <2>3
    <3> QED BY <2>4, <3>1 DEF UnlocksOfRelease
  <2>9. SessionsExclusive'
    BY <2>4 DEF SessionsExclusive
  <2>10. AcquiredSoFar'
    BY <2>3, <2>4 DEF AcquiredSoFar
  <2> QED BY <2>6, <2>7, <2>8, <2>9, <2>10
<1>3. ASSUME NEW s \in Conns, Connected(c, s)
      PROVE  PgInv'
  <2>1. /\ waiting' \in Seq(Calls) /\ pool' = pool \ {s} /\ s \in pool
        /\ conn' = [conn EXCEPT ![c] = s]
        /\ phase[c] = "connecting" /\ phase' = [phase EXCEPT ![c] = "locking"]
        /\ UNCHANGED <<locks, broken, next, unlocking, err, faults>>
    BY <1>3 DEF Connected, serverVars
  <2>2. TypeOK'
    BY <2>1
  <2>3. ClientsExclusive'
    BY <2>1 DEF ClientsExclusive, Using
  <2>4. UnlocksOfRelease'
    <3> SUFFICES ASSUME NEW t \in Conns, unlocking[t] # << >>
                 PROVE  \E d \in Calls : phase'[d] = "releasing" /\ conn'[d] = t
      BY <2>1 DEF UnlocksOfRelease
    <3>1. PICK d \in Calls : phase[d] = "releasing" /\ conn[d] = t
      BY DEF UnlocksOfRelease
    <3>2. d # c
      BY <2>1, <3>1
    <3> QED BY <2>1, <3>1, <3>2
  <2>5. SessionsExclusive'
    BY <2>1 DEF SessionsExclusive
  <2>6. next[c] = 1
    BY <2>1 DEF AcquiredSoFar
  <2>7. \A d \in Calls \ {c} : phase'[d] = phase[d] /\ conn'[d] = conn[d]
    BY <2>1
  <2>8. AcquiredSoFar'
    BY <2>1, <2>6, <2>7, KeyType DEF AcquiredSoFar
  <2> QED BY <2>2, <2>3, <2>4, <2>5, <2>8
<1> QED BY <1>1, <1>2, <1>3

LEMMA TryLockStep == ASSUME PgInv, NEW c \in Calls, TryLock(c) PROVE PgInv'
<1> USE DEF PgInv, TypeOK
<1> DEFINE s == conn[c]
           r == Keys[c][next[c]]
<1>1. /\ phase[c] = "locking" /\ next[c] \in DOMAIN Keys[c] /\ s \notin broken
      /\ \A t \in Conns \ {s} : locks[t][r] = 0
      /\ locks' = [locks EXCEPT ![s][r] = @ + 1]
      /\ next' = [next EXCEPT ![c] = @ + 1]
      /\ UNCHANGED <<broken, pool, waiting, conn, phase, unlocking, err, faults>>
  BY DEF TryLock, Free, poolVars
<1>2. s \in Conns /\ r \in Resources /\ next[c] \in Nat
  BY <1>1, KeyType DEF ClientsExclusive, Using
<1> HIDE DEF s, r
<1>3. locks' \in [Conns -> [Resources -> Nat]]
  BY <1>1, <1>2
<1>4. TypeOK'
  BY <1>1, <1>2, <1>3
<1>5. ClientsExclusive' /\ UnlocksOfRelease'
  BY <1>1 DEF ClientsExclusive, UnlocksOfRelease, Using
<1>6. \A t \in Conns, q \in Resources :
        locks'[t][q] = IF t = s /\ q = r THEN locks[t][q] + 1 ELSE locks[t][q]
  BY <1>1, <1>2
<1>7. SessionsExclusive'
  <2> SUFFICES ASSUME NEW t \in Conns, NEW u \in Conns, NEW q \in Resources, t # u, locks'[t][q] > 0
               PROVE  locks'[u][q] = 0
    BY DEF SessionsExclusive
  <2>1. CASE q # r
    BY <1>6, <2>1 DEF SessionsExclusive
  <2>2. CASE q = r
    <3>1. t = s
      BY <1>1, <1>6, <2>2
    <3> QED BY <1>1, <1>6, <2>2, <3>1
  <2> QED BY <2>1, <2>2
<1>8. AcquiredSoFar'
  <2>1. \A d \in Calls : phase'[d] \in {"idle", "connecting"} => next'[d] = 1
    BY <1>1 DEF AcquiredSoFar
  <2>2. \A d \in Calls : phase'[d] = "running" => next'[d] \notin DOMAIN Keys[d]
    BY <1>1 DEF AcquiredSoFar
  <2>3. ASSUME NEW d \in Calls, phase'[d] \in {"locking", "running"}, conn'[d] \notin broken',
               NEW i \in DOMAIN Keys[d], i < next'[d]
        PROVE  locks'[conn'[d]][Keys[d][i]] > 0
    <3>1. Keys[d][i] \in Resources /\ i \in Nat /\ conn[d] \in Conns
      BY <1>1, <2>3, KeyType DEF ClientsExclusive, Using
    <3>2. locks[conn[d]][Keys[d][i]] \in Nat
      BY <3>1
    <3>3. CASE d = c /\ i = next[c]
      BY <1>1, <1>2, <1>6, <3>1, <3>2, <3>3 DEF s, r
    <3>4. CASE ~(d = c /\ i = next[c])
      <4>1. i < next[d]
        BY <1>1, <1>2, <2>3, <3>1, <3>4
      <4>2. locks[conn[d]][Keys[d][i]] > 0
        BY <1>1, <2>3, <4>1 DEF AcquiredSoFar
      <4> QED BY <1>1, <1>6, <3>1, <3>2, <4>2
    <3> QED BY <3>3, <3>4
  <2> QED BY <2>1, <2>2, <2>3 DEF AcquiredSoFar
<1> QED BY <1>4, <1>5, <1>7, <1>8

(* acquire() fails or withLock() ends: the client is given back. *)
LEMMA GiveBackStep ==
  ASSUME PgInv, NEW c \in Calls, Using(c), GiveBack(c),
         NEW p \in {"done", "failed"}, phase' = [phase EXCEPT ![c] = p],
         unlocking[conn[c]] = << >>,
         UNCHANGED <<locks, next, unlocking>>,
         err' \in [Calls -> {"none", "connect", "locked", "error"}], faults' \in Nat
  PROVE  PgInv'
<1> USE DEF PgInv, TypeOK
<1>1. conn[c] \in Conns
  BY DEF ClientsExclusive
<1>2. TypeOK'
  BY <1>1 DEF GiveBack
<1>3. ClientsExclusive'
  BY <1>1 DEF ClientsExclusive, Using, GiveBack
<1>4. UnlocksOfRelease'
  <2> SUFFICES ASSUME NEW t \in Conns, unlocking[t] # << >>
               PROVE  \E d \in Calls : phase'[d] = "releasing" /\ conn'[d] = t
    BY DEF UnlocksOfRelease
  <2>1. PICK d \in Calls : phase[d] = "releasing" /\ conn[d] = t
    BY DEF UnlocksOfRelease
  <2>2. d # c
    BY <2>1
  <2> QED BY <2>1, <2>2 DEF GiveBack
<1>5. SessionsExclusive'
  BY DEF SessionsExclusive
<1>6. AcquiredSoFar'
  <2>1. \A d \in Calls \ {c} : phase'[d] = phase[d] /\ conn'[d] = conn[d]
    BY DEF GiveBack
  <2>2. \A d \in Calls \ {c} : Using(d) => (conn[d] \in broken' <=> conn[d] \in broken)
    BY DEF GiveBack, ClientsExclusive
  <2> QED BY <2>1, <2>2 DEF AcquiredSoFar, Using
<1> QED BY <1>2, <1>3, <1>4, <1>5, <1>6

LEMMA AcquireFailsStep ==
  ASSUME PgInv, NEW c \in Calls, Locked(c) \/ LockQueryFails(c)
  PROVE  PgInv'
<1>1. PICK why \in {"locked", "error"} : AcquireFails(c, why)
  BY DEF Locked, LockQueryFails
<1>2. phase[c] = "locking" /\ faults' \in Nat
  BY PgAssumption DEF Locked, LockQueryFails, PgInv, TypeOK
<1>3. unlocking[conn[c]] = << >>
  BY <1>2 DEF PgInv, UnlocksOfRelease, ClientsExclusive, Using
<1>4. err' \in [Calls -> {"none", "connect", "locked", "error"}]
  BY <1>1 DEF AcquireFails, PgInv, TypeOK
<1> QED BY <1>1, <1>2, <1>3, <1>4, GiveBackStep DEF AcquireFails, Using

LEMMA ReturnedStep == ASSUME PgInv, NEW c \in Calls, Returned(c) PROVE PgInv'
<1>1. /\ phase[c] = "releasing" /\ unlocking[conn[c]] = << >> /\ GiveBack(c)
      /\ phase' = [phase EXCEPT ![c] = "done"] /\ UNCHANGED <<locks, next, unlocking, err, faults>>
  BY DEF Returned
<1>2. err' \in [Calls -> {"none", "connect", "locked", "error"}] /\ faults' \in Nat
  BY <1>1 DEF PgInv, TypeOK
<1> QED BY <1>1, <1>2, GiveBackStep DEF Using

LEMMA HandlerStep ==
  ASSUME PgInv, NEW c \in Calls, Acquired(c) \/ HandlerEnds(c)
  PROVE  PgInv'
<1> USE DEF PgInv, TypeOK
<1>1. UNCHANGED <<locks, broken, pool, waiting, conn, next, err, faults>>
  BY DEF Acquired, HandlerEnds, serverVars, poolVars
<1>2. PICK p \in {"running", "releasing", "leaked"} :
        /\ phase' = [phase EXCEPT ![c] = p]
        /\ p = "running" => phase[c] = "locking" /\ next[c] \notin DOMAIN Keys[c]
        /\ \/ UNCHANGED unlocking
           \/ p = "releasing" /\ unlocking' = [unlocking EXCEPT ![conn[c]] = Keys[c]]
  BY DEF Acquired, HandlerEnds
<1>3. phase[c] \in {"locking", "running"}
  BY DEF Acquired, HandlerEnds
<1>4. \A d \in Calls : (Using(d)' <=> Using(d)) /\ (d # c => phase'[d] = phase[d])
  BY <1>2, <1>3 DEF Using
<1>5. conn[c] \in Conns
  BY <1>3 DEF ClientsExclusive, Using
<1>6. TypeOK'
  BY <1>1, <1>2, <1>5, KeyType
<1>7. ClientsExclusive'
  BY <1>1, <1>4 DEF ClientsExclusive
<1>8. UnlocksOfRelease'
  <2> SUFFICES ASSUME NEW t \in Conns, unlocking'[t] # << >>
               PROVE  \E d \in Calls : phase'[d] = "releasing" /\ conn'[d] = t
    BY DEF UnlocksOfRelease
  <2>1. CASE unlocking[t] # << >>
    <3>1. PICK d \in Calls : phase[d] = "releasing" /\ conn[d] = t
      BY <2>1 DEF UnlocksOfRelease
    <3> QED BY <1>1, <1>3, <1>4, <3>1
  <2>2. CASE unlocking[t] = << >>
    <3>1. t = conn[c] /\ phase'[c] = "releasing"
      BY <1>2, <2>2
    <3> QED BY <1>1, <3>1
  <2> QED BY <2>1, <2>2
<1>9. SessionsExclusive'
  BY <1>1 DEF SessionsExclusive
<1>10. AcquiredSoFar'
  BY <1>1, <1>2, <1>3, <1>4 DEF AcquiredSoFar
<1> QED BY <1>6, <1>7, <1>8, <1>9, <1>10

(* An unlock query runs on the client of a release, and takes no lock from *)
(* another session.                                                        *)
LEMMA UnlockStep == ASSUME PgInv, NEW s \in Conns, Unlock(s) PROVE PgInv'
<1> USE DEF PgInv, TypeOK
<1> DEFINE r == Head(unlocking[s])
<1>1. /\ unlocking[s] # << >> /\ unlocking' = [unlocking EXCEPT ![s] = Tail(@)]
      /\ \/ UNCHANGED locks
         \/ locks' = [locks EXCEPT ![s][r] = IF @ > 0 THEN @ - 1 ELSE 0]
      /\ UNCHANGED <<broken, pool, waiting, conn, phase, next, err>>
  BY DEF Unlock, poolVars
<1>2. r \in Resources /\ Tail(unlocking[s]) \in Seq(Resources)
  BY <1>1
<1> HIDE DEF r
<1>3. faults' \in Nat
  BY PgAssumption DEF Unlock
<1>4. /\ locks' \in [Conns -> [Resources -> Nat]]
      /\ \A t \in Conns, q \in Resources :
           /\ t # s => locks'[t][q] = locks[t][q]
           /\ locks'[t][q] > 0 => locks[t][q] > 0
           /\ locks[t][q] = 0 => locks'[t][q] = 0
  <2>1. CASE UNCHANGED locks
    BY <2>1
  <2>2. CASE locks' = [locks EXCEPT ![s][r] = IF @ > 0 THEN @ - 1 ELSE 0]
    <3>1. locks' \in [Conns -> [Resources -> Nat]]
      BY <1>2, <2>2
    <3>2. \A t \in Conns, q \in Resources : locks'[t][q] =
            IF t = s /\ q = r THEN (IF locks[s][r] > 0 THEN locks[s][r] - 1 ELSE 0) ELSE locks[t][q]
      BY <1>2, <2>2
    <3> QED BY <3>1, <3>2
  <2> QED BY <1>1, <2>1, <2>2
<1>5. TypeOK'
  BY <1>1, <1>2, <1>3, <1>4
<1>6. ClientsExclusive'
  BY <1>1 DEF ClientsExclusive, Using
<1>7. UnlocksOfRelease'
  BY <1>1 DEF UnlocksOfRelease
<1>8. SessionsExclusive'
  BY <1>4 DEF SessionsExclusive
<1>9. AcquiredSoFar'
  <2>1. PICK d \in Calls : phase[d] = "releasing" /\ conn[d] = s
    BY <1>1 DEF UnlocksOfRelease
  <2>2. \A c \in Calls : phase[c] \in {"locking", "running"} => conn[c] \in Conns /\ conn[c] # s
    BY <2>1 DEF ClientsExclusive, Using
  <2>3. ASSUME NEW c \in Calls, phase[c] \in {"locking", "running"}, conn[c] \notin broken,
               NEW i \in DOMAIN Keys[c], i < next[c]
        PROVE  locks'[conn[c]][Keys[c][i]] > 0
    <3>1. locks[conn[c]][Keys[c][i]] > 0
      BY <2>3 DEF AcquiredSoFar
    <3>2. Keys[c][i] \in Resources /\ conn[c] \in Conns /\ conn[c] # s
      BY <2>2, <2>3, KeyType
    <3> QED BY <1>4, <3>1, <3>2
  <2> QED BY <1>1, <2>3 DEF AcquiredSoFar
<1> QED BY <1>5, <1>6, <1>7, <1>8, <1>9

LEMMA DropStep == ASSUME PgInv, NEW s \in Conns, Drop(s) PROVE PgInv'
<1> USE DEF PgInv, TypeOK
<1>1. /\ broken' = broken \union {s}
      /\ locks' = [locks EXCEPT ![s] = [r \in Resources |-> 0]]
      /\ UNCHANGED <<pool, waiting, conn, phase, next, unlocking, err>>
  BY DEF Drop, poolVars
<1>2. TypeOK'
  BY <1>1, PgAssumption DEF Drop
<1>3. ClientsExclusive' /\ UnlocksOfRelease'
  BY <1>1 DEF ClientsExclusive, UnlocksOfRelease, Using
<1>4. SessionsExclusive'
  BY <1>1 DEF SessionsExclusive
<1>5. AcquiredSoFar'
  <2>1. \A t \in Conns : t # s => locks'[t] = locks[t]
    BY <1>1
  <2>2. \A c \in Calls : phase[c] \in {"locking", "running"} => conn[c] \in Conns
    BY DEF ClientsExclusive, Using
  <2> QED BY <1>1, <2>1, <2>2 DEF AcquiredSoFar
<1> QED BY <1>2, <1>3, <1>4, <1>5

LEMMA PgInductive == PgInv /\ [Next]_vars => PgInv'
<1> SUFFICES ASSUME PgInv, [Next]_vars PROVE PgInv'
  OBVIOUS
<1>1. CASE UNCHANGED vars
  BY <1>1 DEF vars, serverVars, poolVars, PgInv, TypeOK, ClientsExclusive, UnlocksOfRelease,
              SessionsExclusive, AcquiredSoFar, Using
<1> QED
  BY <1>1, PoolStep, TryLockStep, AcquireFailsStep, HandlerStep, ReturnedStep, UnlockStep, DropStep
     DEF Next, Finished

LEMMA PgInvCorrect == Spec => []PgInv
BY InitInv, PgInductive, PTL DEF Spec

(* Types of the variables. *)
THEOREM PgTypeCorrect == Spec => []TypeOK
<1>1. PgInv => TypeOK
  BY DEF PgInv
<1> QED BY <1>1, PgInvCorrect, PTL

(* Handlers with a common key exclude each other while their connections   *)
(* live, for any number of calls and connections and any lists of keys,    *)
(* repeated keys and sessions with forgotten locks included.               *)
THEOREM PgExclusionHolds == Spec => []PgExclusion
<1>1. ASSUME PgInv PROVE PgExclusion
  <2> SUFFICES ASSUME NEW c \in Calls, NEW d \in Calls, c # d, KeySet(c) \intersect KeySet(d) # {},
                      phase[c] = "running", phase[d] = "running",
                      conn[c] \notin broken, conn[d] \notin broken
               PROVE  FALSE
    BY DEF PgExclusion
  <2>1. PICK i \in DOMAIN Keys[c], j \in DOMAIN Keys[d] : Keys[c][i] = Keys[d][j]
    BY DEF KeySet
  <2>2. conn[c] \in Conns /\ conn[d] \in Conns /\ conn[c] # conn[d]
    BY <1>1 DEF PgInv, ClientsExclusive, Using
  <2>3. i < next[c] /\ j < next[d]
    <3>1. \A e \in Calls : phase[e] = "running" =>
            next[e] \in Nat \ {0} /\ next[e] \notin DOMAIN Keys[e] /\ Keys[e] \in Seq(Resources)
      BY <1>1, KeyType DEF PgInv, TypeOK, AcquiredSoFar
    <3>2. next[c] > Len(Keys[c]) /\ next[d] > Len(Keys[d])
      BY <3>1
    <3> QED BY <3>1, <3>2
  <2>4. locks[conn[c]][Keys[c][i]] > 0 /\ locks[conn[d]][Keys[d][j]] > 0
    BY <1>1, <2>3 DEF PgInv, AcquiredSoFar
  <2>5. Keys[c][i] \in Resources
    BY KeyType
  <2>6. locks[conn[d]][Keys[c][i]] = 0
    BY <1>1, <2>2, <2>4, <2>5 DEF PgInv, SessionsExclusive
  <2> QED BY <2>1, <2>4, <2>6
<1> QED BY <1>1, PgInvCorrect, PTL

-----------------------------------------------------------------------------
(* A session is given back without a lock, unless something failed.  Keys  *)
(* may repeat, so the locks of a session are counted against the positions *)
(* of the key in its call's list: those acquire() has passed, or those     *)
(* whose unlock query has not been answered.                               *)

(* The position that the answered unlock queries have come to. *)
Unlocked(c) == Len(Keys[c]) - Len(unlocking[conn[c]])

Positions(c, r) == {i \in DOMAIN Keys[c] :
  Keys[c][i] = r /\ IF phase[c] = "releasing" THEN i > Unlocked(c) ELSE i < next[c]}

UnlocksRest(c) == phase[c] = "releasing" =>
  /\ Len(unlocking[conn[c]]) <= Len(Keys[c])
  /\ \A j \in DOMAIN unlocking[conn[c]] : unlocking[conn[c]][j] = Keys[c][Unlocked(c) + j]

UnlocksOfKeys == \A c \in Calls : UnlocksRest(c)

CallBalanced(c, r) == phase[c] \in {"locking", "running", "releasing"} =>
  locks[conn[c]][r] <= Cardinality(Positions(c, r))

NobodyFailed(r) == \A c \in Calls : phase[c] = "failed" => r \notin KeySet(c)

Balanced == faults = 0 =>
  /\ broken = {}
  /\ \A r \in Resources : NobodyFailed(r) =>
       /\ \A s \in pool : locks[s][r] = 0
       /\ \A c \in Calls : CallBalanced(c, r)

LeakInv == PgInv /\ UnlocksOfKeys /\ Balanced

LEMMA PositionsFinite ==
  ASSUME NEW c \in Calls, NEW r
  PROVE  /\ IsFiniteSet(Positions(c, r)) /\ Cardinality(Positions(c, r)) \in Nat
         /\ IsFiniteSet(Positions(c, r)') /\ Cardinality(Positions(c, r)') \in Nat
<1>1. Keys[c] \in Seq(Resources)
  BY KeyType
<1>2. IsFiniteSet(DOMAIN Keys[c])
  BY <1>1, FS_Interval
<1>3. Positions(c, r) \in SUBSET DOMAIN Keys[c] /\ Positions(c, r)' \in SUBSET DOMAIN Keys[c]
  BY DEF Positions
<1> QED
  BY <1>2, <1>3, FS_Subset, FS_CardinalityType

(* A call whose session and queries a step does not touch. *)
LEMMA UnlocksKept ==
  ASSUME NEW c \in Calls, UnlocksRest(c), phase'[c] = phase[c], conn'[c] = conn[c],
         phase[c] = "releasing" => unlocking'[conn[c]] = unlocking[conn[c]]
  PROVE  UnlocksRest(c)'
BY DEF UnlocksRest, Unlocked

LEMMA BalanceKept ==
  ASSUME NEW c \in Calls, NEW r, CallBalanced(c, r),
         phase'[c] = phase[c], conn'[c] = conn[c], next'[c] = next[c],
         phase[c] \in {"locking", "running", "releasing"} =>
           unlocking'[conn[c]] = unlocking[conn[c]] /\ locks'[conn[c]][r] = locks[conn[c]][r]
  PROVE  CallBalanced(c, r)'
<1>1. phase[c] \in {"locking", "running", "releasing"} => Positions(c, r)' = Positions(c, r)
  BY DEF Positions, Unlocked
<1> QED
  BY <1>1 DEF CallBalanced

LEMMA PoolLeak ==
  ASSUME LeakInv, PgInv', NEW c \in Calls, Connect(c) \/ ConnectFails(c) \/ \E s \in Conns : Connected(c, s)
  PROVE  UnlocksOfKeys' /\ Balanced'
<1> USE DEF LeakInv, PgInv, TypeOK
<1>1. UNCHANGED <<locks, broken, next, unlocking>>
  BY DEF Connect, ConnectFails, Connected, serverVars
<1>2. \A d \in Calls : phase'[d] \in {"running", "releasing", "leaked"} => phase'[d] = phase[d] /\ conn'[d] = conn[d]
  BY DEF Connect, ConnectFails, Connected, poolVars
<1>3. UnlocksOfKeys'
  <2>1. ASSUME NEW d \in Calls, phase'[d] = "releasing"
        PROVE  UnlocksRest(d)'
    BY <1>1, <1>2, <2>1, UnlocksKept DEF UnlocksOfKeys
  <2> QED
    BY <2>1 DEF UnlocksOfKeys, UnlocksRest
<1>4. Balanced'
  <2> SUFFICES ASSUME faults' = 0 PROVE Balanced'
    BY DEF Balanced
  <2>1. faults = 0 /\ ~ConnectFails(c)
    BY DEF Connect, ConnectFails, Connected
  <2>2. pool' \subseteq pool /\ \A d \in Calls : phase[d] = "failed" => phase'[d] = "failed"
    BY <2>1 DEF Connect, Connected
  <2> SUFFICES ASSUME NEW r \in Resources, NobodyFailed(r)' PROVE \A d \in Calls : CallBalanced(d, r)'
    BY <1>1, <2>1, <2>2 DEF Balanced, NobodyFailed
  <2>3. (\A s \in pool : locks[s][r] = 0) /\ \A d \in Calls : CallBalanced(d, r)
    BY <2>1, <2>2 DEF Balanced, NobodyFailed
  <2>4. CASE Connect(c)
    <3>1. \A d \in Calls : phase'[d] \in {"locking", "running", "releasing"} => phase'[d] = phase[d] /\ conn'[d] = conn[d]
      BY <2>4 DEF Connect
    <3>2. \A d \in Calls : phase'[d] \in {"locking", "running", "releasing"} => Positions(d, r)' = Positions(d, r)
      BY <1>1, <3>1 DEF Positions, Unlocked
    <3> QED BY <1>1, <2>3, <3>1, <3>2 DEF CallBalanced
  <2>5. ASSUME NEW s \in Conns, Connected(c, s)
        PROVE  \A d \in Calls : CallBalanced(d, r)'
    <3>1. s \in pool /\ conn'[c] = s /\ \A d \in Calls \ {c} : phase'[d] = phase[d] /\ conn'[d] = conn[d]
      BY <2>5 DEF Connected
    <3>2. locks[s][r] = 0 /\ Cardinality(Positions(c, r)') \in Nat
      BY <2>3, <3>1, PositionsFinite
    <3>3. CallBalanced(c, r)'
      BY <1>1, <3>1, <3>2 DEF CallBalanced
    <3>4. \A d \in Calls \ {c} : CallBalanced(d, r)'
      BY <1>1, <2>3, <3>1, BalanceKept
    <3> QED BY <3>3, <3>4
  <2> QED BY <2>1, <2>4, <2>5
<1> QED
  BY <1>3, <1>4

LEMMA TryLockLeak ==
  ASSUME LeakInv, NEW c \in Calls, TryLock(c)
  PROVE  UnlocksOfKeys' /\ Balanced'
<1> USE DEF LeakInv, PgInv, TypeOK
<1> DEFINE s == conn[c]
           r == Keys[c][next[c]]
<1>1. /\ phase[c] = "locking" /\ next[c] \in DOMAIN Keys[c]
      /\ locks' = [locks EXCEPT ![s][r] = @ + 1]
      /\ next' = [next EXCEPT ![c] = @ + 1]
      /\ UNCHANGED <<broken, pool, conn, phase, unlocking, faults>>
  BY DEF TryLock, poolVars
<1>2. s \in Conns \ pool /\ r \in Resources /\ next[c] \in Nat
      /\ \A d \in Calls \ {c} : phase[d] \in {"locking", "running", "releasing"} => conn[d] \in Conns /\ conn[d] # s
  BY <1>1, KeyType DEF ClientsExclusive, Using
<1>3. UnlocksOfKeys'
  BY <1>1, UnlocksKept DEF UnlocksOfKeys
<1>4. ASSUME NEW q \in Resources, CallBalanced(c, q)
      PROVE  CallBalanced(c, q)'
  <2>1. /\ Positions(c, q) \subseteq Positions(c, q)'
        /\ q = r => next[c] \in Positions(c, q)' /\ next[c] \notin Positions(c, q)
    BY <1>1, <1>2, KeyType DEF Positions
  <2>2. Cardinality(Positions(c, q)) <= Cardinality(Positions(c, q)')
    BY <2>1, PositionsFinite, FS_Subset
  <2>3. q = r => Cardinality(Positions(c, q)) + 1 <= Cardinality(Positions(c, q)')
    <3> SUFFICES ASSUME q = r PROVE Cardinality(Positions(c, q)) + 1 <= Cardinality(Positions(c, q)')
      OBVIOUS
    <3>1. Positions(c, q) \union {next[c]} \in SUBSET Positions(c, q)'
      BY <2>1
    <3>2. Cardinality(Positions(c, q) \union {next[c]}) = Cardinality(Positions(c, q)) + 1
      BY <2>1, PositionsFinite, FS_AddElement
    <3> QED BY <3>1, <3>2, PositionsFinite, FS_Subset
  <2>4. locks'[s][q] = IF q = r THEN locks[s][q] + 1 ELSE locks[s][q]
    BY <1>1, <1>2
  <2>5. locks[s][q] \in Nat /\ locks[s][q] <= Cardinality(Positions(c, q))
    BY <1>1, <1>2, <1>4 DEF CallBalanced
  <2>6. locks'[s][q] <= Cardinality(Positions(c, q)')
    BY <2>2, <2>3, <2>4, <2>5, PositionsFinite
  <2> QED BY <1>1, <2>6 DEF CallBalanced
<1>5. \A q \in Resources, d \in Calls \ {c} : CallBalanced(d, q) => CallBalanced(d, q)'
  BY <1>1, <1>2, BalanceKept
<1>6. \A t \in pool : locks'[t] = locks[t]
  BY <1>1, <1>2
<1>7. Balanced'
  <2> SUFFICES ASSUME faults' = 0 PROVE Balanced'
    BY DEF Balanced
  <2>1. \A q \in Resources : NobodyFailed(q)' => NobodyFailed(q)
    BY <1>1 DEF NobodyFailed
  <2>2. \A q \in Resources : (\A d \in Calls : CallBalanced(d, q)) => \A d \in Calls : CallBalanced(d, q)'
    BY <1>4, <1>5
  <2>3. faults = 0 /\ broken' = broken /\ pool' = pool
    BY <1>1
  <2> QED BY <1>6, <2>1, <2>2, <2>3 DEF Balanced
<1> QED
  BY <1>3, <1>7

(* The client of a call goes back to the pool with as many locks as the    *)
(* call has positions left.                                                *)
LEMMA GiveBackLeak ==
  ASSUME LeakInv, NEW c \in Calls, Using(c), GiveBack(c),
         NEW p \in {"done", "failed"}, phase' = [phase EXCEPT ![c] = p],
         UNCHANGED <<locks, next, unlocking>>,
         faults' = 0 => /\ faults = 0
                        /\ \A r \in Resources : NobodyFailed(r)' => locks[conn[c]][r] = 0
  PROVE  UnlocksOfKeys' /\ Balanced'
<1> USE DEF LeakInv, PgInv, TypeOK
<1>1. /\ pool' = pool \union {conn[c]} /\ broken' = broken \ {conn[c]}
      /\ phase'[c] = p /\ \A d \in Calls \ {c} : phase'[d] = phase[d] /\ conn'[d] = conn[d]
  BY DEF GiveBack
<1>2. UnlocksOfKeys'
  <2>1. UnlocksRest(c)'
    BY <1>1 DEF UnlocksRest
  <2>2. \A d \in Calls \ {c} : UnlocksRest(d)'
    BY <1>1, UnlocksKept DEF UnlocksOfKeys
  <2> QED BY <2>1, <2>2 DEF UnlocksOfKeys
<1>3. Balanced'
  <2> SUFFICES ASSUME faults' = 0 PROVE Balanced'
    BY DEF Balanced
  <2>1. \A r \in Resources : NobodyFailed(r)' => NobodyFailed(r)
    BY <1>1 DEF NobodyFailed, Using
  <2>2. \A r \in Resources : CallBalanced(c, r)'
    BY <1>1 DEF CallBalanced
  <2>3. \A d \in Calls \ {c}, r \in Resources : CallBalanced(d, r) => CallBalanced(d, r)'
    BY <1>1, BalanceKept
  <2> QED BY <1>1, <2>1, <2>2, <2>3 DEF Balanced
<1> QED
  BY <1>2, <1>3

LEMMA AcquireFailsLeak ==
  ASSUME LeakInv, NEW c \in Calls, Locked(c) \/ LockQueryFails(c)
  PROVE  UnlocksOfKeys' /\ Balanced'
<1> USE DEF LeakInv, PgInv, TypeOK
<1>1. /\ Using(c) /\ phase[c] = "locking" /\ GiveBack(c) /\ phase' = [phase EXCEPT ![c] = "failed"]
      /\ UNCHANGED <<locks, next, unlocking>>
  BY DEF Locked, LockQueryFails, AcquireFails, Using
<1>2. ASSUME faults' = 0
      PROVE  faults = 0 /\ Locked(c)
  BY <1>2 DEF Locked, LockQueryFails, Balanced
<1>3. ASSUME faults = 0, NEW r \in Resources, NobodyFailed(r)'
      PROVE  locks[conn[c]][r] = 0
  <2>1. r \notin KeySet(c) /\ NobodyFailed(r)
    BY <1>1, <1>3 DEF NobodyFailed
  <2>2. Positions(c, r) = {}
    BY <2>1 DEF Positions, KeySet
  <2>3. locks[conn[c]][r] <= 0
    BY <1>1, <1>3, <2>1, <2>2, FS_EmptySet DEF Balanced, CallBalanced
  <2>4. locks[conn[c]][r] \in Nat
    BY <1>1 DEF ClientsExclusive
  <2> QED BY <2>3, <2>4
<1> QED
  BY <1>1, <1>2, <1>3, GiveBackLeak

LEMMA ReturnedLeak ==
  ASSUME LeakInv, NEW c \in Calls, Returned(c)
  PROVE  UnlocksOfKeys' /\ Balanced'
<1> USE DEF LeakInv, PgInv, TypeOK
<1>1. /\ Using(c) /\ phase[c] = "releasing" /\ unlocking[conn[c]] = << >> /\ GiveBack(c)
      /\ phase' = [phase EXCEPT ![c] = "done"] /\ UNCHANGED <<locks, next, unlocking, faults>>
  BY DEF Returned, Using
<1>2. ASSUME faults = 0, NEW r \in Resources, NobodyFailed(r)'
      PROVE  locks[conn[c]][r] = 0
  <2>1. NobodyFailed(r)
    BY <1>1, <1>2 DEF NobodyFailed
  <2>2. Positions(c, r) = {}
    <3>1. Unlocked(c) = Len(Keys[c])
      BY <1>1, KeyType DEF Unlocked
    <3> QED BY <1>1, <3>1, KeyType DEF Positions
  <2>3. locks[conn[c]][r] <= 0
    BY <1>1, <1>2, <2>1, <2>2, FS_EmptySet DEF Balanced, CallBalanced
  <2>4. locks[conn[c]][r] \in Nat
    BY <1>1 DEF ClientsExclusive
  <2> QED BY <2>3, <2>4
<1> QED
  BY <1>1, <1>2, GiveBackLeak

(* A handler starts or ends: every position has been passed by then, and   *)
(* each of them gets its unlock query.                                     *)
LEMMA HandlerLeak ==
  ASSUME LeakInv, NEW c \in Calls, Acquired(c) \/ HandlerEnds(c)
  PROVE  UnlocksOfKeys' /\ Balanced'
<1> USE DEF LeakInv, PgInv, TypeOK
<1>1. /\ phase[c] \in {"locking", "running"}
      /\ UNCHANGED <<locks, broken, pool, conn, next, faults>>
      /\ \A d \in Calls \ {c} : phase'[d] = phase[d]
  BY DEF Acquired, HandlerEnds, serverVars, poolVars
<1>2. conn[c] \in Conns /\ \A d \in Calls \ {c} : Using(d) => conn[d] # conn[c]
  BY <1>1 DEF ClientsExclusive, Using
<1>3. \/ phase'[c] = "running" /\ phase[c] = "locking" /\ UNCHANGED unlocking
      \/ phase'[c] = "leaked" /\ UNCHANGED unlocking
      \/ /\ phase'[c] = "releasing" /\ phase[c] = "running"
         /\ unlocking' = [unlocking EXCEPT ![conn[c]] = Keys[c]]
  BY DEF Acquired, HandlerEnds
<1>4. \A s \in Conns : s # conn[c] => unlocking'[s] = unlocking[s]
  BY <1>2, <1>3
<1>5. \A d \in Calls \ {c} : Using(d) => unlocking'[conn[d]] = unlocking[conn[d]]
  BY <1>2, <1>4 DEF ClientsExclusive
<1>6. Keys[c] \in Seq(Resources)
  BY KeyType
<1>7. phase'[c] = "releasing" => Unlocked(c)' = 0 /\ unlocking'[conn[c]] = Keys[c]
  BY <1>1, <1>2, <1>3, <1>6 DEF Unlocked
<1>8. UnlocksOfKeys'
  <2>1. UnlocksRest(c)'
    BY <1>1, <1>6, <1>7 DEF UnlocksRest
  <2>2. \A d \in Calls \ {c} : UnlocksRest(d)'
    BY <1>1, <1>5, UnlocksKept DEF UnlocksOfKeys, Using
  <2> QED BY <2>1, <2>2 DEF UnlocksOfKeys
<1>9. ASSUME NEW r \in Resources, CallBalanced(c, r)
      PROVE  CallBalanced(c, r)'
  <2>1. phase'[c] # "leaked" => Positions(c, r) \in SUBSET Positions(c, r)'
    BY <1>1, <1>3, <1>6, <1>7 DEF Positions
  <2>2. phase'[c] # "leaked" => Cardinality(Positions(c, r)) <= Cardinality(Positions(c, r)')
    BY <2>1, PositionsFinite, FS_Subset
  <2>3. locks[conn[c]][r] <= Cardinality(Positions(c, r)) /\ locks[conn[c]][r] \in Nat
    BY <1>1, <1>2, <1>9 DEF CallBalanced
  <2> QED BY <1>1, <1>3, <2>2, <2>3, PositionsFinite DEF CallBalanced
<1>10. \A r \in Resources, d \in Calls \ {c} : CallBalanced(d, r) => CallBalanced(d, r)'
  BY <1>1, <1>5, BalanceKept DEF Using
<1>11. \A r \in Resources : NobodyFailed(r)' => NobodyFailed(r)
  BY <1>1 DEF NobodyFailed
<1>12. Balanced'
  BY <1>1, <1>9, <1>10, <1>11 DEF Balanced
<1> QED
  BY <1>8, <1>12

(* An unlock query is answered: it gives up the first position left, and   *)
(* the lock of that position's key once.                                   *)
LEMMA UnlockLeak ==
  ASSUME LeakInv, NEW s \in Conns, Unlock(s)
  PROVE  UnlocksOfKeys' /\ Balanced'
<1> USE DEF LeakInv, PgInv, TypeOK
<1>1. /\ unlocking[s] # << >> /\ unlocking' = [unlocking EXCEPT ![s] = Tail(@)]
      /\ UNCHANGED <<broken, pool, conn, phase, next>>
  BY DEF Unlock, poolVars
<1>2. PICK c \in Calls : phase[c] = "releasing" /\ conn[c] = s
  BY <1>1 DEF UnlocksOfRelease
<1>3. s \notin pool /\ \A d \in Calls \ {c} : Using(d) => conn[d] \in Conns /\ conn[d] # s
  BY <1>2 DEF ClientsExclusive, Using
<1>4. Keys[c] \in Seq(Resources) /\ unlocking[s] \in Seq(Resources)
  BY KeyType
<1>5. /\ Len(unlocking[s]) \in Nat /\ Len(unlocking[s]) > 0 /\ Len(Tail(unlocking[s])) = Len(unlocking[s]) - 1
      /\ \A j \in DOMAIN Tail(unlocking[s]) : j + 1 \in DOMAIN unlocking[s] /\ Tail(unlocking[s])[j] = unlocking[s][j + 1]
      /\ unlocking'[s] = Tail(unlocking[s]) /\ Head(unlocking[s]) = unlocking[s][1] /\ 1 \in DOMAIN unlocking[s]
      /\ \A j \in DOMAIN unlocking[s] : j \in Int
      /\ \A j \in DOMAIN Tail(unlocking[s]) : j \in Int
  BY <1>1, <1>4
<1>6. Unlocked(c) \in Nat /\ Unlocked(c)' = Unlocked(c) + 1 /\ Unlocked(c) + 1 \in DOMAIN Keys[c]
      /\ Len(unlocking[s]) <= Len(Keys[c]) /\ Len(Keys[c]) \in Nat
  BY <1>1, <1>2, <1>4, <1>5 DEF UnlocksOfKeys, UnlocksRest, Unlocked
<1>7. \A j \in DOMAIN unlocking[s] : unlocking[s][j] = Keys[c][Unlocked(c) + j]
  BY <1>2 DEF UnlocksOfKeys, UnlocksRest
<1>8. Head(unlocking[s]) = Keys[c][Unlocked(c) + 1] /\ Head(unlocking[s]) \in Resources
  BY <1>4, <1>5, <1>7
<1>9. UnlocksOfKeys'
  <2>1. UnlocksRest(c)'
    <3>1. conn'[c] = s /\ Len(unlocking'[s]) <= Len(Keys[c])
      BY <1>1, <1>2, <1>5, <1>6
    <3>2. ASSUME NEW j \in DOMAIN Tail(unlocking[s])
          PROVE  Tail(unlocking[s])[j] = Keys[c][Unlocked(c)' + j]
      <4>1. Tail(unlocking[s])[j] = Keys[c][Unlocked(c) + (j + 1)] /\ j \in Int
        BY <1>5, <1>7
      <4>2. Unlocked(c) + (j + 1) = Unlocked(c)' + j
        BY <1>6, <4>1
      <4> QED BY <4>1, <4>2
    <3> QED BY <1>5, <3>1, <3>2 DEF UnlocksRest
  <2>2. \A d \in Calls \ {c} : UnlocksRest(d)'
    BY <1>1, <1>3, UnlocksKept DEF UnlocksOfKeys, Using
  <2> QED BY <2>1, <2>2 DEF UnlocksOfKeys
<1>10. ASSUME faults' = 0
       PROVE  Balanced'
  <2>1. faults = 0 /\ broken = {}
        /\ locks' = [locks EXCEPT ![s][Head(unlocking[s])] = IF @ > 0 THEN @ - 1 ELSE 0]
    BY <1>10 DEF Unlock, Balanced
  <2>2. locks' \in [Conns -> [Resources -> Nat]]
    BY <1>8, <2>1
  <2>3. \A t \in Conns, q \in Resources : locks'[t][q] =
          IF t = s /\ q = Head(unlocking[s])
          THEN (IF locks[t][q] > 0 THEN locks[t][q] - 1 ELSE 0) ELSE locks[t][q]
    BY <1>8, <2>1
  <2>4. ASSUME NEW q \in Resources, CallBalanced(c, q)
        PROVE  CallBalanced(c, q)'
    <3> DEFINE u == Unlocked(c) + 1
    <3>1. Positions(c, q)' = Positions(c, q) \ {u}
      <4>1. Positions(c, q) = {i \in DOMAIN Keys[c] : Keys[c][i] = q /\ i > Unlocked(c)}
        BY <1>2 DEF Positions
      <4>2. Positions(c, q)' = {i \in DOMAIN Keys[c] : Keys[c][i] = q /\ i > Unlocked(c)'}
        BY <1>1, <1>2 DEF Positions
      <4>3. \A i \in DOMAIN Keys[c] : i > Unlocked(c)' <=> i > Unlocked(c) /\ i # u
        BY <1>4, <1>6
      <4> QED BY <4>1, <4>2, <4>3
    <3>2. u \in Positions(c, q) <=> q = Head(unlocking[s])
      BY <1>2, <1>6, <1>8 DEF Positions
    <3>3. Cardinality(Positions(c, q)') = IF q = Head(unlocking[s]) THEN Cardinality(Positions(c, q)) - 1
                                          ELSE Cardinality(Positions(c, q))
      <4>1. CASE q = Head(unlocking[s])
        <5>1. u \in Positions(c, q) /\ IsFiniteSet(Positions(c, q))
          BY <3>2, <4>1, PositionsFinite
        <5> HIDE DEF u
        <5>2. Cardinality(Positions(c, q) \ {u}) = IF u \in Positions(c, q) THEN Cardinality(Positions(c, q)) - 1
                                                  ELSE Cardinality(Positions(c, q))
          BY <5>1, FS_RemoveElement
        <5> QED BY <3>1, <4>1, <5>1, <5>2
      <4>2. CASE q # Head(unlocking[s])
        <5>1. Positions(c, q) \ {u} = Positions(c, q)
          BY <3>2, <4>2
        <5> QED BY <3>1, <5>1, <4>2
      <4> QED BY <4>1, <4>2
    <3>4. locks[s][q] \in Nat /\ locks[s][q] <= Cardinality(Positions(c, q))
      BY <1>2, <2>4 DEF CallBalanced
    <3>5. locks'[s][q] <= Cardinality(Positions(c, q)')
      <4>1. Cardinality(Positions(c, q)) \in Nat /\ Cardinality(Positions(c, q)') \in Nat
        BY PositionsFinite
      <4> HIDE DEF u
      <4> QED BY <2>3, <3>3, <3>4, <4>1
    <3> QED BY <1>1, <1>2, <3>5 DEF CallBalanced
  <2>5. \A q \in Resources, d \in Calls \ {c} : CallBalanced(d, q) => CallBalanced(d, q)'
    <3>1. \A d \in Calls \ {c} : Using(d) => unlocking'[conn[d]] = unlocking[conn[d]]
                                             /\ \A q \in Resources : locks'[conn[d]][q] = locks[conn[d]][q]
      BY <1>1, <1>3, <2>3
    <3> QED BY <1>1, <3>1, BalanceKept DEF Using
  <2>6. \A t \in pool, q \in Resources : locks'[t][q] = locks[t][q]
    BY <1>3, <2>3
  <2>7. \A q \in Resources : NobodyFailed(q)' => NobodyFailed(q)
    BY <1>1 DEF NobodyFailed
  <2> QED BY <1>1, <2>1, <2>4, <2>5, <2>6, <2>7 DEF Balanced
<1> QED
  BY <1>9, <1>10 DEF Balanced

LEMMA DropLeak ==
  ASSUME LeakInv, NEW s \in Conns, Drop(s)
  PROVE  UnlocksOfKeys' /\ Balanced'
<1>1. faults' = faults + 1 /\ faults \in Nat /\ UNCHANGED <<conn, phase, unlocking>>
  BY DEF Drop, poolVars, LeakInv, PgInv, TypeOK
<1>2. UnlocksOfKeys'
  BY <1>1, UnlocksKept DEF LeakInv, UnlocksOfKeys
<1> QED
  BY <1>1, <1>2 DEF Balanced

LEMMA LeakInductive == LeakInv /\ [Next]_vars => LeakInv'
<1> SUFFICES ASSUME LeakInv, [Next]_vars PROVE LeakInv'
  OBVIOUS
<1>1. PgInv'
  BY PgInductive DEF LeakInv
<1>2. UnlocksOfKeys' /\ Balanced'
  <2>1. CASE UNCHANGED vars
    <3>1. UNCHANGED <<locks, broken, pool, conn, phase, next, unlocking, faults>>
      BY <2>1 DEF vars, serverVars, poolVars
    <3>2. UnlocksOfKeys'
      BY <3>1, UnlocksKept DEF LeakInv, UnlocksOfKeys
    <3>3. \A c \in Calls, r \in Resources : CallBalanced(c, r) => CallBalanced(c, r)'
      BY <3>1, BalanceKept
    <3>4. Balanced'
      BY <3>1, <3>3 DEF LeakInv, Balanced, NobodyFailed
    <3> QED BY <3>2, <3>4
  <2>2. ASSUME NEW c \in Calls, Connect(c) \/ ConnectFails(c) \/ \E s \in Conns : Connected(c, s)
        PROVE  UnlocksOfKeys' /\ Balanced'
    BY <1>1, <2>2, PoolLeak
  <2>3. ASSUME NEW c \in Calls, TryLock(c) PROVE UnlocksOfKeys' /\ Balanced'
    BY <2>3, TryLockLeak
  <2>4. ASSUME NEW c \in Calls, Locked(c) \/ LockQueryFails(c) PROVE UnlocksOfKeys' /\ Balanced'
    BY <2>4, AcquireFailsLeak
  <2>5. ASSUME NEW c \in Calls, Acquired(c) \/ HandlerEnds(c) PROVE UnlocksOfKeys' /\ Balanced'
    BY <2>5, HandlerLeak
  <2>6. ASSUME NEW c \in Calls, Returned(c) PROVE UnlocksOfKeys' /\ Balanced'
    BY <2>6, ReturnedLeak
  <2>7. ASSUME NEW s \in Conns, Unlock(s) \/ Drop(s) PROVE UnlocksOfKeys' /\ Balanced'
    BY <2>7, UnlockLeak, DropLeak
  <2> QED
    BY <2>1, <2>2, <2>3, <2>4, <2>5, <2>6, <2>7 DEF Next, Finished
<1> QED
  BY <1>1, <1>2 DEF LeakInv

(* A session goes back to the pool with a lock only if some call that      *)
(* wants the lock failed to acquire, or a query or connection failed: also *)
(* when a list repeats a key, which then takes as many unlock queries.     *)
THEOREM SuccessLeavesNoLock == Spec => []LeaksOnlyOnError
<1>1. Init => LeakInv
  <2> SUFFICES ASSUME Init PROVE LeakInv
    OBVIOUS
  <2>1. UnlocksOfKeys /\ \A c \in Calls, r \in Resources : CallBalanced(c, r)
    BY DEF Init, UnlocksOfKeys, UnlocksRest, CallBalanced
  <2>2. Balanced
    BY <2>1 DEF Init, Balanced
  <2> QED BY <2>1, <2>2, InitInv DEF LeakInv
<1>2. ASSUME LeakInv PROVE LeaksOnlyOnError
  <2> SUFFICES ASSUME NEW s \in pool, NEW r \in Resources, locks[s][r] > 0, ~(faults > 0),
                      ~\E c \in Calls : phase[c] = "failed" /\ r \in KeySet(c)
               PROVE  FALSE
    BY DEF LeaksOnlyOnError
  <2>1. faults = 0 /\ NobodyFailed(r)
    BY <1>2 DEF LeakInv, PgInv, TypeOK, NobodyFailed
  <2> QED BY <1>2, <2>1 DEF LeakInv, Balanced
<1> QED
  BY <1>1, <1>2, LeakInductive, PTL DEF Spec
=============================================================================
