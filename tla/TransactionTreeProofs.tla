------------------------ MODULE TransactionTreeProofs ------------------------
(***************************************************************************)
(* Theorems of Transaction that rest on the tree of calls: who may still   *)
(* publish or write in a transaction, the delivery of events and           *)
(* atomicity.                                                              *)
(***************************************************************************)
EXTENDS TransactionProofs, FiniteSetTheorems, FunctionTheorems

Begun == {c \in Calls : pc[c] # "idle"}

(* execute() of c has begun and not settled. *)
Active(c) == pc[c] \notin Over \union {"idle"}

(* c's callback has been called. *)
Entered(c) == pc[c] \notin {"idle", "connecting", "starting", "savepoint"}

(* c is where calls are made in it: in its callback, or in a listener. *)
Hosting(c) == pc[c] = "body" \/ (pc[c] \in Phases /\ Listening(c))

(* A call is made in a callback or a listener, which waits for it, and so  *)
(* does the callback or the listener of the transaction that it has joined. *)
CallOf(c) ==
  /\ pc[c] # "idle" /\ Caller[c] # NoCall => Entered(Caller[c])
  /\ Active(c) /\ Caller[c] # NoCall => Hosting(Caller[c])
  /\ tx[c] \notin {NoCall, c} => Caller[c] # NoCall /\ tx[Caller[c]] = tx[c]
  /\ Active(c) /\ tx[c] # c => Hosting(tx[c])

CallTree == \A c \in Calls : CallOf(c)

(* Calls that have begun do not call each other in a circle. *)
Grounded == \A S \in SUBSET Begun : S # {} => \E k \in S : Caller[k] \notin S

TreeInv == TransactionInv /\ CallTree /\ Grounded

-----------------------------------------------------------------------------
(* The callers of c form the least set with the caller of c and of every   *)
(* member.                                                                 *)
LEMMA CallersLeast ==
  ASSUME NEW c \in Calls, NEW S \in SUBSET Calls,
         \A x \in S \union {c} : Caller[x] \in S \union {NoCall}
  PROVE  Callers[c] \subseteq S
BY DEF Callers

LEMMA CallersClosed ==
  ASSUME NEW c \in Calls
  PROVE  /\ Callers[c] \subseteq Calls
         /\ Caller[c] # NoCall => Caller[c] \in Callers[c]
         /\ \A x \in Callers[c] : Caller[x] # NoCall => Caller[x] \in Callers[c]
<1>1. Callers[c] = {k \in Calls : \A S \in SUBSET Calls :
                      (\A x \in S \union {c} : Caller[x] \in S \union {NoCall}) => k \in S}
  BY DEF Callers
<1>2. Caller \in [Calls -> Calls \union {NoCall}]
  BY TransactionAssumption
<1> QED BY <1>1, <1>2

(* The callers of a call made in p are p and the callers of p. *)
LEMMA CallersOfCaller ==
  ASSUME NEW c \in Calls, Caller[c] # NoCall
  PROVE  /\ Caller[c] \in Calls
         /\ Callers[c] = {Caller[c]} \union Callers[Caller[c]]
<1> DEFINE p == Caller[c]
<1>1. p \in Calls
  BY TransactionAssumption
<1>2. \A x \in Callers[p] \union {p} : Caller[x] \in Callers[p] \union {NoCall}
  BY <1>1, CallersClosed
<1>3. Callers[c] \subseteq {p} \union Callers[p]
  <2>1. {p} \union Callers[p] \in SUBSET Calls
    BY <1>1, CallersClosed
  <2>2. \A x \in ({p} \union Callers[p]) \union {c} : Caller[x] \in ({p} \union Callers[p]) \union {NoCall}
    BY <1>2
  <2> QED BY <2>1, <2>2, CallersLeast
<1>4. p \in Callers[c] /\ \A x \in Callers[c] : Caller[x] \in Callers[c] \union {NoCall}
  BY CallersClosed
<1>5. Callers[p] \subseteq Callers[c]
  <2>1. Callers[c] \in SUBSET Calls
    BY CallersClosed
  <2>2. \A x \in Callers[c] \union {p} : Caller[x] \in Callers[c] \union {NoCall}
    BY <1>4
  <2> QED BY <1>1, <2>1, <2>2, CallersLeast
<1> QED BY <1>1, <1>3, <1>4, <1>5

-----------------------------------------------------------------------------
(* What a step does to the places of the calls.                            *)

(* Only Publish() adds to the synchronizations, and only hooks and errors  *)
(* of c move what c has come to.                                           *)
LEMMA SyncsKept ==
  ASSUME NEW c \in Calls, CallStep(c), ~Publish(c)
  PROVE  syncs' = syncs
BY DEF CallStep, Step, Execute, Connect, ConnectFails, StartTransaction, StartFails, Close,
       Drop, SetSavepoint, ReleaseSavepoint, RollbackToSavepoint, Write, BodyReturns,
       BodyThrows, CommitImpossible, RollbackFails, HookThrows, Commit, CommitFails, Rollback,
       RunHook, PhaseEnds, hookVars

LEMMA AtKept ==
  ASSUME TypeOK, NEW c \in Calls, CallStep(c)
  PROVE  /\ \A x \in Calls \ {c} : at'[x] = at[x]
         /\ at' = at \/ RunHook(c) \/ at'[c] = 1
<1>1. at \in [Calls -> Nat \ {0}]
  BY DEF TypeOK
<1>2. at' = at \/ at' = [at EXCEPT ![c] = 1] \/ RunHook(c)
  BY DEF CallStep, Step, Execute, Connect, ConnectFails, StartTransaction, StartFails, Close, Drop,
         SetSavepoint, ReleaseSavepoint, RollbackToSavepoint, Write, Publish, BodyReturns, BodyThrows,
         Raise, CommitImpossible, RollbackFails, HookThrows, Commit, CommitFails, Rollback, PhaseEnds,
         hookVars
<1> QED BY <1>1, <1>2 DEF RunHook

(* A call that has begun: where it goes. *)
LEMMA Onward ==
  ASSUME TransactionInv, NEW c \in Calls, CallStep(c), ~Execute(c)
  PROVE  /\ pc[c] # "idle" /\ pc'[c] # "idle" /\ tx' = tx
         /\ Entered(c) => Entered(c)'
         /\ Active(c)' => Active(c)
<1> USE Functions DEF Entered, Active, Over
<1>1. TypeOK /\ Contexts /\ Stages /\ StageOf(c)
  BY DEF TransactionInv, Stages
<1>2. tx' = tx
  BY <1>1, ContextKept
<1>3. CASE Connect(c) \/ ConnectFails(c) \/ StartTransaction(c) \/ StartFails(c) \/ Close(c)
  BY <1>1, <1>2, <1>3 DEF Connect, ConnectFails, StartTransaction, StartFails, Close
<1>4. CASE SetSavepoint(c) \/ ReleaseSavepoint(c) \/ RollbackToSavepoint(c)
  BY <1>1, <1>2, <1>4 DEF SetSavepoint, ReleaseSavepoint, RollbackToSavepoint
<1>5. CASE Write(c) \/ Publish(c) \/ RunHook(c) \/ Drop(c)
  BY <1>1, <1>2, <1>5 DEF Write, Publish, RunHook, Drop, InBody, Phases, StageOf
<1>6. CASE BodyReturns(c) \/ \E e \in Errors : BodyThrows(c, e)
  BY <1>1, <1>2, <1>6 DEF BodyReturns, BodyThrows, Raise
<1>7. CASE CommitImpossible(c) \/ CommitFails(c) \/ RollbackFails(c) \/ HookThrows(c)
  BY <1>1, <1>2, <1>7 DEF CommitImpossible, CommitFails, RollbackFails, HookThrows, Raise, Phases
<1>8. CASE Commit(c) \/ Rollback(c) \/ PhaseEnds(c)
  BY <1>1, <1>2, <1>8 DEF Commit, Rollback, PhaseEnds, AfterPhase, Phases
<1> QED
  BY <1>3, <1>4, <1>5, <1>6, <1>7, <1>8 DEF CallStep, Step

(* Who has called waits: a call goes on from where calls are made only     *)
(* when it awaits none.                                                    *)
LEMMA Waits ==
  ASSUME TransactionInv, NEW c \in Calls, CallStep(c), NEW p \in Calls, Hosting(p)
  PROVE  Hosting(p)' \/ (p = c /\ ~Busy(c))
<1> USE Functions
<1>1. TypeOK /\ Contexts
  BY DEF TransactionInv
<1>2. \A i \in DOMAIN syncs[p] : i \in DOMAIN syncs'[p] /\ syncs'[p][i] = syncs[p][i]
  <2>1. CASE Publish(c)
    BY <1>1, <2>1, Registered
  <2>2. CASE ~Publish(c)
    BY <2>2, SyncsKept
  <2> QED BY <2>1, <2>2
<1>3. ASSUME pc'[p] = pc[p], at'[p] = at[p]
      PROVE  Hosting(p)'
  BY <1>2, <1>3 DEF Hosting, Listening
<1>4. CASE p # c
  <2>1. pc'[p] = pc[p]
    BY <1>1, <1>4, Local
  <2>2. at'[p] = at[p]
    BY <1>1, <1>4, AtKept
  <2> QED BY <1>3, <2>1, <2>2
<1>5. CASE p = c
  <2>1. CASE BodyReturns(c) \/ (\E e \in Errors : BodyThrows(c, e)) \/ RunHook(c)
    BY <1>5, <2>1 DEF BodyReturns, BodyThrows, RunHook
  <2>2. CASE Write(c) \/ Publish(c) \/ Drop(c)
    <3>1. pc' = pc /\ at' = at
      BY <2>2 DEF Write, Publish, Drop, hookVars
    <3> QED BY <1>3, <3>1
  <2>3. ~(HookThrows(c) \/ PhaseEnds(c))
    BY <1>5 DEF HookThrows, PhaseEnds, Hosting, Listening, Phases
  <2>4. pc[c] \in {"body"} \union Phases
    BY <1>5 DEF Hosting
  <2>5. ~Execute(c) /\ ~SetSavepoint(c) /\ ~ReleaseSavepoint(c) /\ ~RollbackToSavepoint(c) /\ ~Connect(c)
        /\ ~ConnectFails(c) /\ ~StartTransaction(c) /\ ~StartFails(c) /\ ~Close(c)
    BY <2>4 DEF Execute, Callable, SetSavepoint, ReleaseSavepoint, RollbackToSavepoint, Connect,
                ConnectFails, StartTransaction, StartFails, Close, Phases
  <2>6. ~Commit(c) /\ ~CommitImpossible(c) /\ ~CommitFails(c) /\ ~Rollback(c) /\ ~RollbackFails(c)
    BY <2>4 DEF Commit, CommitImpossible, CommitFails, Rollback, RollbackFails, Phases
  <2> QED BY <2>1, <2>2, <2>3, <2>5, <2>6 DEF CallStep, Step
<1> QED BY <1>4, <1>5

(* A call that awaits none is alone in its transaction. *)
LEMMA AloneInTransaction ==
  ASSUME TreeInv, NEW d \in Calls, ~Busy(d)
  PROVE  \A x \in Calls : Active(x) /\ tx[x] = d => x = d
<1> DEFINE A == {x \in Calls : Active(x) /\ tx[x] = d /\ x # d}
<1> SUFFICES ASSUME A # {} PROVE FALSE
  OBVIOUS
<1>1. A \in SUBSET Begun
  BY DEF Begun, Active
<1>2. PICK k \in A : Caller[k] \notin A
  <2> HIDE DEF A
  <2> QED BY <1>1 DEF TreeInv, Grounded
<1>3. CallOf(k) /\ k \in Calls /\ Active(k) /\ tx[k] = d /\ k # d /\ d # NoCall
  BY <1>2, TransactionAssumption DEF TreeInv, CallTree
<1>4. Caller[k] \in Calls /\ tx[Caller[k]] = d /\ Hosting(Caller[k])
  BY <1>3, TransactionAssumption DEF CallOf
<1>5. Active(Caller[k])
  BY <1>4 DEF Hosting, Active, Phases, Over
<1>6. Caller[k] = d
  BY <1>2, <1>4, <1>5
<1> QED BY <1>3, <1>6 DEF Busy, Active

(* A call that begins: where it is called. *)
LEMMA Begins ==
  ASSUME TransactionInv, NEW c \in Calls, Execute(c)
  PROVE  /\ pc[c] = "idle" /\ tx[c] = NoCall /\ pc'[c] \in {"body", "savepoint", "connecting"}
         /\ tx'[c] # NoCall /\ tx'[c] \in Calls
         /\ Caller[c] # NoCall => Caller[c] \in Calls \ {c} /\ Hosting(Caller[c])
                                  /\ (Concurrent \/ ~Busy(Caller[c]))
                                  /\ pc[Caller[c]] = options[c].during
         /\ tx'[c] # c => Caller[c] # NoCall /\ tx[Caller[c]] = tx'[c]
<1> USE Functions
<1>1. TypeOK /\ Contexts
  BY DEF TransactionInv
<1>2. pc[c] = "idle" /\ pc'[c] \in {"body", "savepoint", "connecting"}
  BY <1>1 DEF Execute, Callable
<1>3. tx[c] = NoCall /\ tx'[c] # NoCall /\ tx'[c] \in Calls
  BY <1>1, ContextChosen
<1>4. tx'[c] # c => Caller[c] # NoCall /\ tx[Caller[c]] = tx'[c]
  BY <1>1, TransactionAssumption DEF Execute, Joins, Nests, Context
<1>5. ASSUME Caller[c] # NoCall
      PROVE  Caller[c] \in Calls \ {c} /\ Hosting(Caller[c]) /\ (Concurrent \/ ~Busy(Caller[c]))
             /\ pc[Caller[c]] = options[c].during
  <2>1. options[c].during \in {"body"} \union Phases
    <3>1. options \in [Calls -> CallOptions]
      BY <1>1, TransactionAssumption DEF TypeOK
    <3>2. options[c] \in CallOptions
      BY <3>1
    <3> QED BY <3>2 DEF CallOptions
  <2>2. /\ pc[Caller[c]] = options[c].during /\ (Concurrent \/ ~Busy(Caller[c]))
        /\ pc[Caller[c]] = "body" \/ Listening(Caller[c])
    BY <1>5 DEF Execute, Callable
  <2>3. Caller[c] \in Calls /\ Caller[c] # c
    BY <1>2, <1>5, <2>1, <2>2, TransactionAssumption DEF Phases
  <2> QED BY <2>1, <2>2, <2>3 DEF Hosting
<1> QED BY <1>2, <1>3, <1>4, <1>5

(* The tree of calls after a step. *)
LEMMA TreeStep ==
  ASSUME TreeInv, NEW c \in Calls, CallStep(c)
  PROVE  CallTree'
<1> SUFFICES ASSUME NEW x \in Calls PROVE CallOf(x)'
  BY DEF CallTree
<1> USE Functions
<1>1. TransactionInv /\ TypeOK /\ CallOf(x)
  BY DEF TreeInv, TransactionInv, CallTree
<1>2. \A y \in Calls \ {c} : pc'[y] = pc[y] /\ tx'[y] = tx[y]
  BY <1>1, Local
<1>3. \A y \in Calls : Entered(y) => Entered(y)'
  <2> SUFFICES ASSUME NEW y \in Calls, Entered(y) PROVE Entered(y)'
    OBVIOUS
  <2>1. CASE y # c
    BY <1>2, <2>1 DEF Entered
  <2>2. CASE y = c
    BY <1>1, <2>2, Onward, Begins DEF Entered
  <2> QED BY <2>1, <2>2
<1>4. \A p \in Calls : Hosting(p) => Hosting(p)' \/ (p = c /\ ~Busy(c))
  BY <1>1, Waits
<1>5. ASSUME ~Execute(c) \/ x # c
      PROVE  CallOf(x)'
  <2>1. (pc'[x] # "idle" => pc[x] # "idle") /\ (Active(x)' => Active(x)) /\ tx'[x] = tx[x]
    <3>1. CASE x # c
      BY <1>2, <3>1 DEF Active
    <3>2. CASE x = c
      BY <1>1, <1>5, <3>2, Onward
    <3> QED BY <3>1, <3>2
  <2>2. ASSUME pc'[x] # "idle", Caller[x] # NoCall
        PROVE  Entered(Caller[x])'
    BY <1>1, <1>3, <2>1, <2>2, TransactionAssumption DEF CallOf
  <2>3. ASSUME Active(x)', Caller[x] # NoCall
        PROVE  Hosting(Caller[x])'
    <3>1. Active(x) /\ Hosting(Caller[x]) /\ Caller[x] \in Calls
      BY <1>1, <2>1, <2>3, TransactionAssumption DEF CallOf
    <3>2. Busy(Caller[x])
      BY <3>1 DEF Busy, Active
    <3> QED BY <1>4, <3>1, <3>2
  <2>4. ASSUME tx'[x] \notin {NoCall, x}
        PROVE  Caller[x] # NoCall /\ tx'[Caller[x]] = tx'[x]
    <3>1. Caller[x] # NoCall /\ tx[Caller[x]] = tx[x] /\ Caller[x] \in Calls
      BY <1>1, <2>1, <2>4, TransactionAssumption DEF CallOf
    <3>2. tx'[Caller[x]] = tx[Caller[x]]
      <4>1. CASE Caller[x] # c
        BY <1>2, <3>1, <4>1
      <4>2. CASE ~Execute(c)
        BY <1>1, <4>2, Onward
      <4>3. CASE Execute(c) /\ Caller[x] = c
        BY <1>1, <2>1, <2>4, <3>1, <4>3, Begins
      <4> QED BY <4>1, <4>2, <4>3
    <3> QED BY <2>1, <3>1, <3>2
  <2>5. ASSUME Active(x)', tx'[x] # x
        PROVE  Hosting(tx[x])'
    <3>1. PICK d \in Calls : d = tx[x]
      <4>1. ContextOf(x) /\ pc[x] # "idle"
        BY <1>1, <2>1, <2>5 DEF TransactionInv, Contexts, Active
      <4> QED BY <1>1, <4>1 DEF ContextOf
    <3>2. Active(x) /\ tx'[x] = d /\ Hosting(d) /\ x # d
      BY <1>1, <2>1, <2>5, <3>1 DEF CallOf
    <3>3. d = c => Busy(c)
      BY <3>1, <3>2, AloneInTransaction
    <3>4. Hosting(d)'
      BY <1>4, <3>2, <3>3
    <3> QED BY <3>2, <3>4 DEF Hosting, Listening
  <2> QED BY <2>2, <2>3, <2>4, <2>5 DEF CallOf
<1>6. CASE Execute(c) /\ x = c
  <2>1. /\ pc[c] = "idle" /\ tx'[c] # NoCall
        /\ Caller[c] # NoCall => Caller[c] \in Calls \ {c} /\ Hosting(Caller[c])
        /\ tx'[c] # c => Caller[c] # NoCall /\ tx[Caller[c]] = tx'[c]
    BY <1>1, <1>6, Begins
  <2>2. \A p \in Calls \ {c} : Hosting(p) => Hosting(p)' /\ Entered(p)'
    BY <1>3, <1>4 DEF Hosting, Entered, Phases
  <2>3. ASSUME tx'[c] # c
        PROVE  Hosting(tx[c])'
    <3> DEFINE p == Caller[c]
    <3>1. PICK d \in Calls : d = tx'[c]
      BY <1>1, <1>6, Begins
    <3>2. p \in Calls \ {c} /\ Hosting(p) /\ tx[p] = d
      BY <2>1, <2>3, <3>1
    <3> HIDE DEF p
    <3>3. Active(p) /\ CallOf(p)
      BY <3>2 DEF Hosting, Active, Phases, Over, TreeInv, CallTree
    <3>4. Hosting(d)
      BY <3>2, <3>3 DEF CallOf
    <3>5. Hosting(d)'
      <4>1. d # c
        BY <2>1, <3>4 DEF Hosting, Phases
      <4> QED BY <2>2, <3>4, <4>1
    <3> QED BY <3>1, <3>5 DEF Hosting, Listening
  <2> QED BY <1>2, <1>6, <2>1, <2>2, <2>3 DEF CallOf
<1> QED BY <1>5, <1>6

LEMMA GroundedStep ==
  ASSUME TreeInv, NEW c \in Calls, CallStep(c)
  PROVE  Grounded'
<1> USE Functions
<1>1. TransactionInv /\ TypeOK
  BY DEF TreeInv, TransactionInv
<1>2. \A y \in Calls \ {c} : pc'[y] = pc[y]
  BY <1>1, Local
<1>3. CASE ~Execute(c)
  <2>1. Begun' = Begun
    BY <1>1, <1>2, <1>3, Onward DEF Begun
  <2> QED BY <2>1 DEF TreeInv, Grounded
<1>4. CASE Execute(c)
  <2>1. pc[c] = "idle" /\ Caller[c] # c
    BY <1>1, <1>4, Begins, TransactionAssumption
  <2>2. Begun' \ {c} \subseteq Begun
    BY <1>2 DEF Begun
  <2>3. \A k \in Begun : Caller[k] # c
    BY <2>1, TransactionAssumption DEF Begun, TreeInv, CallTree, CallOf, Entered
  <2> SUFFICES ASSUME NEW S \in SUBSET Begun', S # {} PROVE \E k \in S : Caller[k] \notin S
    BY DEF Grounded
  <2>4. CASE S \ {c} # {}
    <3>1. S \ {c} \in SUBSET Begun
      BY <2>2
    <3>2. PICK k \in S \ {c} : Caller[k] \notin S \ {c}
      BY <2>4, <3>1 DEF TreeInv, Grounded
    <3> QED BY <2>3, <3>1, <3>2
  <2>5. CASE S \ {c} = {}
    BY <2>1, <2>5
  <2> QED BY <2>4, <2>5
<1> QED BY <1>3, <1>4

(* The invariant of the tree. *)
LEMMA TreeInductive == TreeInv /\ [Next]_vars => TreeInv'
<1> SUFFICES ASSUME TreeInv, [Next]_vars PROVE TreeInv'
  OBVIOUS
<1>1. TransactionInv'
  BY Inductive DEF TreeInv
<1>2. CASE UNCHANGED vars
  <2>1. UNCHANGED <<pc, tx, at, syncs>>
    BY <1>2 DEF vars, hookVars
  <2>2. CallTree' /\ Grounded'
    BY <2>1 DEF TreeInv, CallTree, CallOf, Grounded, Begun, Active, Entered, Hosting, Listening
  <2> QED BY <1>1, <2>2 DEF TreeInv
<1>3. ASSUME NEW c \in Calls, CallStep(c)
      PROVE  TreeInv'
  BY <1>1, <1>3, TreeStep, GroundedStep DEF TreeInv
<1> QED BY <1>2, <1>3 DEF Next, Finished, CallStep

LEMMA TreeInit == Init => TreeInv
BY InitInv DEF Init, TreeInv, CallTree, CallOf, Grounded, Begun, Active

-----------------------------------------------------------------------------
(* The delivery of events.                                                 *)

EndPhases == {"AFTER_COMMIT", "AFTER_ROLLBACK", "AFTER_COMPLETION"}

(* No listener of AFTER_COMPLETION makes a transactional call: it would    *)
(* join the context of a transaction whose other phases are past.          *)
Quiet == \A c \in Calls : options[c].during # "AFTER_COMPLETION"

(* k's listeners of phase p that are registered with d, and those among    *)
(* them that the hooks have come past.                                     *)
Entries(d, k, p) == {i \in DOMAIN syncs[d] : syncs[d][i].call = k /\ syncs[d][i].phase = p}
Passed(d, k, p) == {i \in Entries(d, k, p) : i < at[d]}

ToldSome(d, k, p) == delivered[k][p] = Cardinality(Passed(d, k, p))
ToldAll(d, k, p) == delivered[k][p] = Cardinality(Entries(d, k, p))

Outcome(d) == IF client[d] = "aborted" THEN "AFTER_ROLLBACK" ELSE "AFTER_COMMIT"

(* What k, in the transaction of d, has been told at each stage of d. *)
DeliveryOf(d, k) ==
  /\ pc[d] \in {"commit", "rollback"} => at[d] = 1
  /\ pc[d] \notin EndPhases \union {"closing"} \union Over =>
       \A p \in EndPhases : delivered[k][p] = 0
  /\ pc[d] \in {"AFTER_COMMIT", "AFTER_ROLLBACK"} =>
       ToldSome(d, k, pc[d]) /\ delivered[k]["AFTER_COMPLETION"] = 0 /\ pc[d] = Outcome(d)
  /\ pc[d] = "AFTER_COMPLETION" => ToldSome(d, k, "AFTER_COMPLETION") /\ ToldAll(d, k, Outcome(d))
  /\ pc[d] \in {"closing"} \union Over /\ (error[d] = "none" \/ client[d] = "aborted") =>
       ToldAll(d, k, "AFTER_COMPLETION") /\ ToldAll(d, k, Outcome(d))

Deliveries == Quiet => \A d, k \in Calls :
  tx[d] = d /\ tx[k] = d /\ error[d] # "hook" => DeliveryOf(d, k)

(* Nobody publishes in a transaction whose last phase runs. *)
NoneLate == Quiet => \A d, x \in Calls :
  pc[d] = "AFTER_COMPLETION" /\ Active(x) /\ tx[x] = d => x = d

AbortedPlaces == \A d \in Calls : client[d] = "aborted" =>
  pc[d] \in {"AFTER_ROLLBACK", "AFTER_COMPLETION", "closing", "threw"} /\ error[d] # "none"

(* An event is registered by its publication, all its listeners at once. *)
PublishedOf(k) ==
  /\ "publish" \notin did[k] =>
       /\ \A d \in Calls, p \in Phases : Entries(d, k, p) = {}
       /\ \A p \in Phases : delivered[k][p] = 0
  /\ "publish" \in did[k] =>
       /\ pc[k] # "idle"
       /\ \A p \in Phases : Cardinality(Entries(tx[k], k, p)) = Cardinality(ListenersOf(k, p))

Published == \A k \in Calls : PublishedOf(k)

DeliveryInv == TreeInv /\ NoneLate /\ AbortedPlaces /\ Published /\ Deliveries

LEMMA EntriesFinite ==
  ASSUME TypeOK, NEW d \in Calls, NEW k, NEW p
  PROVE  /\ syncs[d] \in Seq([call : Calls, phase : Phases \union {"hook"}])
         /\ Len(syncs[d]) \in Nat /\ DOMAIN syncs[d] = 1..Len(syncs[d]) /\ at[d] \in Nat \ {0}
         /\ IsFiniteSet(Entries(d, k, p)) /\ Cardinality(Entries(d, k, p)) \in Nat
         /\ IsFiniteSet(Passed(d, k, p)) /\ Cardinality(Passed(d, k, p)) \in Nat
<1>1. /\ syncs[d] \in Seq([call : Calls, phase : Phases \union {"hook"}])
      /\ at[d] \in Nat \ {0}
  BY DEF TypeOK
<1>2. Len(syncs[d]) \in Nat /\ DOMAIN syncs[d] = 1..Len(syncs[d])
  BY <1>1, Elements
<1>3. IsFiniteSet(DOMAIN syncs[d])
  BY <1>2, FS_Interval
<1>4. Entries(d, k, p) \in SUBSET DOMAIN syncs[d] /\ Passed(d, k, p) \in SUBSET DOMAIN syncs[d]
  BY DEF Entries, Passed
<1> QED BY <1>1, <1>2, <1>3, <1>4, FS_Subset, FS_CardinalityType

(* A hook ends: it was told, if it listens to the phase. *)
LEMMA HookDelivers ==
  ASSUME TypeOK, NEW d \in Calls, RunHook(d), NEW k \in Calls, NEW p \in Phases
  PROVE  /\ delivered'[k][p] = IF p = pc[d] /\ at[d] \in Entries(d, k, p)
                               THEN delivered[k][p] + 1 ELSE delivered[k][p]
         /\ Entries(d, k, p)' = Entries(d, k, p)
         /\ Passed(d, k, p)' = IF at[d] \in Entries(d, k, p)
                               THEN Passed(d, k, p) \union {at[d]} ELSE Passed(d, k, p)
<1>1. /\ at[d] \in DOMAIN syncs[d] /\ pc[d] \in Phases /\ at' = [at EXCEPT ![d] = @ + 1]
      /\ syncs' = syncs
  BY DEF RunHook
<1>2. /\ syncs[d] \in Seq([call : Calls, phase : Phases \union {"hook"}])
      /\ DOMAIN syncs[d] = 1..Len(syncs[d]) /\ Len(syncs[d]) \in Nat /\ at[d] \in Nat \ {0}
  BY EntriesFinite
<1>3. Entries(d, k, p)' = Entries(d, k, p)
  BY <1>1 DEF Entries
<1>4. at'[d] = at[d] + 1
  BY <1>1 DEF TypeOK
<1>5. \A i \in Entries(d, k, p) : i \in Nat
  BY <1>2 DEF Entries
<1>6. Passed(d, k, p)' = {i \in Entries(d, k, p) : i < at[d] + 1}
  BY <1>3, <1>4 DEF Passed
<1>7. Passed(d, k, p)' = IF at[d] \in Entries(d, k, p)
                         THEN Passed(d, k, p) \union {at[d]} ELSE Passed(d, k, p)
  <2>1. \A i \in Entries(d, k, p) : i < at[d] + 1 <=> i < at[d] \/ i = at[d]
    BY <1>2, <1>5
  <2> QED BY <1>6, <2>1 DEF Passed
<1>8. PICK s \in [call : Calls, phase : Phases \union {"hook"}] : s = syncs[d][at[d]]
  <2> DEFINE S == [call : Calls, phase : Phases \union {"hook"}]
  <2>1. syncs[d] \in Seq(S) /\ at[d] \in 1..Len(syncs[d])
    BY <1>1, <1>2
  <2> HIDE DEF S
  <2>2. syncs[d][at[d]] \in S
    BY <2>1, Elements
  <2> QED BY <2>2 DEF S
<1>9. at[d] \in Entries(d, k, p) <=> s.call = k /\ s.phase = p
  BY <1>1, <1>8 DEF Entries
<1>10. delivered' = IF s.phase = pc[d] THEN [delivered EXCEPT ![s.call][s.phase] = @ + 1] ELSE delivered
  BY <1>1, <1>8 DEF RunHook, Listening
<1>11. delivered \in [Calls -> [Phases -> Nat]]
  BY DEF TypeOK
<1>12. delivered'[k][p] = IF p = pc[d] /\ s.call = k /\ s.phase = p
                          THEN delivered[k][p] + 1 ELSE delivered[k][p]
  <2>1. CASE s.phase = pc[d]
    <3>1. s.call \in Calls /\ s.phase \in Phases
      BY <1>1, <2>1
    <3>2. delivered' = [delivered EXCEPT ![s.call] = [delivered[s.call] EXCEPT ![s.phase] = @ + 1]]
      BY <1>10, <2>1
    <3> QED BY <1>11, <2>1, <3>1, <3>2
  <2>2. CASE s.phase # pc[d]
    BY <1>10, <2>2
  <2> QED BY <2>1, <2>2
<1> QED BY <1>3, <1>7, <1>9, <1>12

(* As many numbers, counted from n. *)
LEMMA Shifted ==
  ASSUME NEW n \in Nat, NEW P \in SUBSET Nat, IsFiniteSet(P)
  PROVE  Cardinality({n + j : j \in P}) = Cardinality(P)
<1> DEFINE T == {n + j : j \in P}
           f == [j \in P |-> n + j]
<1>1. f \in [P -> T]
  OBVIOUS
<1>2. \A a, b \in P : f[a] = f[b] => a = b
  OBVIOUS
<1>3. \A t \in T : \E s \in P : f[s] = t
  OBVIOUS
<1> HIDE DEF f, T
<1>4. f \in Bijection(P, T)
  BY <1>1, <1>2, <1>3, Fun_IsBij
<1>5. ExistsBijection(P, T)
  BY <1>4 DEF ExistsBijection
<1>6. Cardinality(T) = Cardinality(P)
  BY <1>5, FS_Bijection
<1> QED BY <1>6 DEF T

(* The elements of a concatenation. *)
LEMMA Concatenated ==
  ASSUME NEW S, NEW s \in Seq(S), NEW t \in Seq(S)
  PROVE  /\ DOMAIN (s \o t) = 1..(Len(s) + Len(t))
         /\ \A i \in 1..Len(s) : (s \o t)[i] = s[i]
         /\ \A j \in 1..Len(t) : (s \o t)[Len(s) + j] = t[j]
OBVIOUS

(* publish() registers every listener of the event, behind the others. *)
LEMMA PublishRegisters ==
  ASSUME TypeOK, NEW c \in Calls, Publish(c), NEW d \in Calls, d = tx[c]
  PROVE  /\ \A x, k \in Calls, p \in Phases :
              k # c \/ x # d => Entries(x, k, p)' = Entries(x, k, p)
         /\ \A x, k \in Calls, p \in Phases :
              at[x] \in DOMAIN syncs[x] => Passed(x, k, p)' = Passed(x, k, p)
         /\ \A p \in Phases : Entries(d, c, p) = {} =>
              Cardinality(Entries(d, c, p)') = Cardinality(ListenersOf(c, p))
<1> DEFINE L == Listeners[c]
           n == Len(syncs[d])
           new == [i \in DOMAIN L |-> [call |-> c, phase |-> L[i]]]
<1>2. L \in Seq(Phases \union {"hook"}) /\ Len(L) \in Nat /\ DOMAIN L = 1..Len(L)
  BY TransactionAssumption, Elements
<1>3. n \in Nat /\ DOMAIN syncs[d] = 1..n
      /\ syncs[d] \in Seq([call : Calls, phase : Phases \union {"hook"}])
  BY EntriesFinite
<1>4. new \in Seq([call : Calls, phase : Phases \union {"hook"}]) /\ Len(new) = Len(L)
      /\ \A j \in 1..Len(L) : new[j].call = c /\ new[j].phase = L[j]
  <2>1. new = [i \in 1..Len(L) |-> [call |-> c, phase |-> L[i]]]
    BY <1>2
  <2>2. \A i \in 1..Len(L) : L[i] \in Phases \union {"hook"}
    BY <1>2
  <2> HIDE DEF L
  <2> QED BY <1>2, <2>1, <2>2
<1>5. syncs' = [syncs EXCEPT ![d] = @ \o new] /\ at' = at
  BY DEF Publish
<1>6. syncs'[d] = syncs[d] \o new /\ \A x \in Calls \ {d} : syncs'[x] = syncs[x]
  BY <1>5 DEF TypeOK
<1> HIDE DEF new, L, n
<1>7. /\ DOMAIN syncs'[d] = 1..(n + Len(L))
      /\ \A i \in 1..n : syncs'[d][i] = syncs[d][i]
      /\ \A j \in 1..Len(L) : syncs'[d][n + j] = new[j]
  <2> DEFINE S == [call : Calls, phase : Phases \union {"hook"}]
             s == syncs[d]
  <2>1. s \in Seq(S) /\ new \in Seq(S) /\ syncs'[d] = s \o new
    BY <1>3, <1>4, <1>6
  <2> HIDE DEF S, s
  <2>2. /\ DOMAIN (s \o new) = 1..(Len(s) + Len(new))
        /\ \A i \in 1..Len(s) : (s \o new)[i] = s[i]
        /\ \A j \in 1..Len(new) : (s \o new)[Len(s) + j] = new[j]
    BY <2>1, Concatenated
  <2>3. Len(new) = Len(L) /\ n = Len(s)
    BY <1>4 DEF n, s
  <2> QED BY <2>1, <2>2, <2>3 DEF s
<1>8. \A k \in Calls, p \in Phases :
        Entries(d, k, p)' = Entries(d, k, p)
                            \union {n + j : j \in {l \in 1..Len(L) : k = c /\ L[l] = p}}
  <2> TAKE k \in Calls, p \in Phases
  <2> DEFINE N == {n + j : j \in {l \in 1..Len(L) : k = c /\ L[l] = p}}
  <2>1. ASSUME NEW i \in Entries(d, k, p)' PROVE i \in Entries(d, k, p) \union N
    <3>1. i \in 1..(n + Len(L)) /\ syncs'[d][i].call = k /\ syncs'[d][i].phase = p
      BY <1>7, <2>1 DEF Entries
    <3>2. CASE i \in 1..n
      BY <1>3, <1>7, <3>1, <3>2 DEF Entries
    <3>3. CASE i \notin 1..n
      <4>1. PICK j \in 1..Len(L) : i = n + j
        <5>1. i - n \in 1..Len(L) /\ i = n + (i - n)
          BY <1>2, <1>3, <3>1, <3>3
        <5> QED BY <5>1
      <4>2. k = c /\ L[j] = p
        BY <1>4, <1>7, <3>1, <4>1
      <4> QED BY <4>1, <4>2
    <3> QED BY <3>2, <3>3
  <2>2. ASSUME NEW i \in Entries(d, k, p) PROVE i \in Entries(d, k, p)'
    <3>1. i \in 1..n /\ syncs[d][i].call = k /\ syncs[d][i].phase = p
      BY <1>3, <2>2 DEF Entries
    <3>2. i \in 1..(n + Len(L))
      BY <1>2, <1>3, <3>1
    <3> QED BY <1>7, <3>1, <3>2 DEF Entries
  <2>3. ASSUME NEW j \in 1..Len(L), k = c, L[j] = p PROVE n + j \in Entries(d, k, p)'
    <3>1. n + j \in 1..(n + Len(L))
      BY <1>2, <1>3
    <3> QED BY <1>4, <1>7, <2>3, <3>1 DEF Entries
  <2> QED BY <2>1, <2>2, <2>3
<1>9. \A x, k \in Calls, p \in Phases : k # c \/ x # d => Entries(x, k, p)' = Entries(x, k, p)
  <2> TAKE x, k \in Calls, p \in Phases
  <2>1. CASE x # d
    BY <1>6, <2>1 DEF Entries
  <2>2. CASE x = d /\ k # c
    <3>1. {n + j : j \in {l \in 1..Len(L) : k = c /\ L[l] = p}} = {}
      BY <2>2
    <3>2. Entries(d, k, p)' = Entries(d, k, p) \union {n + j : j \in {l \in 1..Len(L) : k = c /\ L[l] = p}}
      BY <1>8
    <3> QED BY <2>2, <3>1, <3>2
  <2> QED BY <2>1, <2>2
<1>10. ASSUME NEW x \in Calls, NEW k \in Calls, NEW p \in Phases, at[x] \in DOMAIN syncs[x]
       PROVE  Passed(x, k, p)' = Passed(x, k, p)
  <2>1. CASE x # d
    BY <1>5, <1>9, <2>1 DEF Passed
  <2>2. CASE x = d
    <3>1. at[d] \in 1..n /\ at'[d] = at[d]
      BY <1>3, <1>5, <1>10, <2>2
    <3>2. \A j \in 1..Len(L) : ~(n + j < at[d])
      BY <1>2, <1>3, <3>1
    <3> QED BY <1>8, <2>2, <3>1, <3>2 DEF Passed
  <2> QED BY <2>1, <2>2
<1>11. ASSUME NEW p \in Phases, Entries(d, c, p) = {}
       PROVE  Cardinality(Entries(d, c, p)') = Cardinality(ListenersOf(c, p))
  <2>1. ListenersOf(c, p) = {l \in 1..Len(L) : c = c /\ L[l] = p}
    BY <1>2 DEF ListenersOf, L
  <2>2. Entries(d, c, p)' = {n + j : j \in ListenersOf(c, p)}
    BY <1>8, <1>11, <2>1
  <2>3. ListenersOf(c, p) \in SUBSET Nat /\ IsFiniteSet(ListenersOf(c, p))
    <3>1. ListenersOf(c, p) \in SUBSET (1..Len(L))
      BY <2>1
    <3>2. IsFiniteSet(1..Len(L))
      BY <1>2, FS_Interval
    <3> QED BY <3>1, <3>2, FS_Subset
  <2>4. Cardinality({n + j : j \in ListenersOf(c, p)}) = Cardinality(ListenersOf(c, p))
    BY <1>3, <2>3, Shifted
  <2> QED BY <2>2, <2>4
<1> QED BY <1>9, <1>10, <1>11

(* Only publish() publishes. *)
LEMMA DidKept ==
  ASSUME TypeOK, NEW c \in Calls, CallStep(c), NEW k \in Calls, k # c \/ ~Publish(c)
  PROVE  "publish" \in did'[k] <=> "publish" \in did[k]
<1>1. CASE Write(c) \/ Publish(c)
  <2>1. did \in [Calls -> SUBSET {"write", "publish"}]
    BY DEF TypeOK
  <2>2. CASE k # c
    <3>1. did'[k] = did[k]
      BY <1>1, <2>1, <2>2 DEF Write, Publish
    <3> QED BY <3>1
  <2>3. CASE Write(c) /\ k = c
    <3>1. did'[c] = did[c] \union {"write"}
      BY <2>1, <2>3 DEF Write
    <3> QED BY <2>3, <3>1
  <2> QED BY <1>1, <2>2, <2>3
<1>2. CASE ~(Write(c) \/ Publish(c))
  <2>1. did' = did
    BY <1>2 DEF CallStep, Step, Execute, Connect, ConnectFails, StartTransaction, StartFails, Close,
           Drop, SetSavepoint, ReleaseSavepoint, RollbackToSavepoint, BodyReturns,
           BodyThrows, CommitImpossible, RollbackFails, HookThrows, Commit, CommitFails, Rollback,
           RunHook, PhaseEnds
  <2> QED BY <2>1
<1> QED BY <1>1, <1>2

LEMMA NoneLateStep ==
  ASSUME TreeInv, NoneLate, NEW c \in Calls, CallStep(c)
  PROVE  NoneLate'
<1> USE Functions
<1>1. TransactionInv /\ TypeOK /\ options' = options
  BY Local DEF TreeInv, TransactionInv
<1>2. \A y \in Calls \ {c} : pc'[y] = pc[y] /\ tx'[y] = tx[y]
  BY <1>1, Local
<1> SUFFICES ASSUME Quiet, NEW d \in Calls, NEW x \in Calls,
                    pc'[d] = "AFTER_COMPLETION", Active(x)', tx'[x] = d, x # d
             PROVE  FALSE
  BY <1>1 DEF NoneLate, Quiet
<1>3. CASE Execute(c)
  <2>1. d # c
    BY <1>1, <1>3, Begins
  <2>2. pc[d] = "AFTER_COMPLETION"
    BY <1>2, <2>1
  <2>3. CASE x = c
    <3> DEFINE p == Caller[c]
    <3>1. p \in Calls /\ Hosting(p) /\ tx[p] = d /\ pc[p] = options[c].during
      BY <1>1, <1>3, <2>1, <2>3, Begins
    <3>2. Active(p)
      BY <3>1 DEF Hosting, Active, Phases, Over
    <3>3. p = d
      BY <2>2, <3>1, <3>2 DEF NoneLate
    <3> QED BY <2>2, <3>1, <3>3 DEF Quiet
  <2>4. CASE x # c
    BY <1>2, <2>2, <2>4 DEF NoneLate, Active
  <2> QED BY <2>3, <2>4
<1>4. CASE ~Execute(c)
  <2>1. tx[x] = d /\ Active(x)
    BY <1>1, <1>2, <1>4, Onward DEF Active
  <2>2. d = c /\ pc[c] # "AFTER_COMPLETION"
    BY <1>2, <2>1 DEF NoneLate
  <2>3. PhaseEnds(c)
    <3>1. pc' # pc
      BY <2>2
    <3>2. CASE Connect(c) \/ ConnectFails(c) \/ StartTransaction(c) \/ StartFails(c) \/ Close(c)
               \/ SetSavepoint(c) \/ ReleaseSavepoint(c) \/ RollbackToSavepoint(c)
      BY <1>1, <2>2, <3>2 DEF Connect, ConnectFails, StartTransaction, StartFails, Close, SetSavepoint,
                        ReleaseSavepoint, RollbackToSavepoint
    <3>3. CASE Write(c) \/ Publish(c) \/ RunHook(c) \/ Drop(c)
      BY <3>1, <3>3 DEF Write, Publish, RunHook, Drop
    <3>4. CASE BodyReturns(c) \/ (\E e \in Errors : BodyThrows(c, e)) \/ CommitImpossible(c)
               \/ CommitFails(c) \/ RollbackFails(c) \/ HookThrows(c) \/ Commit(c) \/ Rollback(c)
      BY <1>1, <2>2, <3>4 DEF BodyReturns, BodyThrows, CommitImpossible, CommitFails, RollbackFails,
                        HookThrows, Raise, Commit, Rollback
    <3> QED BY <1>4, <3>2, <3>3, <3>4 DEF CallStep, Step
  <2>4. ~Hosting(c)
    BY <2>3 DEF PhaseEnds, Hosting, Listening, Phases
  <2> QED BY <2>1, <2>2, <2>4 DEF TreeInv, CallTree, CallOf
<1> QED BY <1>3, <1>4

LEMMA AbortedStep ==
  ASSUME TransactionInv, AbortedPlaces, NEW c \in Calls, CallStep(c)
  PROVE  AbortedPlaces'
<1> USE Functions
<1>1. TypeOK /\ StageOf(c)
  BY DEF TransactionInv, Stages
<1> SUFFICES ASSUME client'[c] = "aborted"
             PROVE  /\ pc'[c] \in {"AFTER_ROLLBACK", "AFTER_COMPLETION", "closing", "threw"}
                    /\ error'[c] # "none"
  <2>1. \A d \in Calls \ {c} : client'[d] = client[d] /\ pc'[d] = pc[d] /\ error'[d] = error[d]
    BY <1>1, Local
  <2> QED BY <2>1 DEF AbortedPlaces
<1>2. CASE Rollback(c)
  BY <1>1, <1>2 DEF Rollback, StageOf
<1>3. CASE ~Rollback(c)
  <2>1. client[c] = "aborted" /\ ~StartTransaction(c) /\ ~Commit(c)
    <3>1. CASE StartTransaction(c) \/ Commit(c) \/ CommitFails(c) \/ CommitImpossible(c)
      BY <1>1, <3>1 DEF StartTransaction, Commit, CommitFails, CommitImpossible
    <3>2. CASE ~(StartTransaction(c) \/ Commit(c) \/ CommitFails(c) \/ CommitImpossible(c))
      <4>1. client' = client
        BY <1>3, <3>2 DEF CallStep, Step, Execute, Connect, ConnectFails, StartFails, Close,
               Drop, SetSavepoint, ReleaseSavepoint, RollbackToSavepoint, Write, Publish, BodyReturns,
               BodyThrows, RollbackFails, HookThrows, RunHook, PhaseEnds, dbVars
      <4> QED BY <3>2, <4>1
    <3> QED BY <3>1, <3>2
  <2>2. pc[c] \in {"AFTER_ROLLBACK", "AFTER_COMPLETION", "closing", "threw"} /\ error[c] # "none"
    BY <2>1 DEF AbortedPlaces
  <2>3. Close(c) \/ RunHook(c) \/ HookThrows(c) \/ PhaseEnds(c) \/ Drop(c)
    BY <1>3, <2>1, <2>2 DEF CallStep, Step, Execute, Callable, Connect, ConnectFails, StartFails,
           SetSavepoint, ReleaseSavepoint, RollbackToSavepoint, Write, Publish, InBody, BodyReturns,
           BodyThrows, CommitImpossible, CommitFails, RollbackFails
  <2>4. CASE Close(c)
    BY <1>1, <2>2, <2>4 DEF Close
  <2>5. CASE RunHook(c) \/ Drop(c)
    BY <2>2, <2>5 DEF RunHook, Drop
  <2>6. CASE HookThrows(c)
    BY <1>1, <2>2, <2>6 DEF HookThrows, Raise
  <2>7. CASE PhaseEnds(c)
    BY <1>1, <2>2, <2>7 DEF PhaseEnds, AfterPhase, Phases
  <2> QED BY <2>3, <2>4, <2>5, <2>6, <2>7
<1> QED BY <1>2, <1>3

LEMMA PublishDone ==
  ASSUME TypeOK, NEW c \in Calls, Publish(c)
  PROVE  "publish" \in did'[c]
<1>1. did \in [Calls -> SUBSET {"write", "publish"}]
  BY DEF TypeOK
<1>2. did' = [did EXCEPT ![c] = @ \union {"publish"}]
  BY DEF Publish
<1> QED BY <1>1, <1>2

LEMMA NotDelivered ==
  ASSUME TypeOK, NEW d \in Calls, RunHook(d), NEW k \in Calls, NEW p \in Phases,
         Entries(d, k, p) = {}, delivered[k][p] = 0
  PROVE  delivered'[k][p] = 0
<1>1. delivered'[k][p] = IF p = pc[d] /\ at[d] \in Entries(d, k, p)
                         THEN delivered[k][p] + 1 ELSE delivered[k][p]
  BY HookDelivers
<1> QED BY <1>1

LEMMA PublishedStep ==
  ASSUME TreeInv, Published, NEW c \in Calls, CallStep(c)
  PROVE  Published'
<1> SUFFICES ASSUME NEW k \in Calls PROVE PublishedOf(k)'
  BY DEF Published
<1> USE Functions
<1>1. TransactionInv /\ TypeOK /\ Contexts /\ PublishedOf(k)
  BY DEF TreeInv, TransactionInv, Published
<1>2. CASE Publish(c) /\ k = c
  <2>1. PICK d \in Calls : d = tx[c]
    BY <1>1, <1>2, Registered
  <2>2. "publish" \notin did[c] /\ pc[c] = "body" /\ tx' = tx /\ pc' = pc
    BY <1>2 DEF Publish, InBody
  <2>3. "publish" \in did'[c]
    BY <1>1, <1>2, PublishDone
  <2>4. \A p \in Phases : Cardinality(Entries(d, c, p)') = Cardinality(ListenersOf(c, p))
    <3>1. \A p \in Phases : Entries(d, c, p) = {}
      BY <1>1, <1>2, <2>2 DEF PublishedOf
    <3>2. \A p \in Phases : Entries(d, c, p) = {} =>
            Cardinality(Entries(d, c, p)') = Cardinality(ListenersOf(c, p))
      BY <1>1, <1>2, <2>1, PublishRegisters
    <3> QED BY <3>1, <3>2
  <2>5. \A p \in Phases : Entries(d, c, p)' = Entries(tx[c], c, p)'
    BY <2>1, <2>2 DEF Entries
  <2> QED BY <1>2, <2>2, <2>3, <2>4, <2>5 DEF PublishedOf
<1>3. CASE ~(Publish(c) /\ k = c)
  <2>1. "publish" \in did'[k] <=> "publish" \in did[k]
    BY <1>1, <1>3, DidKept
  <2>2. \A d \in Calls, p \in Phases : Entries(d, k, p)' = Entries(d, k, p)
    <3>1. CASE Publish(c)
      <4>1. PICK d \in Calls : d = tx[c]
        BY <1>1, <3>1, Registered
      <4>2. k # c
        BY <1>3, <3>1
      <4>3. \A x, l \in Calls, p \in Phases :
              l # c \/ x # d => Entries(x, l, p)' = Entries(x, l, p)
        BY <1>1, <3>1, <4>1, PublishRegisters
      <4> QED BY <4>2, <4>3
    <3>2. CASE ~Publish(c)
      <4>1. syncs' = syncs
        BY <3>2, SyncsKept
      <4> QED BY <4>1 DEF Entries
    <3> QED BY <3>1, <3>2
  <2>3. ASSUME "publish" \notin did[k], NEW p \in Phases
        PROVE  delivered'[k][p] = 0
    <3>1. Entries(c, k, p) = {} /\ delivered[k][p] = 0
      BY <1>1, <2>3 DEF PublishedOf
    <3>2. CASE RunHook(c)
      BY <1>1, <3>1, <3>2, NotDelivered
    <3>3. CASE ~RunHook(c)
      BY <3>1, <3>3, DeliveredKept
    <3> QED BY <3>2, <3>3
  <2>4. ASSUME "publish" \in did[k]
        PROVE  pc'[k] # "idle" /\ tx'[k] = tx[k] /\ tx[k] \in Calls
    <3>1. pc[k] # "idle"
      BY <1>1, <2>4 DEF PublishedOf
    <3>2. tx[k] \in Calls
      <4>1. tx[k] # NoCall
        BY <1>1, <3>1 DEF Contexts, ContextOf
      <4> QED BY <1>1, <4>1
    <3>3. CASE k # c
      BY <1>1, <3>1, <3>2, <3>3, Local
    <3>4. CASE k = c
      <4>1. ~Execute(c)
        BY <1>1, <3>1, <3>4, Begins
      <4> QED BY <1>1, <3>1, <3>2, <3>4, <4>1, Onward
    <3> QED BY <3>3, <3>4
  <2>5. ASSUME "publish" \in did[k], NEW p \in Phases
        PROVE  Entries(tx[k], k, p)' = Entries(tx[k], k, p)
    <3>1. PICK d \in Calls : d = tx[k] /\ d = tx'[k]
      BY <2>4, <2>5
    <3>2. Entries(d, k, p)' = Entries(tx[k], k, p)'
      BY <3>1 DEF Entries
    <3> QED BY <2>2, <3>1, <3>2
  <2>6. ASSUME "publish" \in did[k]
        PROVE  \A p \in Phases : Cardinality(Entries(tx[k], k, p)') = Cardinality(ListenersOf(k, p))
    BY <1>1, <2>5, <2>6 DEF PublishedOf
  <2>7. ASSUME "publish" \notin did[k]
        PROVE  \A d \in Calls, p \in Phases : Entries(d, k, p)' = {}
    BY <1>1, <2>2, <2>7 DEF PublishedOf
  <2>8. CASE "publish" \in did[k]
    <3>1. "publish" \in did'[k]
      BY <2>1, <2>8
    <3> QED BY <2>4, <2>6, <2>8, <3>1 DEF PublishedOf
  <2>9. CASE "publish" \notin did[k]
    <3>1. "publish" \notin did'[k]
      BY <2>1, <2>9
    <3> QED BY <2>3, <2>7, <2>9, <3>1 DEF PublishedOf
  <2> QED BY <2>8, <2>9
<1> QED BY <1>2, <1>3

(* Nothing changes for k in d. *)
LEMMA SameDelivery ==
  ASSUME NEW d \in Calls, NEW k \in Calls, DeliveryOf(d, k),
         pc'[d] = pc[d], error'[d] = error[d], client'[d] = client[d], at'[d] = at[d],
         \A p \in Phases : delivered'[k][p] = delivered[k][p],
         \A p \in Phases : Passed(d, k, p)' = Passed(d, k, p),
         \/ pc[d] \notin {"AFTER_COMPLETION", "closing"} \union Over
         \/ \A p \in Phases : Entries(d, k, p)' = Entries(d, k, p)
  PROVE  DeliveryOf(d, k)'
<1> DEFINE late == {"AFTER_COMPLETION", "closing"} \union Over
<1>1. Outcome(d)' = Outcome(d) /\ Outcome(d) \in Phases /\ EndPhases \subseteq Phases
  BY DEF Outcome, EndPhases, Phases
<1>2. \A p \in Phases : ToldSome(d, k, p)' <=> ToldSome(d, k, p)
  BY DEF ToldSome
<1>3. pc[d] \in late => \A p \in Phases : ToldAll(d, k, p)' <=> ToldAll(d, k, p)
  BY DEF ToldAll
<1>5. CASE pc[d] \in late
  <2>1. ToldAll(d, k, "AFTER_COMPLETION")' <=> ToldAll(d, k, "AFTER_COMPLETION")
    BY <1>3, <1>5 DEF Phases
  <2>2. PICK o \in Phases : o = Outcome(d) /\ o = Outcome(d)'
    BY <1>1
  <2>3. ToldAll(d, k, o)' <=> ToldAll(d, k, o)
    BY <1>3, <1>5
  <2>4. ToldAll(d, k, Outcome(d))' <=> ToldAll(d, k, Outcome(d))
    BY <2>2, <2>3 DEF ToldAll
  <2> QED BY <1>2, <1>5, <2>1, <2>4 DEF DeliveryOf, EndPhases, Phases, Over
<1>6. CASE pc[d] \notin late
  BY <1>1, <1>2, <1>6 DEF DeliveryOf, EndPhases, Phases, ToldSome
<1> QED BY <1>5, <1>6

(* Nobody was told before the first hook. *)
LEMMA NobodyPassed ==
  ASSUME TypeOK, NEW d \in Calls, at[d] = 1, NEW k \in Calls, NEW p \in Phases
  PROVE  Passed(d, k, p) = {} /\ Cardinality(Passed(d, k, p)) = 0
<1>1. DOMAIN syncs[d] = 1..Len(syncs[d]) /\ Len(syncs[d]) \in Nat
  BY EntriesFinite
<1>2. Passed(d, k, p) = {}
  BY <1>1 DEF Passed, Entries
<1> QED BY <1>2, FS_EmptySet

(* Every hook has been passed when none is next. *)
LEMMA AllPassed ==
  ASSUME TypeOK, NEW d \in Calls, at[d] \notin DOMAIN syncs[d], NEW k \in Calls, NEW p \in Phases
  PROVE  Passed(d, k, p) = Entries(d, k, p)
<1>1. DOMAIN syncs[d] = 1..Len(syncs[d]) /\ Len(syncs[d]) \in Nat /\ at[d] \in Nat \ {0}
  BY EntriesFinite
<1>2. \A i \in DOMAIN syncs[d] : i < at[d]
  BY <1>1
<1> QED BY <1>2 DEF Passed, Entries

(* What k was told in d, when another call takes a step. *)
LEMMA DeliveryElsewhere ==
  ASSUME DeliveryInv, Quiet, NEW c \in Calls, CallStep(c), NEW d \in Calls, d # c, NEW k \in Calls,
         tx'[d] = d, tx'[k] = d, error'[d] # "hook"
  PROVE  DeliveryOf(d, k)'
<1>1. TreeInv /\ TransactionInv /\ TypeOK /\ Contexts /\ Published
  BY DEF DeliveryInv, TreeInv, TransactionInv
<1>2. /\ pc'[d] = pc[d] /\ error'[d] = error[d] /\ client'[d] = client[d] /\ tx[d] = d
      /\ at'[d] = at[d]
  BY <1>1, Local, AtKept
<1>3. DeliveryOf(d, d)
  BY <1>2 DEF DeliveryInv, Deliveries
<1>4. CASE Execute(c) /\ k = c
  <2>1. pc[c] = "idle"
    BY <1>1, <1>4, Begins
  <2>2. "publish" \notin did[c]
    BY <1>1, <2>1 DEF Published, PublishedOf
  <2>3. \A p \in Phases : Entries(d, c, p) = {} /\ delivered[c][p] = 0
    BY <1>1, <2>2 DEF Published, PublishedOf
  <2>4. syncs' = syncs /\ delivered' = delivered /\ at' = at
    BY <1>4 DEF Execute, hookVars
  <2>5. \A p \in Phases : Entries(d, c, p)' = {} /\ Passed(d, c, p)' = {} /\ delivered'[c][p] = 0
    <3> TAKE p \in Phases
    <3>1. Entries(d, c, p)' = {}
      BY <2>3, <2>4 DEF Entries
    <3> QED BY <2>3, <2>4, <3>1 DEF Passed
  <2>6. \A p \in Phases : ToldAll(d, c, p)' /\ ToldSome(d, c, p)'
    BY <2>5, FS_EmptySet DEF ToldAll, ToldSome
  <2>7. ToldAll(d, c, Outcome(d))'
    <3>1. PICK o \in Phases : o = Outcome(d)'
      BY DEF Outcome, Phases
    <3>2. ToldAll(d, c, o)'
      BY <2>6
    <3> QED BY <3>1, <3>2 DEF ToldAll
  <2>8. Outcome(d)' = Outcome(d)
    BY <1>2 DEF Outcome
  <2> QED BY <1>2, <1>3, <1>4, <2>4, <2>5, <2>6, <2>7, <2>8 DEF DeliveryOf, EndPhases, Phases
<1>5. CASE ~(Execute(c) /\ k = c)
  <2>1. tx[k] = d /\ (Publish(c) => tx' = tx)
    <3>1. CASE k # c
      BY <1>1, <3>1, Local DEF Publish
    <3>2. CASE k = c
      BY <1>1, <1>5, <3>2, Onward
    <3> QED BY <3>1, <3>2
  <2>2. DeliveryOf(d, k)
    BY <1>2, <2>1 DEF DeliveryInv, Deliveries
  <2>3. CASE RunHook(c)
    <3>1. syncs' = syncs
      BY <2>3 DEF RunHook
    <3>2. \A p \in Phases : Entries(d, k, p)' = Entries(d, k, p) /\ Passed(d, k, p)' = Passed(d, k, p)
      BY <1>2, <3>1 DEF Entries, Passed
    <3>3. \A p \in Phases : at[c] \notin Entries(c, k, p)
      BY <1>1, <2>1 DEF Contexts, Entries
    <3>4. \A p \in Phases : delivered'[k][p] = delivered[k][p]
      BY <1>1, <2>3, <3>3, HookDelivers
    <3> QED BY <1>2, <2>2, <3>2, <3>4, SameDelivery
  <2>4. CASE Publish(c)
    <3>1. delivered' = delivered
      BY <2>4 DEF Publish
    <3>2. PICK e \in Calls : e = tx[c]
      BY <1>1, <2>4, Registered
    <3>3. CASE k # c \/ e # d
      <4>1. \A p \in Phases : Entries(d, k, p)' = Entries(d, k, p)
        BY <1>1, <2>4, <3>2, <3>3, PublishRegisters
      <4>2. \A p \in Phases : Passed(d, k, p)' = Passed(d, k, p)
        BY <1>2, <4>1 DEF Passed
      <4> QED BY <1>2, <2>2, <3>1, <4>1, <4>2, SameDelivery
    <3>4. CASE k = c /\ e = d
      <4>1. Active(c) /\ tx[c] = d
        BY <2>4, <3>2, <3>4 DEF Publish, InBody, Active, Over
      <4>2. Hosting(d)
        BY <1>1, <4>1 DEF TreeInv, CallTree, CallOf
      <4>3. pc[d] # "AFTER_COMPLETION"
        BY <4>1 DEF DeliveryInv, NoneLate
      <4>4. pc[d] \notin {"AFTER_COMPLETION", "closing"} \union Over
        BY <4>2, <4>3 DEF Hosting, Phases, Over
      <4>5. CASE pc[d] \in Phases
        <5>1. at[d] \in DOMAIN syncs[d]
          BY <4>2, <4>5 DEF Hosting, Listening, Phases
        <5>2. \A p \in Phases : Passed(d, k, p)' = Passed(d, k, p)
          BY <1>1, <2>4, <3>2, <5>1, PublishRegisters
        <5> QED BY <1>2, <2>2, <3>1, <4>4, <5>2, SameDelivery
      <4>6. CASE pc[d] = "body"
        BY <1>2, <2>2, <3>1, <4>6 DEF DeliveryOf, EndPhases, Over
      <4> QED BY <4>2, <4>5, <4>6 DEF Hosting
    <3> QED BY <3>3, <3>4
  <2>5. CASE ~RunHook(c) /\ ~Publish(c)
    <3>1. delivered' = delivered /\ syncs' = syncs
      BY <2>5, SyncsKept, DeliveredKept
    <3>2. \A p \in Phases : Entries(d, k, p)' = Entries(d, k, p) /\ Passed(d, k, p)' = Passed(d, k, p)
      BY <1>2, <3>1 DEF Entries, Passed
    <3> QED BY <1>2, <2>2, <3>1, <3>2, SameDelivery
  <2> QED BY <2>3, <2>4, <2>5
<1> QED BY <1>4, <1>5

(* A transaction whose end is ahead, or whose result is an error that it   *)
(* was not rolled back for, has promised nothing.                          *)
LEMMA NothingToldYet ==
  ASSUME NEW d \in Calls, NEW k \in Calls,
         pc[d] \notin EndPhases \union {"closing"} \union Over,
         pc[d] \in {"commit", "rollback"} => at[d] = 1,
         \A p \in EndPhases : delivered[k][p] = 0
  PROVE  DeliveryOf(d, k)
BY DEF DeliveryOf, EndPhases

LEMMA NothingOwed ==
  ASSUME NEW d \in Calls, NEW k \in Calls,
         pc[d] \in {"closing"} \union Over, error[d] # "none", client[d] # "aborted"
  PROVE  DeliveryOf(d, k)
BY DEF DeliveryOf, EndPhases, Over

(* Steps of a transaction outside of the hooks. *)
LEMMA DeliveryOwnPlain ==
  ASSUME DeliveryInv, NEW c \in Calls, CallStep(c), ~Execute(c), tx[c] = c, NEW k \in Calls,
         error[c] # "hook" => DeliveryOf(c, k),
         error'[c] # "hook", ~RunHook(c), ~PhaseEnds(c), ~HookThrows(c)
  PROVE  DeliveryOf(c, k)'
<1> USE Functions
<1>1. TransactionInv /\ TypeOK /\ ContextOf(c) /\ StageOf(c) /\ AbortedPlaces
  BY DEF DeliveryInv, TreeInv, TransactionInv, Contexts, Stages
<1>2. delivered' = delivered
  BY DeliveredKept
<1>3. pc[c] \notin {"savepoint", "releasing", "undoing"}
  BY <1>1 DEF ContextOf
<1>4. ASSUME error[c] # "hook", pc[c] \notin EndPhases \union {"closing"} \union Over
      PROVE  \A p \in EndPhases : delivered[k][p] = 0
  BY <1>4 DEF DeliveryOf
<1>5. pc[c] \in {"idle", "connecting", "starting", "body"} => error[c] = "none"
  BY <1>1 DEF StageOf
<1>6. CASE Connect(c) \/ StartTransaction(c) \/ Write(c) \/ Publish(c) \/ BodyReturns(c)
  <2>1. pc[c] \in {"connecting", "starting", "body"} /\ pc'[c] \in {"starting", "body", "BEFORE_COMMIT"}
    BY <1>1, <1>6 DEF Connect, StartTransaction, Write, Publish, InBody, BodyReturns
  <2>2. \A p \in EndPhases : delivered'[k][p] = 0
    BY <1>2, <1>4, <1>5, <2>1 DEF EndPhases, Over
  <2>3. pc'[c] \notin EndPhases \union {"closing"} \union Over \union {"commit", "rollback"}
    BY <2>1 DEF EndPhases, Over
  <2> QED BY <2>2, <2>3 DEF DeliveryOf, EndPhases
<1>7. CASE ConnectFails(c) \/ StartFails(c)
  <2>1. pc'[c] = "threw" /\ error'[c] = "db" /\ client' = client /\ pc[c] \in {"connecting", "starting"}
    BY <1>1, <1>7 DEF ConnectFails, StartFails, dbVars
  <2>2. client[c] # "aborted"
    BY <1>1, <2>1 DEF AbortedPlaces
  <2> QED BY <2>1, <2>2 DEF DeliveryOf, EndPhases, Over
<1>8. CASE \/ (\E e \in Errors : BodyThrows(c, e))
           \/ CommitImpossible(c) \/ CommitFails(c) \/ RollbackFails(c)
  <2>1. PICK e \in Errors : Raise(c, e)
    BY <1>8 DEF BodyThrows, CommitImpossible, CommitFails, RollbackFails, Errors
  <2>2. pc[c] \in {"body", "commit", "rollback"}
    BY <1>8 DEF BodyThrows, CommitImpossible, CommitFails, RollbackFails
  <2>3. client[c] # "aborted" /\ client'[c] # "aborted"
    <3>1. client[c] # "aborted"
      BY <1>1, <2>2 DEF AbortedPlaces
    <3>2. client' = client \/ client' = [client EXCEPT ![c] = "committed"]
      BY <1>8 DEF BodyThrows, CommitImpossible, CommitFails, RollbackFails, dbVars
    <3> QED BY <1>1, <3>1, <3>2
  <2>4. error'[c] = e /\ e # "none"
    BY <1>1, <2>1 DEF Raise, Errors
  <2>5. CASE error[c] = "none"
    <3>1. pc'[c] \in {"rollback", "commit"} /\ at'[c] = 1
      BY <1>1, <2>1, <2>5 DEF Raise, TypeOK
    <3>2. \A p \in EndPhases : delivered'[k][p] = 0
      BY <1>2, <1>4, <2>2, <2>5 DEF EndPhases, Over
    <3> QED BY <3>1, <3>2 DEF DeliveryOf, EndPhases, Over
  <2>6. CASE error[c] # "none"
    <3>1. pc'[c] = "closing"
      BY <1>1, <2>1, <2>6 DEF Raise
    <3> QED BY <2>3, <2>4, <3>1 DEF DeliveryOf, EndPhases, Over
  <2> QED BY <2>5, <2>6
<1>9. CASE Commit(c) \/ Rollback(c)
  <2>1. /\ pc[c] \in {"commit", "rollback"} /\ error' = error /\ at' = at /\ syncs' = syncs
        /\ \/ pc'[c] = "AFTER_COMMIT" /\ client'[c] = "committed"
           \/ pc'[c] = "AFTER_ROLLBACK" /\ client'[c] = "aborted"
    BY <1>1, <1>9 DEF Commit, Rollback, hookVars
  <2>2. error[c] # "hook" /\ DeliveryOf(c, k)
    BY <2>1
  <2>3. at[c] = 1 /\ \A p \in EndPhases : delivered'[k][p] = 0
    BY <1>2, <2>1, <2>2 DEF DeliveryOf, EndPhases, Over
  <2>4. \A p \in Phases : Cardinality(Passed(c, k, p)') = 0
    <3>1. \A p \in Phases : Passed(c, k, p)' = Passed(c, k, p)
      BY <2>1 DEF Passed, Entries
    <3> QED BY <1>1, <2>3, <3>1, NobodyPassed
  <2>5. \A p \in EndPhases : ToldSome(c, k, p)'
    BY <2>3, <2>4 DEF ToldSome, EndPhases, Phases
  <2>6. pc'[c] = Outcome(c)' /\ pc'[c] \in EndPhases
    BY <2>1 DEF Outcome, EndPhases
  <2>7. ToldSome(c, k, pc[c])'
    <3>1. PICK p \in EndPhases : p = pc'[c]
      BY <2>6
    <3>2. ToldSome(c, k, p)'
      BY <2>5
    <3> QED BY <3>1, <3>2 DEF ToldSome
  <2> QED BY <2>1, <2>3, <2>6, <2>7 DEF DeliveryOf, EndPhases, Over
<1>10. CASE Close(c)
  <2>1. /\ pc[c] = "closing" /\ pc'[c] \in Over /\ error' = error /\ client' = client
        /\ at' = at /\ syncs' = syncs
    BY <1>1, <1>10 DEF Close, Over, hookVars, dbVars
  <2>2. DeliveryOf(c, k)
    BY <2>1
  <2>3. Outcome(c)' = Outcome(c)
    BY <2>1 DEF Outcome
  <2>4. \A p \in Phases : ToldAll(c, k, p)' <=> ToldAll(c, k, p)
    BY <1>2, <2>1 DEF ToldAll, Entries
  <2>5. ToldAll(c, k, Outcome(c))' <=> ToldAll(c, k, Outcome(c))
    BY <1>2, <2>1, <2>3 DEF ToldAll, Entries
  <2> QED BY <2>1, <2>2, <2>3, <2>4, <2>5 DEF DeliveryOf, EndPhases, Phases, Over
<1>11. CASE Drop(c)
  <2>1. /\ pc' = pc /\ error' = error /\ client' = client /\ at' = at /\ syncs' = syncs
    BY <1>11 DEF Drop, hookVars
  <2>2. \A p \in Phases : Entries(c, k, p)' = Entries(c, k, p) /\ Passed(c, k, p)' = Passed(c, k, p)
    BY <2>1 DEF Entries, Passed
  <2>3. DeliveryOf(c, k)
    BY <2>1
  <2> QED BY <1>2, <2>1, <2>2, <2>3, SameDelivery
<1>12. ~SetSavepoint(c) /\ ~ReleaseSavepoint(c) /\ ~RollbackToSavepoint(c)
  BY <1>3 DEF SetSavepoint, ReleaseSavepoint, RollbackToSavepoint
<1> QED BY <1>6, <1>7, <1>8, <1>9, <1>10, <1>11, <1>12 DEF CallStep, Step

(* A hook of d itself ends. *)
LEMMA DeliveryOwnHook ==
  ASSUME TypeOK, NEW c \in Calls, NEW k \in Calls, DeliveryOf(c, k), RunHook(c)
  PROVE  DeliveryOf(c, k)'
<1>1. /\ pc' = pc /\ error' = error /\ client' = client /\ pc[c] \in Phases
      /\ at[c] \in DOMAIN syncs[c]
  BY DEF RunHook, dbVars
<1>2. Outcome(c)' = Outcome(c) /\ Outcome(c) \in Phases \ {"AFTER_COMPLETION"}
  BY <1>1 DEF Outcome, Phases
<1>3. \A p \in Phases : Entries(c, k, p)' = Entries(c, k, p)
  BY HookDelivers
<1>4. \A p \in Phases : p # pc[c] => delivered'[k][p] = delivered[k][p]
  BY HookDelivers
<1>5. ASSUME NEW p \in Phases, p = pc[c], ToldSome(c, k, p)
      PROVE  ToldSome(c, k, p)'
  <2>1. IsFiniteSet(Passed(c, k, p)) /\ at[c] \notin Passed(c, k, p)
    BY EntriesFinite DEF Passed
  <2>2. CASE at[c] \in Entries(c, k, p)
    <3>1. /\ delivered'[k][p] = delivered[k][p] + 1
          /\ Passed(c, k, p)' = Passed(c, k, p) \union {at[c]}
      BY <1>5, <2>2, HookDelivers
    <3>2. Cardinality(Passed(c, k, p) \union {at[c]}) =
            IF at[c] \in Passed(c, k, p) THEN Cardinality(Passed(c, k, p))
            ELSE Cardinality(Passed(c, k, p)) + 1
      BY <2>1, FS_AddElement
    <3> QED BY <1>5, <2>1, <3>1, <3>2 DEF ToldSome
  <2>3. CASE at[c] \notin Entries(c, k, p)
    <3>1. delivered'[k][p] = delivered[k][p] /\ Passed(c, k, p)' = Passed(c, k, p)
      BY <1>5, <2>3, HookDelivers
    <3> QED BY <1>5, <3>1 DEF ToldSome
  <2> QED BY <2>2, <2>3
<1>6. CASE pc[c] = "BEFORE_COMMIT"
  BY <1>1, <1>4, <1>6 DEF DeliveryOf, EndPhases, Phases, Over
<1>7. CASE pc[c] \in {"AFTER_COMMIT", "AFTER_ROLLBACK"}
  <2>1. PICK p \in Phases : p = pc[c]
    BY <1>1
  <2>2. ToldSome(c, k, p) /\ delivered[k]["AFTER_COMPLETION"] = 0 /\ pc[c] = Outcome(c)
    BY <1>7, <2>1 DEF DeliveryOf
  <2>3. ToldSome(c, k, p)'
    BY <1>5, <2>1, <2>2
  <2>4. ToldSome(c, k, pc[c])'
    BY <1>1, <2>1, <2>3 DEF ToldSome
  <2>5. delivered'[k]["AFTER_COMPLETION"] = 0
    BY <1>4, <1>7, <2>2 DEF Phases
  <2> QED BY <1>1, <1>2, <1>7, <2>2, <2>4, <2>5 DEF DeliveryOf, EndPhases, Over
<1>8. CASE pc[c] = "AFTER_COMPLETION"
  <2>1. ToldSome(c, k, "AFTER_COMPLETION") /\ ToldAll(c, k, Outcome(c))
    BY <1>8 DEF DeliveryOf
  <2>2. ToldSome(c, k, "AFTER_COMPLETION")'
    BY <1>5, <1>8, <2>1 DEF Phases
  <2>3. PICK o \in Phases \ {"AFTER_COMPLETION"} : o = Outcome(c) /\ o = Outcome(c)'
    BY <1>2
  <2>4. ToldAll(c, k, o)
    BY <2>1, <2>3
  <2>5. ToldAll(c, k, o)'
    BY <1>3, <1>4, <1>8, <2>3, <2>4 DEF ToldAll
  <2>6. ToldAll(c, k, Outcome(c))'
    BY <2>3, <2>5 DEF ToldAll
  <2> QED BY <1>1, <1>8, <2>2, <2>6 DEF DeliveryOf, EndPhases, Over
<1> QED BY <1>1, <1>6, <1>7, <1>8 DEF Phases

(* The hooks of a phase of d itself are over. *)
LEMMA DeliveryOwnPhase ==
  ASSUME TypeOK, NEW c \in Calls, NEW k \in Calls, DeliveryOf(c, k), PhaseEnds(c)
  PROVE  DeliveryOf(c, k)'
<1>0. \A i \in DOMAIN syncs[c] : ~(i < 1)
  <2>1. DOMAIN syncs[c] = 1..Len(syncs[c]) /\ Len(syncs[c]) \in Nat
    BY EntriesFinite
  <2>2. PICK n \in Nat : n = Len(syncs[c])
    BY <2>1
  <2>3. \A i \in 1..n : ~(i < 1)
    BY <2>2
  <2> QED BY <2>1, <2>2, <2>3
<1> USE Functions
<1>1. /\ pc'[c] = AfterPhase(pc[c]) /\ error' = error /\ client' = client /\ pc[c] \in Phases
      /\ at'[c] = 1 /\ at[c] \notin DOMAIN syncs[c] /\ syncs' = syncs /\ delivered' = delivered
  BY DEF PhaseEnds, dbVars, TypeOK
<1>2. Outcome(c)' = Outcome(c) /\ Outcome(c) \in Phases \ {"AFTER_COMPLETION"}
  BY <1>1 DEF Outcome, Phases
<1>3. \A p \in Phases : Entries(c, k, p)' = Entries(c, k, p) /\ Passed(c, k, p) = Entries(c, k, p)
  <2> TAKE p \in Phases
  <2>1. Entries(c, k, p)' = Entries(c, k, p)
    BY <1>1 DEF Entries
  <2>2. Passed(c, k, p) = Entries(c, k, p)
    BY <1>1, AllPassed
  <2> QED BY <2>1, <2>2
<1>4. \A p \in Phases : Passed(c, k, p)' = {}
  <2> TAKE p \in Phases
  <2>3. DOMAIN syncs'[c] = DOMAIN syncs[c] /\ at'[c] = 1
    BY <1>1
  <2>4. \A i \in Entries(c, k, p)' : ~(i < at'[c])
    BY <1>0, <2>3 DEF Entries
  <2> QED BY <2>4 DEF Passed
<1>5. CASE pc[c] = "BEFORE_COMMIT"
  BY <1>1, <1>5 DEF AfterPhase, DeliveryOf, EndPhases, Phases, Over
<1>6. CASE pc[c] \in {"AFTER_COMMIT", "AFTER_ROLLBACK"}
  <2>1. PICK p \in Phases : p = pc[c]
    BY <1>1
  <2>2. ToldSome(c, k, p) /\ delivered[k]["AFTER_COMPLETION"] = 0 /\ p = Outcome(c)
    BY <1>6, <2>1 DEF DeliveryOf
  <2>3. ToldAll(c, k, p)'
    BY <1>1, <1>3, <2>2 DEF ToldAll, ToldSome
  <2>4. ToldAll(c, k, Outcome(c))'
    BY <1>2, <2>2, <2>3 DEF ToldAll
  <2>5. ToldSome(c, k, "AFTER_COMPLETION")'
    BY <1>1, <1>4, <2>2, FS_EmptySet DEF ToldSome, Phases
  <2>6. pc'[c] = "AFTER_COMPLETION"
    BY <1>1, <1>6 DEF AfterPhase
  <2> QED BY <2>4, <2>5, <2>6 DEF DeliveryOf, EndPhases, Over
<1>7. CASE pc[c] = "AFTER_COMPLETION"
  <2>1. ToldSome(c, k, "AFTER_COMPLETION") /\ ToldAll(c, k, Outcome(c))
    BY <1>7 DEF DeliveryOf
  <2>2. ToldAll(c, k, "AFTER_COMPLETION")'
    BY <1>1, <1>3, <2>1 DEF ToldAll, ToldSome, Phases
  <2>3. PICK o \in Phases : o = Outcome(c) /\ o = Outcome(c)'
    BY <1>2
  <2>4. ToldAll(c, k, o)
    BY <2>1, <2>3
  <2>5. ToldAll(c, k, o)'
    BY <1>1, <1>3, <2>4 DEF ToldAll
  <2>6. ToldAll(c, k, Outcome(c))'
    BY <2>3, <2>5 DEF ToldAll
  <2>7. pc'[c] = "closing"
    BY <1>1, <1>7 DEF AfterPhase
  <2> QED BY <2>2, <2>6, <2>7 DEF DeliveryOf, EndPhases, Over
<1> QED BY <1>1, <1>5, <1>6, <1>7 DEF Phases

(* What k was told in c, when c takes a step. *)
LEMMA DeliveryOwn ==
  ASSUME DeliveryInv, Quiet, NEW c \in Calls, CallStep(c), NEW k \in Calls,
         tx'[c] = c, tx'[k] = c, error'[c] # "hook"
  PROVE  DeliveryOf(c, k)'
<1> USE Functions
<1>1. TransactionInv /\ TypeOK /\ Contexts /\ Published
  BY DEF DeliveryInv, TreeInv, TransactionInv
<1>2. CASE Execute(c)
  <2>1. tx[c] = NoCall /\ pc[c] = "idle" /\ pc'[c] \in {"body", "savepoint", "connecting"}
    BY <1>1, <1>2, Begins
  <2>2. k = c
    <3> SUFFICES ASSUME k # c PROVE FALSE
      OBVIOUS
    <3>1. tx[k] = c
      BY <1>1, Local
    <3>2. tx[k] # NoCall => tx[tx[k]] = tx[k]
      BY <1>1 DEF Contexts
    <3> QED BY <2>1, <3>1, <3>2, TransactionAssumption
  <2>3. \A p \in Phases : delivered[c][p] = 0
    BY <1>1, <2>1 DEF Published, PublishedOf
  <2>4. delivered' = delivered
    BY <1>2 DEF Execute, hookVars
  <2> QED BY <2>1, <2>2, <2>3, <2>4 DEF DeliveryOf, EndPhases, Phases, Over
<1>3. CASE ~Execute(c)
  <2>1. tx[c] = c /\ tx[k] = c
    BY <1>1, <1>3, Onward
  <2>2. error[c] # "hook" => DeliveryOf(c, k)
    BY <2>1 DEF DeliveryInv, Deliveries
  <2>3. CASE RunHook(c)
    <3>1. error' = error
      BY <2>3 DEF RunHook
    <3> QED BY <1>1, <2>2, <2>3, <3>1, DeliveryOwnHook
  <2>4. CASE PhaseEnds(c)
    <3>1. error' = error
      BY <2>4 DEF PhaseEnds
    <3> QED BY <1>1, <2>2, <2>4, <3>1, DeliveryOwnPhase
  <2>5. ~HookThrows(c)
    BY <1>1 DEF HookThrows, Raise
  <2> QED BY <1>3, <2>1, <2>2, <2>3, <2>4, <2>5, DeliveryOwnPlain
<1> QED BY <1>2, <1>3

LEMMA DeliveryInductive == DeliveryInv /\ [Next]_vars => DeliveryInv'
<1> SUFFICES ASSUME DeliveryInv, [Next]_vars PROVE DeliveryInv'
  OBVIOUS
<1>1. TreeInv /\ NoneLate /\ AbortedPlaces /\ Published /\ TransactionInv /\ TypeOK
  BY DEF DeliveryInv, TreeInv, TransactionInv
<1>2. TreeInv'
  BY <1>1, TreeInductive
<1>3. CASE UNCHANGED vars
  <2>1. NoneLate' /\ AbortedPlaces'
    BY <1>1, <1>3 DEF vars, dbVars, NoneLate, AbortedPlaces, Quiet, Active
  <2>2. Published'
    BY <1>1, <1>3 DEF vars, hookVars, Published, PublishedOf, Entries
  <2>3. Deliveries'
    <3>1. UNCHANGED <<options, pc, tx, error, client, syncs, at, delivered>>
      BY <1>3 DEF vars, dbVars, hookVars
    <3>2. \A d, k, p : (ToldSome(d, k, p)' <=> ToldSome(d, k, p)) /\ (ToldAll(d, k, p)' <=> ToldAll(d, k, p))
      BY <3>1 DEF ToldSome, ToldAll, Passed, Entries
    <3>3. \A d, k : DeliveryOf(d, k)' <=> DeliveryOf(d, k)
      <4> TAKE d, k
      <4>1. Outcome(d)' = Outcome(d)
        BY <3>1 DEF Outcome
      <4>2. /\ ToldSome(d, k, pc[d])' <=> ToldSome(d, k, pc[d])
            /\ ToldAll(d, k, Outcome(d))' <=> ToldAll(d, k, Outcome(d))
        BY <3>1, <4>1 DEF ToldSome, ToldAll, Passed, Entries
      <4> QED BY <3>1, <3>2, <4>1, <4>2 DEF DeliveryOf
    <3> QED BY <3>1, <3>3 DEF DeliveryInv, Deliveries, Quiet
  <2> QED BY <1>2, <2>1, <2>2, <2>3 DEF DeliveryInv
<1>4. ASSUME NEW c \in Calls, CallStep(c)
      PROVE  DeliveryInv'
  <2>1. NoneLate' /\ AbortedPlaces' /\ Published'
    BY <1>1, <1>4, NoneLateStep, AbortedStep, PublishedStep
  <2>2. Quiet' => Quiet
    BY <1>1, <1>4, Local DEF Quiet
  <2>3. Deliveries'
    <3> SUFFICES ASSUME Quiet, NEW d \in Calls, NEW k \in Calls,
                        tx'[d] = d, tx'[k] = d, error'[d] # "hook"
                 PROVE  DeliveryOf(d, k)'
      BY <2>2 DEF Deliveries
    <3> QED BY <1>4, DeliveryElsewhere, DeliveryOwn
  <2> QED BY <1>2, <2>1, <2>3 DEF DeliveryInv
<1> QED BY <1>3, <1>4 DEF Next, Finished, CallStep

LEMMA DeliveryInit == Init => DeliveryInv
<1> SUFFICES ASSUME Init PROVE DeliveryInv
  OBVIOUS
<1>1. TreeInv
  BY TreeInit
<1>2. NoneLate /\ AbortedPlaces
  BY DEF Init, NoneLate, AbortedPlaces
<1>3. Published
  BY DEF Init, Published, PublishedOf, Entries
<1>4. Deliveries
  BY TransactionAssumption DEF Init, Deliveries
<1> QED BY <1>1, <1>2, <1>3, <1>4 DEF DeliveryInv

(* A transaction that has ended has delivered what it owed. *)
LEMMA DeliveryEnds == DeliveryInv => (Quiet => DeliveredOnce)
<1> SUFFICES ASSUME DeliveryInv, Quiet, NEW d \in Calls, tx[d] = d, error[d] # "hook",
                    pc[d] = "returned" \/ (pc[d] = "threw" /\ client[d] = "aborted"),
                    NEW i \in DOMAIN syncs[d],
                    syncs[d][i].phase \in {"AFTER_COMPLETION",
                      IF pc[d] = "returned" THEN "AFTER_COMMIT" ELSE "AFTER_ROLLBACK"}
             PROVE  delivered[syncs[d][i].call][syncs[d][i].phase] =
                      Cardinality(ListenersOf(syncs[d][i].call, syncs[d][i].phase))
  BY DEF DeliveredOnce
<1>1. TypeOK /\ Contexts /\ Published /\ AbortedPlaces /\ Results
  BY DEF DeliveryInv, TreeInv, TransactionInv
<1>2. PICK k \in Calls : k = syncs[d][i].call
  <2>1. syncs[d] \in Seq([call : Calls, phase : Phases \union {"hook"}])
        /\ DOMAIN syncs[d] = 1..Len(syncs[d])
    BY <1>1, EntriesFinite
  <2>2. syncs[d][i] \in [call : Calls, phase : Phases \union {"hook"}]
    BY <2>1, Elements
  <2> QED BY <2>2
<1>3. tx[k] = d
  BY <1>1, <1>2 DEF Contexts
<1>4. PICK p \in Phases : p = syncs[d][i].phase
  BY DEF Phases
<1>5. i \in Entries(d, k, p)
  BY <1>2, <1>4 DEF Entries
<1>6. "publish" \in did[k]
  BY <1>1, <1>5 DEF Published, PublishedOf
<1>7. Cardinality(Entries(d, k, p)) = Cardinality(ListenersOf(k, p))
  BY <1>1, <1>3, <1>6 DEF Published, PublishedOf
<1>8. DeliveryOf(d, k)
  BY <1>3 DEF DeliveryInv, Deliveries
<1>9. /\ error[d] = "none" \/ client[d] = "aborted"
      /\ Outcome(d) = IF pc[d] = "returned" THEN "AFTER_COMMIT" ELSE "AFTER_ROLLBACK"
  <2>1. pc[d] = "returned" => client[d] # "aborted"
    BY <1>1 DEF AbortedPlaces
  <2>2. pc[d] = "returned" => error[d] = "none"
    BY <1>1 DEF Results, ResultOf
  <2> QED BY <2>1, <2>2 DEF Outcome
<1>10. ToldAll(d, k, "AFTER_COMPLETION") /\ ToldAll(d, k, Outcome(d))
  BY <1>8, <1>9 DEF DeliveryOf, Over
<1>11. ToldAll(d, k, p)
  BY <1>4, <1>9, <1>10
<1> QED BY <1>2, <1>4, <1>7, <1>11 DEF ToldAll

(* DeliveredOnce: if no listener of AFTER_COMPLETION makes transactional   *)
(* calls, whose events would join a context that has no phase left for     *)
(* them, every event has reached each listener of the phases that the      *)
(* outcome of its transaction calls for exactly once.                      *)
THEOREM EventsAreDelivered == Spec => [](Quiet => DeliveredOnce)
<1>1. Spec => []DeliveryInv
  BY DeliveryInit, DeliveryInductive, PTL DEF Spec
<1> QED BY <1>1, DeliveryEnds, PTL

-----------------------------------------------------------------------------
(* Atomicity, when a callback makes its calls one after the other.         *)

Sup(c) == {c} \union Callers[c]

(* c and every call that it is made in are made in callbacks. *)
BodyOnly(c) == \A k \in Sup(c) : options[k].during = "body"

(* What such a call has joined is in its callback. *)
InBodyOf(k) == Active(k) /\ tx[k] # k /\ BodyOnly(k) => pc[tx[k]] = "body"

Joined == \A k \in Calls : InBodyOf(k)

(* The calls that go on in a transaction are made in each other. *)
Chain == \A k, c \in Calls :
  Active(k) /\ Active(c) /\ tx[k] = tx[c] => k \in Sup(c) \/ c \in Sup(k)

(* Who has written, and who has been undone. *)
Writers ==
  /\ \A c \in Calls : "write" \in did[c] => Entered(c)
  /\ \A c \in undone : pc[c] \in Over
  /\ \A c \in persisted : "write" \in did[c]
  /\ \A d \in Calls : \A j \in DOMAIN log[d] : tx[log[d][j]] = d /\ "write" \in did[log[d][j]]

(* k's savepoint, which is m long, parts the log of d: nothing before it   *)
(* was written by k or by calls made in k, and while k goes on everything  *)
(* after it is.                                                            *)
Parts(d, k, m) ==
  /\ tx[k] = d
  /\ \A j \in DOMAIN log[d] : j <= m => k \notin Sup(log[d][j])
  /\ Active(k) => \A j \in DOMAIN log[d] : j > m => k \in Sup(log[d][j])

Savepoints == \A d \in Calls : \A i \in DOMAIN savepoints[d] :
  Parts(d, savepoints[d][i].call, savepoints[d][i].mark)

(* Where the write of c is, while its transaction d goes on and after. *)
WrittenIn(c, d) ==
  /\ db[d] # "none"
  /\ db[d] # "committed" => c \notin persisted
  /\ db[d] = "active" => (c \in Writes(d) <=> ~Undone(c))
  /\ db[d] = "committed" => (c \in persisted <=> ~Undone(c))

Written == \A c, d \in Calls :
  "write" \in did[c] /\ BodyOnly(c) /\ tx[c] = d => WrittenIn(c, d)

AtomicInv == TreeInv /\ Joined /\ Chain /\ Writers /\ Savepoints /\ Written

(* Whoever a call that goes on is made in awaits a call. *)
LEMMA AncestorsBusy ==
  ASSUME TreeInv, NEW k \in Calls, Active(k)
  PROVE  \A c \in Callers[k] : c \in Calls /\ Busy(c) /\ Active(c)
<1> DEFINE S == {c \in Calls : Busy(c)}
<1>1. \A x \in S : Active(x)
  <2> TAKE x \in S
  <2>1. PICK y \in Calls : Caller[y] = x /\ Active(y)
    BY DEF Busy, Active
  <2>2. Caller[y] # NoCall
    BY <2>1, TransactionAssumption
  <2>3. Hosting(x)
    BY <2>1, <2>2 DEF TreeInv, CallTree, CallOf
  <2> QED BY <2>3 DEF Hosting, Active, Phases, Over
<1>2. \A x \in Calls : Active(x) => Caller[x] \in S \union {NoCall}
  BY TransactionAssumption DEF Busy, Active
<1>3. \A x \in S \union {k} : Caller[x] \in S \union {NoCall}
  BY <1>1, <1>2
<1>4. S \in SUBSET Calls
  OBVIOUS
<1> HIDE DEF S
<1>5. Callers[k] \subseteq S
  BY <1>3, <1>4, CallersLeast
<1> QED BY <1>1, <1>5 DEF S

(* The callback of whoever a call is made in has been called. *)
LEMMA AncestorsEntered ==
  ASSUME TreeInv, NEW k \in Calls, pc[k] # "idle"
  PROVE  \A c \in Callers[k] : c \in Calls /\ Entered(c)
<1> DEFINE S == {c \in Calls : Entered(c)}
<1>1. \A x \in Calls : pc[x] # "idle" => Caller[x] \in S \union {NoCall}
  BY TransactionAssumption DEF TreeInv, CallTree, CallOf
<1>2. \A x \in S \union {k} : Caller[x] \in S \union {NoCall}
  BY <1>1 DEF Entered
<1>3. S \in SUBSET Calls
  OBVIOUS
<1> HIDE DEF S
<1>4. Callers[k] \subseteq S
  BY <1>2, <1>3, CallersLeast
<1> QED BY <1>4 DEF S

LEMMA NotUndone ==
  ASSUME TreeInv, Writers, NEW k \in Calls, Active(k)
  PROVE  ~Undone(k)
<1>1. \A c \in {k} \union Callers[k] : Active(c)
  BY AncestorsBusy
<1>2. \A c \in undone : ~Active(c)
  BY DEF Writers, Active
<1> QED BY <1>1, <1>2 DEF Undone

(* What a step does to a call that has begun. *)
LEMMA Steady ==
  ASSUME TransactionInv, NEW c \in Calls, CallStep(c), NEW k \in Calls
  PROVE  /\ tx[k] # NoCall => tx'[k] = tx[k] /\ ~(Execute(c) /\ k = c)
         /\ Entered(k) => Entered(k)'
         /\ Active(k)' /\ ~(Execute(c) /\ k = c) => Active(k) /\ tx'[k] = tx[k]
         /\ pc[k] \in Over => pc'[k] \in Over
<1> USE Functions
<1>1. TypeOK
  BY DEF TransactionInv
<1>2. CASE k # c
  <2>1. pc'[k] = pc[k] /\ tx'[k] = tx[k]
    BY <1>1, <1>2, Local
  <2> QED BY <1>2, <2>1 DEF Entered, Active
<1>3. CASE k = c /\ Execute(c)
  <2>1. pc[c] = "idle" /\ tx[c] = NoCall
    BY <1>1, <1>3, Begins
  <2> QED BY <1>3, <2>1 DEF Entered, Over
<1>4. CASE k = c /\ ~Execute(c)
  <2>1. /\ pc[c] # "idle" /\ pc'[c] # "idle" /\ tx' = tx
        /\ Entered(c) => Entered(c)'
        /\ Active(c)' => Active(c)
    BY <1>1, <1>4, Onward
  <2>2. pc[c] \in Over => pc'[c] \in Over
    BY <2>1 DEF Active, Over
  <2> QED BY <1>4, <2>1, <2>2
<1> QED BY <1>2, <1>3, <1>4

(* The data that a step leaves alone. *)
LEMMA DataKept ==
  ASSUME NEW c \in Calls, CallStep(c)
  PROVE  /\ Write(c) \/ Publish(c) \/ did' = did
         /\ Write(c) \/ RollbackToSavepoint(c) \/ log' = log
         /\ RollbackToSavepoint(c) \/ undone' = undone
         /\ SetSavepoint(c) \/ ReleaseSavepoint(c) \/ RollbackToSavepoint(c) \/ savepoints' = savepoints
         /\ Write(c) \/ Commit(c) \/ CommitFails(c) \/ persisted' = persisted
         /\ \/ StartTransaction(c) \/ Commit(c) \/ CommitFails(c) \/ Rollback(c) \/ Drop(c)
            \/ db' = db
<1>1. CASE Execute(c) \/ Connect(c) \/ ConnectFails(c) \/ StartTransaction(c) \/ StartFails(c)
           \/ Close(c) \/ Drop(c)
  BY <1>1 DEF Execute, Connect, ConnectFails, StartTransaction, StartFails, Close, Drop, dbVars
<1>2. CASE SetSavepoint(c) \/ ReleaseSavepoint(c) \/ RollbackToSavepoint(c) \/ Write(c) \/ Publish(c)
  BY <1>2 DEF SetSavepoint, ReleaseSavepoint, RollbackToSavepoint, Write, Publish, dbVars
<1>3. CASE BodyReturns(c) \/ (\E e \in Errors : BodyThrows(c, e)) \/ CommitImpossible(c)
           \/ RollbackFails(c) \/ HookThrows(c)
  BY <1>3 DEF BodyReturns, BodyThrows, CommitImpossible, RollbackFails, HookThrows, dbVars
<1>4. CASE Commit(c) \/ CommitFails(c)
  BY <1>4 DEF Commit, CommitFails
<1>5. CASE Rollback(c) \/ RunHook(c) \/ PhaseEnds(c)
  BY <1>5 DEF Rollback, RunHook, PhaseEnds, dbVars
<1> QED BY <1>1, <1>2, <1>3, <1>4, <1>5 DEF CallStep, Step

LEMMA ChainStep ==
  ASSUME TreeInv, Chain, ~Concurrent, NEW c \in Calls, CallStep(c)
  PROVE  Chain'
<1>1. TransactionInv /\ TypeOK /\ Contexts
  BY DEF TreeInv, TransactionInv
<1>2. CASE ~Execute(c)
  BY <1>1, <1>2, Steady DEF Chain, Sup
<1>3. CASE Execute(c)
  <2>1. PICK d \in Calls : d = tx'[c]
    BY <1>1, <1>3, Begins
  <2>2. tx[c] = NoCall
    BY <1>1, <1>3, Begins
  <2>3. ASSUME NEW k \in Calls, k # c, Active(k)', tx'[k] = d
        PROVE  k \in Sup(c)
    <3>1. Active(k) /\ tx[k] = d
      BY <1>1, <2>3, Steady
    <3>2. tx[d] = d /\ d # c
      BY <1>1, <2>2, <3>1, TransactionAssumption DEF Contexts
    <3>3. Caller[c] # NoCall /\ Caller[c] \in Calls /\ Hosting(Caller[c]) /\ tx[Caller[c]] = d
          /\ ~Busy(Caller[c])
      BY <1>1, <1>3, <2>1, <3>2, Begins
    <3>4. Active(Caller[c])
      BY <3>3 DEF Hosting, Active, Phases, Over
    <3>5. Caller[c] \in Sup(k) \/ k \in Sup(Caller[c])
      BY <3>1, <3>3, <3>4 DEF Chain
    <3>6. Caller[c] \notin Callers[k]
      BY <3>1, <3>3, AncestorsBusy
    <3>7. Callers[c] = {Caller[c]} \union Callers[Caller[c]]
      BY <3>3, CallersOfCaller
    <3> QED BY <3>5, <3>6, <3>7 DEF Sup
  <2> SUFFICES ASSUME NEW k \in Calls, NEW x \in Calls, Active(k)', Active(x)', tx'[k] = tx'[x]
               PROVE  k \in Sup(x) \/ x \in Sup(k)
    BY DEF Chain, Sup
  <2>4. CASE k = c \/ x = c
    BY <2>1, <2>3, <2>4 DEF Sup
  <2>5. CASE k # c /\ x # c
    <3>1. Active(k) /\ Active(x) /\ tx[k] = tx[x]
      BY <1>1, <2>5, Steady
    <3> QED BY <3>1 DEF Chain
  <2> QED BY <2>4, <2>5
<1> QED BY <1>2, <1>3

LEMMA JoinedStep ==
  ASSUME TreeInv, Joined, NEW c \in Calls, CallStep(c)
  PROVE  Joined'
<1> SUFFICES ASSUME NEW k \in Calls, Active(k)', tx'[k] # k, BodyOnly(k)'
             PROVE  pc'[tx'[k]] = "body"
  BY DEF Joined, InBodyOf
<1> USE Functions
<1>1. TransactionInv /\ TypeOK /\ Contexts /\ options' = options
  BY Local DEF TreeInv, TransactionInv
<1>2. BodyOnly(k)
  BY <1>1 DEF BodyOnly, Sup
<1>3. CASE Execute(c) /\ k = c
  <2>1. PICK d \in Calls : d = tx'[c] /\ d # c
    BY <1>1, <1>3, Begins
  <2>2. Caller[c] # NoCall /\ Caller[c] \in Calls \ {c} /\ Hosting(Caller[c]) /\ tx[Caller[c]] = d
        /\ pc[Caller[c]] = options[c].during
    BY <1>1, <1>3, <2>1, Begins
  <2>3. options[c].during = "body"
    BY <1>2, <1>3 DEF BodyOnly, Sup
  <2>4. PICK p \in Calls : p = Caller[c]
    BY <2>2
  <2>5. pc[p] = "body" /\ tx[p] = d
    BY <2>2, <2>3, <2>4
  <2>6. BodyOnly(p)
    <3>1. Callers[c] = {p} \union Callers[p]
      BY <2>2, <2>4, CallersOfCaller
    <3> QED BY <1>2, <1>3, <3>1 DEF BodyOnly, Sup
  <2>7. pc[d] = "body"
    BY <2>5, <2>6 DEF Joined, InBodyOf, Active, Over
  <2>8. pc'[d] = "body"
    <3>1. pc'[d] = pc[d]
      BY <1>1, <2>1, Local
    <3> QED BY <2>7, <3>1
  <2> QED BY <1>3, <2>1, <2>8
<1>4. CASE ~(Execute(c) /\ k = c)
  <2>1. Active(k) /\ tx'[k] = tx[k]
    BY <1>1, <1>4, Steady
  <2>2. PICK d \in Calls : d = tx[k]
    <3>1. tx[k] # NoCall
      BY <1>1, <2>1 DEF Contexts, ContextOf, Active
    <3> QED BY <1>1, <3>1
  <2>3. pc[d] = "body"
    BY <1>2, <2>1, <2>2 DEF Joined, InBodyOf
  <2>4. CASE d # c
    <3>1. pc'[d] = pc[d]
      BY <1>1, <2>4, Local
    <3> QED BY <2>1, <2>2, <2>3, <3>1
  <2>5. CASE d = c
    <3>1. Busy(d)
      BY <2>1, <2>2, AloneInTransaction
    <3>2. Hosting(d)
      BY <2>3 DEF Hosting
    <3>3. Hosting(d)'
      BY <1>1, <2>5, <3>1, <3>2, Waits
    <3>4. pc'[c] = "body"
      <4>1. ~BodyReturns(c) /\ ~(\E e \in Errors : BodyThrows(c, e))
        BY <2>5, <3>1 DEF BodyReturns, BodyThrows
      <4>2. Write(c) \/ Publish(c) \/ Drop(c)
        BY <2>3, <2>5, <4>1 DEF CallStep, Step, Execute, Callable, Connect, ConnectFails,
          StartTransaction, StartFails, SetSavepoint, ReleaseSavepoint, RollbackToSavepoint,
          Commit, CommitImpossible, CommitFails, Rollback, RollbackFails, Close, RunHook, HookThrows,
          PhaseEnds, Phases
      <4> QED BY <2>3, <2>5, <4>2 DEF Write, Publish, Drop
    <3> QED BY <2>1, <2>2, <2>5, <3>4
  <2> QED BY <2>4, <2>5
<1> QED BY <1>3, <1>4

LEMMA Appended ==
  ASSUME NEW S, NEW s \in Seq(S), NEW e \in S
  PROVE  /\ Len(s) \in Nat /\ DOMAIN s = 1..Len(s)
         /\ DOMAIN Append(s, e) = 1..(Len(s) + 1)
         /\ Append(s, e)[Len(s) + 1] = e
         /\ \A i \in 1..Len(s) : Append(s, e)[i] = s[i]
OBVIOUS

(* A successful ROLLBACK TO SAVEPOINT cuts the log at c's savepoint.       *)
LEMMA LogCut ==
  ASSUME TypeOK, MarksInLog, Contexts, NEW c \in Calls, RollbackToSavepoint(c),
         NEW d \in Calls, d = tx[c]
  PROVE  \/ log' = log /\ savepoints' = savepoints /\ undone' = undone
         \/ /\ db[d] = "active" /\ undone' = undone \union {c}
            /\ \E i \in DOMAIN savepoints[d] : \E m \in Nat :
                 /\ savepoints[d][i].call = c /\ savepoints[d][i].mark = m
                 /\ DOMAIN log'[d] = {j \in DOMAIN log[d] : j <= m}
                 /\ \A j \in DOMAIN log'[d] : log'[d][j] = log[d][j]
                 /\ DOMAIN savepoints'[d] \subseteq DOMAIN savepoints[d]
                 /\ \A j \in DOMAIN savepoints'[d] : savepoints'[d][j] = savepoints[d][j]
            /\ \A x \in Calls \ {d} : log'[x] = log[x] /\ savepoints'[x] = savepoints[x]
<1>1. CASE ~(Answers(d) /\ Has(c))
  BY <1>1 DEF RollbackToSavepoint
<1>2. CASE Answers(d) /\ Has(c)
  <2>1. PICK i \in DOMAIN savepoints[d] : i = Position(c) /\ savepoints[d][i].call = c
    BY <1>2 DEF Has, Position
  <2>2. /\ log' = [log EXCEPT ![d] = SubSeq(@, 1, savepoints[d][i].mark)]
        /\ savepoints' = [savepoints EXCEPT ![d] = SubSeq(@, 1, i)]
        /\ undone' = undone \union {c} /\ db[d] = "active"
    BY <1>2, <2>1 DEF RollbackToSavepoint, Answers
  <2>3. log \in [Calls -> Seq(Calls)] /\ log[d] \in Seq(Calls)
        /\ savepoints \in [Calls -> Seq([call : Calls, mark : Nat])]
        /\ savepoints[d] \in Seq([call : Calls, mark : Nat])
    BY DEF TypeOK
  <2>4. /\ Len(savepoints[d]) \in Nat /\ DOMAIN savepoints[d] = 1..Len(savepoints[d])
        /\ savepoints[d][i] \in [call : Calls, mark : Nat]
    <3> DEFINE S == [call : Calls, mark : Nat]
               w == savepoints[d]
    <3>1. w \in Seq(S) /\ i \in DOMAIN w
      BY <2>1, <2>3
    <3> HIDE DEF S, w
    <3>2. Len(w) \in Nat /\ DOMAIN w = 1..Len(w) /\ w[i] \in S
      BY <3>1, Elements
    <3> QED BY <3>2 DEF S, w
  <2>5. PICK m \in Nat : m = savepoints[d][i].mark /\ m <= Len(log[d])
    BY <2>1, <2>4 DEF MarksInLog
  <2>6. log'[d] = SubSeq(log[d], 1, m) /\ savepoints'[d] = SubSeq(savepoints[d], 1, i)
    BY <2>2, <2>3, <2>5
  <2>7. Len(log[d]) \in Nat /\ DOMAIN log[d] = 1..Len(log[d])
    BY <2>3, Elements
  <2>8. /\ log'[d] \in Seq(Calls) /\ Len(log'[d]) = m /\ \A j \in 1..m : log'[d][j] = log[d][j]
    <3>1. /\ SubSeq(log[d], 1, m) \in Seq(Calls) /\ Len(SubSeq(log[d], 1, m)) = m
          /\ \A j \in 1..m : SubSeq(log[d], 1, m)[j] = log[d][j]
      <4>1. \A w \in Seq(Calls) : m <= Len(w) =>
              /\ SubSeq(w, 1, m) \in Seq(Calls) /\ Len(SubSeq(w, 1, m)) = m
              /\ \A j \in 1..m : SubSeq(w, 1, m)[j] = w[j]
        BY <2>5, Cut
      <4> QED BY <2>3, <2>5, <4>1
    <3> QED BY <2>6, <3>1
  <2>9. DOMAIN log'[d] = 1..m
    BY <2>8, Elements
  <2>10. DOMAIN log'[d] = {j \in DOMAIN log[d] : j <= m}
    BY <2>5, <2>7, <2>9
  <2>11. i \in Nat /\ i <= Len(savepoints[d])
    BY <2>1, <2>4
  <2>12. savepoints'[d] \in Seq([call : Calls, mark : Nat]) /\ Len(savepoints'[d]) = i
         /\ \A j \in 1..i : savepoints'[d][j] = savepoints[d][j]
    <3> DEFINE S == [call : Calls, mark : Nat]
    <3>1. savepoints[d] \in Seq(S)
      BY <2>3
    <3> HIDE DEF S
    <3>2. /\ SubSeq(savepoints[d], 1, i) \in Seq(S) /\ Len(SubSeq(savepoints[d], 1, i)) = i
          /\ \A j \in 1..i : SubSeq(savepoints[d], 1, i)[j] = savepoints[d][j]
      BY <2>11, <3>1, Cut
    <3> QED BY <2>6, <3>2 DEF S
  <2>13. DOMAIN savepoints'[d] = 1..i
    BY <2>12, Elements
  <2>14. DOMAIN savepoints'[d] \subseteq DOMAIN savepoints[d]
    BY <2>4, <2>11, <2>13
  <2>15. \A x \in Calls \ {d} : log'[x] = log[x] /\ savepoints'[x] = savepoints[x]
    BY <2>2, <2>3
  <2>16. /\ savepoints[d][i].call = c /\ savepoints[d][i].mark = m
         /\ DOMAIN log'[d] = {j \in DOMAIN log[d] : j <= m}
         /\ \A j \in DOMAIN log'[d] : log'[d][j] = log[d][j]
         /\ DOMAIN savepoints'[d] \subseteq DOMAIN savepoints[d]
         /\ \A j \in DOMAIN savepoints'[d] : savepoints'[d][j] = savepoints[d][j]
    BY <2>1, <2>5, <2>8, <2>9, <2>10, <2>12, <2>13, <2>14
  <2> QED BY <2>1, <2>2, <2>5, <2>15, <2>16
<1> QED BY <1>1, <1>2

(* A write in a transaction that is active goes behind the others. *)
LEMMA LogGrows ==
  ASSUME TypeOK, NEW c \in Calls, Write(c), NEW d \in Calls, d = tx[c]
  PROVE  IF db[d] = "active"
         THEN /\ persisted' = persisted
              /\ Len(log[d]) \in Nat /\ DOMAIN log[d] = 1..Len(log[d])
              /\ DOMAIN log'[d] = 1..(Len(log[d]) + 1) /\ log'[d][Len(log[d]) + 1] = c
              /\ \A j \in DOMAIN log[d] : log'[d][j] = log[d][j]
              /\ \A x \in Calls \ {d} : log'[x] = log[x]
         ELSE log' = log /\ persisted' = persisted \union {c}
<1>1. CASE db[d] # "active"
  BY <1>1 DEF Write
<1>2. CASE db[d] = "active"
  <2>1. log' = [log EXCEPT ![d] = Append(@, c)] /\ persisted' = persisted
    BY <1>2 DEF Write
  <2>2. log \in [Calls -> Seq(Calls)] /\ log[d] \in Seq(Calls)
    BY DEF TypeOK
  <2>3. log'[d] = Append(log[d], c) /\ \A x \in Calls \ {d} : log'[x] = log[x]
    BY <2>1, <2>2
  <2> QED BY <1>2, <2>1, <2>2, <2>3, Appended
<1> QED BY <1>1, <1>2

(* Who is in the log after a step, and where. *)
LEMMA LogAfter ==
  ASSUME TransactionInv, NEW c \in Calls, CallStep(c), NEW d \in Calls, NEW j \in DOMAIN log'[d]
  PROVE  \/ j \in DOMAIN log[d] /\ log'[d][j] = log[d][j]
         \/ Write(c) /\ d = tx[c] /\ log'[d][j] = c /\ db[d] = "active" /\ j \notin DOMAIN log[d]
<1>1. TypeOK /\ MarksInLog /\ Contexts
  BY DEF TransactionInv
<1>2. CASE Write(c)
  <2>1. PICK e \in Calls : e = tx[c]
    <3>1. tx[c] \in Calls \union {NoCall} /\ tx[c] # NoCall
      BY <1>1, <1>2 DEF Contexts, ContextOf, TypeOK, Write, InBody
    <3> QED BY <3>1
  <2>2. CASE db[e] = "active" /\ d = e
    <3>1. /\ Len(log[d]) \in Nat /\ DOMAIN log[d] = 1..Len(log[d])
          /\ DOMAIN log'[d] = 1..(Len(log[d]) + 1) /\ log'[d][Len(log[d]) + 1] = c
          /\ \A i \in DOMAIN log[d] : log'[d][i] = log[d][i]
      BY <1>1, <1>2, <2>1, <2>2, LogGrows
    <3>2. j \in DOMAIN log[d] \/ (j = Len(log[d]) + 1 /\ j \notin DOMAIN log[d])
      BY <3>1
    <3> QED BY <1>2, <2>1, <2>2, <3>1, <3>2
  <2>3. CASE ~(db[e] = "active" /\ d = e)
    <3>1. log'[d] = log[d]
      BY <1>1, <1>2, <2>1, <2>3, LogGrows
    <3> QED BY <3>1
  <2> QED BY <2>2, <2>3
<1>3. CASE RollbackToSavepoint(c)
  <2>1. PICK e \in Calls : e = tx[c]
    <3>1. tx[c] \in Calls \union {NoCall} /\ tx[c] # NoCall
      BY <1>1, <1>3 DEF Contexts, ContextOf, TypeOK, RollbackToSavepoint
    <3> QED BY <3>1
  <2>2. log'[d] = log[d] \/ (DOMAIN log'[d] \subseteq DOMAIN log[d]
                             /\ \A i \in DOMAIN log'[d] : log'[d][i] = log[d][i])
    BY <1>1, <1>3, <2>1, LogCut
  <2> QED BY <2>2
<1>4. CASE ~Write(c) /\ ~RollbackToSavepoint(c)
  BY <1>4, DataKept
<1> QED BY <1>2, <1>3, <1>4

(* ... and which savepoints there are. *)
LEMMA SavepointsAfter ==
  ASSUME TransactionInv, NEW c \in Calls, CallStep(c), NEW d \in Calls, NEW i \in DOMAIN savepoints'[d]
  PROVE  \/ i \in DOMAIN savepoints[d] /\ savepoints'[d][i] = savepoints[d][i]
         \/ /\ SetSavepoint(c) /\ d = tx[c]
            /\ savepoints'[d][i].call = c /\ savepoints'[d][i].mark = Len(log[d])
<1>1. TypeOK /\ MarksInLog /\ Contexts
  BY DEF TransactionInv
<1> DEFINE S == [call : Calls, mark : Nat]
<1>2. savepoints \in [Calls -> Seq(S)]
  BY <1>1 DEF TypeOK
<1>3. CASE SetSavepoint(c) \/ ReleaseSavepoint(c) \/ RollbackToSavepoint(c)
  <2>1. PICK e \in Calls : e = tx[c]
    <3>1. tx[c] \in Calls \union {NoCall} /\ tx[c] # NoCall
      BY <1>1, <1>3 DEF Contexts, ContextOf, TypeOK, SetSavepoint, ReleaseSavepoint, RollbackToSavepoint
    <3> QED BY <3>1
  <2>2. CASE savepoints'[d] = savepoints[d]
    BY <2>2
  <2>3. CASE SetSavepoint(c) /\ savepoints' # savepoints
    <3> DEFINE new == [call |-> c, mark |-> Len(log[e])]
    <3>1. savepoints' = [savepoints EXCEPT ![e] = Append(@, new)]
      BY <2>1, <2>3 DEF SetSavepoint
    <3>2. new \in S
      <4>1. log[e] \in Seq(Calls)
        BY <1>1 DEF TypeOK
      <4>2. Len(log[e]) \in Nat
        BY <4>1, Elements
      <4> QED BY <4>2
    <3>3. new.call = c /\ new.mark = Len(log[e])
      OBVIOUS
    <3> HIDE DEF S, new
    <3>4. CASE d = e
      <4>1. savepoints[d] \in Seq(S) /\ savepoints'[d] = Append(savepoints[d], new)
        BY <1>2, <3>1, <3>4
      <4>2. /\ Len(savepoints[d]) \in Nat /\ DOMAIN savepoints[d] = 1..Len(savepoints[d])
            /\ DOMAIN savepoints'[d] = 1..(Len(savepoints[d]) + 1)
            /\ savepoints'[d][Len(savepoints[d]) + 1] = new
            /\ \A j \in 1..Len(savepoints[d]) : savepoints'[d][j] = savepoints[d][j]
        BY <3>2, <4>1, Appended
      <4>3. i \in 1..Len(savepoints[d]) \/ i = Len(savepoints[d]) + 1
        BY <4>2
      <4> QED BY <2>1, <2>3, <3>3, <3>4, <4>2, <4>3
    <3>5. CASE d # e
      BY <1>2, <3>1, <3>5
    <3> QED BY <3>4, <3>5
  <2>4. CASE ReleaseSavepoint(c) /\ savepoints' # savepoints
    <3>1. /\ Has(c) /\ savepoints' = [savepoints EXCEPT ![e] = SubSeq(@, 1, Position(c) - 1)]
      BY <2>1, <2>4 DEF ReleaseSavepoint
    <3>2. PICK n : n = Position(c) /\ n \in DOMAIN savepoints[e]
      BY <2>1, <3>1 DEF Has, Position
    <3> HIDE DEF S
    <3>3. savepoints[e] \in Seq(S) /\ Len(savepoints[e]) \in Nat
          /\ DOMAIN savepoints[e] = 1..Len(savepoints[e])
      BY <1>2, Elements
    <3>4. n - 1 \in Nat /\ n - 1 <= Len(savepoints[e])
      BY <3>2, <3>3
    <3>5. /\ SubSeq(savepoints[e], 1, n - 1) \in Seq(S) /\ Len(SubSeq(savepoints[e], 1, n - 1)) = n - 1
          /\ \A j \in 1..(n - 1) : SubSeq(savepoints[e], 1, n - 1)[j] = savepoints[e][j]
      BY <3>3, <3>4, Cut
    <3>6. DOMAIN SubSeq(savepoints[e], 1, n - 1) = 1..(n - 1)
      BY <3>5, Elements
    <3>7. 1..(n - 1) \subseteq DOMAIN savepoints[e]
      BY <3>3, <3>4
    <3>8. savepoints'[e] = SubSeq(savepoints[e], 1, n - 1) /\ \A x \in Calls \ {e} : savepoints'[x] = savepoints[x]
      BY <1>2, <3>1, <3>2
    <3> QED BY <3>5, <3>6, <3>7, <3>8
  <2>5. CASE RollbackToSavepoint(c)
    <3>1. savepoints'[d] = savepoints[d]
          \/ (DOMAIN savepoints'[d] \subseteq DOMAIN savepoints[d]
              /\ \A j \in DOMAIN savepoints'[d] : savepoints'[d][j] = savepoints[d][j])
      BY <1>1, <2>1, <2>5, LogCut
    <3> QED BY <3>1
  <2> QED BY <1>3, <2>2, <2>3, <2>4, <2>5
<1>4. CASE ~SetSavepoint(c) /\ ~ReleaseSavepoint(c) /\ ~RollbackToSavepoint(c)
  BY <1>4, DataKept
<1> QED BY <1>3, <1>4

LEMMA DidGrows ==
  ASSUME TypeOK, NEW c \in Calls, CallStep(c), NEW k \in Calls
  PROVE  /\ "write" \in did[k] => "write" \in did'[k]
         /\ "write" \in did'[k] => "write" \in did[k] \/ (Write(c) /\ k = c)
         /\ Write(c) => "write" \in did'[c]
<1>1. did \in [Calls -> SUBSET {"write", "publish"}]
  BY DEF TypeOK
<1>2. CASE Write(c)
  <2>1. did' = [did EXCEPT ![c] = @ \union {"write"}]
    BY <1>2 DEF Write
  <2> QED BY <1>1, <1>2, <2>1
<1>3. CASE Publish(c) /\ ~Write(c)
  <2>1. did' = [did EXCEPT ![c] = @ \union {"publish"}]
    BY <1>3 DEF Publish
  <2> QED BY <1>1, <1>3, <2>1
<1>4. CASE ~Write(c) /\ ~Publish(c)
  BY <1>4, DataKept
<1> QED BY <1>2, <1>3, <1>4

LEMMA WritersStep ==
  ASSUME TreeInv, Writers, NEW c \in Calls, CallStep(c)
  PROVE  Writers'
<1>1. TransactionInv /\ TypeOK
  BY DEF TreeInv, TransactionInv
<1>2. ASSUME NEW k \in Calls, "write" \in did'[k]
      PROVE  Entered(k)'
  <2>1. CASE "write" \in did[k]
    BY <1>1, <2>1, Steady DEF Writers
  <2>2. CASE Write(c) /\ k = c
    <3>1. Entered(c)
      BY <2>2 DEF Write, InBody, Entered
    <3> QED BY <1>1, <2>2, <3>1, Steady
  <2> QED BY <1>1, <1>2, <2>1, <2>2, DidGrows
<1>3. ASSUME NEW k \in undone'
      PROVE  pc'[k] \in Over
  <2>1. undone' = undone \/ (RollbackToSavepoint(c) /\ undone' \subseteq undone \union {c})
    BY DataKept DEF RollbackToSavepoint
  <2>2. undone \subseteq Calls
    BY <1>1 DEF TypeOK
  <2>3. CASE k \in undone
    BY <1>1, <2>2, <2>3, Steady DEF Writers
  <2>4. CASE RollbackToSavepoint(c) /\ k = c
    BY <1>1, <2>4, Functions DEF RollbackToSavepoint, Over
  <2> QED BY <1>3, <2>1, <2>3, <2>4
<1>4. ASSUME NEW k \in persisted'
      PROVE  "write" \in did'[k]
  <2>1. \/ persisted' = persisted
        \/ persisted' = persisted \union Writes(c)
        \/ persisted' = persisted \union {c} /\ Write(c)
    <3>1. CASE Write(c)
      BY <3>1 DEF Write
    <3>2. CASE Commit(c) \/ CommitFails(c)
      BY <3>2 DEF Commit, CommitFails, Commits
    <3> QED BY <3>1, <3>2, DataKept
  <2>2. persisted \subseteq Calls /\ \A j \in DOMAIN log[c] : log[c][j] \in Calls
    <3>1. log[c] \in Seq(Calls) /\ persisted \subseteq Calls
      BY <1>1 DEF TypeOK
    <3> QED BY <3>1, Elements
  <2>3. CASE k \in persisted
    BY <1>1, <2>2, <2>3, DidGrows DEF Writers
  <2>4. CASE k \in Writes(c)
    <3>1. k \in Calls /\ "write" \in did[k]
      BY <2>2, <2>4 DEF Writers, Writes
    <3> QED BY <1>1, <3>1, DidGrows
  <2>5. CASE Write(c) /\ k = c
    BY <1>1, <2>5, DidGrows
  <2> QED BY <1>4, <2>1, <2>3, <2>4, <2>5
<1>5. ASSUME NEW d \in Calls, NEW j \in DOMAIN log'[d]
      PROVE  tx'[log'[d][j]] = d /\ "write" \in did'[log'[d][j]]
  <2>1. \A i \in DOMAIN log[d] : log[d][i] \in Calls
    <3>1. log[d] \in Seq(Calls)
      BY <1>1 DEF TypeOK
    <3> QED BY <3>1, Elements
  <2>2. PICK k \in Calls : /\ k = log'[d][j] /\ tx[k] = d
                           /\ "write" \in did[k] \/ (Write(c) /\ k = c)
    <3>1. CASE j \in DOMAIN log[d] /\ log'[d][j] = log[d][j]
      BY <2>1, <3>1 DEF Writers
    <3>2. CASE Write(c) /\ d = tx[c] /\ log'[d][j] = c
      BY <3>2
    <3> QED BY <1>1, <1>5, <3>1, <3>2, LogAfter
  <2>3. tx'[k] = d
    <3>1. tx[k] # NoCall
      BY <2>2, TransactionAssumption
    <3> QED BY <1>1, <2>2, <3>1, Steady
  <2>4. "write" \in did'[k]
    BY <1>1, <2>2, DidGrows
  <2> QED BY <2>2, <2>3, <2>4
<1> QED BY <1>2, <1>3, <1>4, <1>5 DEF Writers

LEMMA SavepointsStep ==
  ASSUME AtomicInv, ~Concurrent, NEW c \in Calls, CallStep(c)
  PROVE  Savepoints'
<1>1. TreeInv /\ TransactionInv /\ TypeOK /\ Contexts /\ MarksInLog /\ Chain /\ Writers
  BY DEF AtomicInv, TreeInv, TransactionInv
<1> SUFFICES ASSUME NEW d \in Calls, NEW i \in DOMAIN savepoints'[d],
                    NEW k, k = savepoints'[d][i].call, NEW m, m = savepoints'[d][i].mark
             PROVE  Parts(d, k, m)'
  BY DEF Savepoints, Parts
<1>2. \A j \in DOMAIN log[d] : log[d][j] \in Calls /\ j \in Nat /\ j <= Len(log[d]) /\ j > 0
  <2>1. log[d] \in Seq(Calls)
    BY <1>1 DEF TypeOK
  <2> QED BY <2>1, Elements
<1>3. CASE SetSavepoint(c) /\ d = tx[c] /\ savepoints'[d][i].call = c
           /\ savepoints'[d][i].mark = Len(log[d])
  <2>1. log' = log /\ tx' = tx /\ pc[c] = "savepoint"
    BY <1>3 DEF SetSavepoint
  <2>2. \A j \in DOMAIN log[d] : c \notin Sup(log[d][j])
    <3> TAKE j \in DOMAIN log[d]
    <3>1. PICK y \in Calls : y = log[d][j] /\ Entered(y)
      BY <1>1, <1>2 DEF Writers
    <3>2. ~Entered(c)
      BY <2>1 DEF Entered
    <3>3. pc[y] # "idle"
      BY <3>1 DEF Entered
    <3>4. c \notin Callers[y]
      BY <1>1, <3>2, <3>3, AncestorsEntered
    <3> QED BY <3>1, <3>2, <3>4 DEF Sup
  <2>3. \A j \in DOMAIN log[d] : ~(j > Len(log[d]))
    BY <1>2
  <2>4. k = c /\ m = Len(log[d])
    BY <1>3
  <2> QED BY <1>3, <2>1, <2>2, <2>3, <2>4 DEF Parts, Sup
<1>4. CASE i \in DOMAIN savepoints[d] /\ savepoints'[d][i] = savepoints[d][i]
  <2>1. savepoints[d][i] \in [call : Calls, mark : Nat]
    <3> DEFINE S == [call : Calls, mark : Nat]
    <3>1. savepoints[d] \in Seq(S)
      BY <1>1 DEF TypeOK
    <3> HIDE DEF S
    <3>2. savepoints[d][i] \in S
      BY <1>4, <3>1, Elements
    <3> QED BY <3>2 DEF S
  <2>2. k \in Calls /\ m \in Nat /\ k = savepoints[d][i].call /\ m = savepoints[d][i].mark
    BY <1>4, <2>1
  <2>3. Parts(d, k, m) /\ m <= Len(log[d])
    BY <1>1, <1>4, <2>2 DEF AtomicInv, Savepoints, MarksInLog
  <2>4. tx[k] = d /\ tx'[k] = d /\ (Active(k)' => Active(k))
    <3>1. tx[k] = d /\ tx[k] # NoCall
      BY <2>3, TransactionAssumption DEF Parts
    <3> QED BY <1>1, <2>2, <3>1, Steady
  <2>5. ASSUME NEW j \in DOMAIN log'[d]
        PROVE  /\ j <= m => k \notin Sup(log'[d][j])
               /\ Active(k)' /\ j > m => k \in Sup(log'[d][j])
    <3>1. CASE j \in DOMAIN log[d] /\ log'[d][j] = log[d][j]
      BY <2>3, <2>4, <3>1 DEF Parts
    <3>2. CASE Write(c) /\ d = tx[c] /\ log'[d][j] = c /\ db[d] = "active" /\ j \notin DOMAIN log[d]
      <4>1. ~(j <= m)
        <5>1. /\ Len(log[d]) \in Nat /\ DOMAIN log[d] = 1..Len(log[d])
              /\ DOMAIN log'[d] = 1..(Len(log[d]) + 1)
          BY <1>1, <3>2, LogGrows
        <5>2. PICK n \in Nat : n = Len(log[d]) /\ DOMAIN log[d] = 1..n /\ DOMAIN log'[d] = 1..(n + 1)
          BY <5>1
        <5>3. j = n + 1
          BY <2>5, <3>2, <5>2
        <5> QED BY <2>2, <2>3, <5>2, <5>3
      <4>2. ASSUME Active(k)' PROVE k \in Sup(c)
        <5>1. Active(k) /\ Active(c) /\ tx[k] = tx[c]
          BY <2>4, <3>2, <4>2 DEF Write, InBody, Active, Over
        <5>2. ~Busy(c)
          BY <3>2 DEF Write, InBody
        <5>3. c \notin Callers[k]
          BY <1>1, <2>2, <5>1, <5>2, AncestorsBusy
        <5> QED BY <1>1, <2>2, <5>1, <5>3 DEF Chain, Sup
      <4> QED BY <3>2, <4>1, <4>2
    <3> QED BY <1>1, <2>5, <3>1, <3>2, LogAfter
  <2> QED BY <2>4, <2>5 DEF Parts, Sup
<1> QED BY <1>1, <1>3, <1>4, SavepointsAfter

(* Nothing changes for the write of k. *)
LEMMA SameWrite ==
  ASSUME NEW k \in Calls, NEW d \in Calls, WrittenIn(k, d), db'[d] = db[d],
         k \in persisted' <=> k \in persisted,
         k \in Writes(d)' <=> k \in Writes(d),
         Undone(k)' <=> Undone(k)
  PROVE  WrittenIn(k, d)'
BY DEF WrittenIn

(* Only ROLLBACK TO SAVEPOINT undoes writes. *)
LEMMA UndoneKept ==
  ASSUME TransactionInv, Writers, NEW c \in Calls, CallStep(c), NEW k \in Calls, tx[k] # NoCall
  PROVE  /\ undone' = undone => (Undone(k)' <=> Undone(k))
         /\ undone' = undone \union {c} /\ tx[c] # NoCall =>
              (Undone(k)' <=> Undone(k) \/ (c \in Sup(k) /\ tx[c] = tx[k]))
<1>1. TypeOK /\ Contexts /\ undone \subseteq Calls
  BY DEF TransactionInv, TypeOK
<1>2. \A y \in undone : tx'[y] = tx[y]
  <2> TAKE y \in undone
  <2>1. pc[y] # "idle" /\ y \in Calls
    BY <1>1 DEF Writers, Over
  <2>2. tx[y] # NoCall
    BY <1>1, <2>1 DEF Contexts, ContextOf
  <2> QED BY <2>1, <2>2, Steady
<1>3. tx'[k] = tx[k]
  BY Steady
<1>4. ASSUME undone' = undone PROVE Undone(k)' <=> Undone(k)
  BY <1>2, <1>3, <1>4 DEF Undone
<1>5. ASSUME undone' = undone \union {c}, tx[c] # NoCall
      PROVE  Undone(k)' <=> Undone(k) \/ (c \in Sup(k) /\ tx[c] = tx[k])
  <2>1. tx'[c] = tx[c]
    BY <1>5, Steady
  <2> QED BY <1>2, <1>3, <1>5, <2>1 DEF Undone, Sup
<1> QED BY <1>4, <1>5

(* Who has written in a transaction after a write in it, *)
LEMMA WritesGrow ==
  ASSUME TypeOK, NEW c \in Calls, Write(c), NEW d \in Calls, d = tx[c]
  PROVE  \/ /\ db[d] = "active" /\ persisted' = persisted
            /\ \A k \in Calls : k \in Writes(d)' <=> k \in Writes(d) \/ k = c
            /\ \A x \in Calls \ {d} : Writes(x)' = Writes(x)
         \/ /\ db[d] # "active" /\ persisted' = persisted \union {c}
            /\ \A x \in Calls : Writes(x)' = Writes(x)
<1>1. CASE db[d] # "active"
  BY <1>1, LogGrows DEF Writes
<1>2. CASE db[d] = "active"
  <2>1. /\ persisted' = persisted
        /\ Len(log[d]) \in Nat /\ DOMAIN log[d] = 1..Len(log[d])
        /\ DOMAIN log'[d] = 1..(Len(log[d]) + 1) /\ log'[d][Len(log[d]) + 1] = c
        /\ \A j \in DOMAIN log[d] : log'[d][j] = log[d][j]
        /\ \A x \in Calls \ {d} : log'[x] = log[x]
    BY <1>2, LogGrows
  <2>2. PICK n \in Nat : n = Len(log[d])
    BY <2>1
  <2>3. /\ DOMAIN log[d] = 1..n /\ DOMAIN log'[d] = 1..(n + 1) /\ log'[d][n + 1] = c
    BY <2>1, <2>2
  <2>4. 1..(n + 1) = (1..n) \union {n + 1}
    BY <2>2
  <2>5. \A k \in Calls : k \in Writes(d)' <=> k \in Writes(d) \/ k = c
    <3> TAKE k \in Calls
    <3>1. ASSUME k \in Writes(d)' PROVE k \in Writes(d) \/ k = c
      <4>1. PICK j \in DOMAIN log'[d] : k = log'[d][j]
        BY <3>1 DEF Writes
      <4>2. j \in DOMAIN log[d] \/ j = n + 1
        BY <2>3, <2>4, <4>1
      <4> QED BY <2>1, <2>3, <4>1, <4>2 DEF Writes
    <3>2. ASSUME k \in Writes(d) PROVE k \in Writes(d)'
      <4>1. PICK j \in DOMAIN log[d] : k = log[d][j]
        BY <3>2 DEF Writes
      <4>2. j \in DOMAIN log'[d] /\ log'[d][j] = k
        BY <2>1, <2>3, <2>4, <4>1
      <4> QED BY <4>2 DEF Writes
    <3>3. c \in Writes(d)'
      <4>1. n + 1 \in DOMAIN log'[d]
        BY <2>3, <2>4
      <4> QED BY <2>3, <4>1 DEF Writes
    <3> QED BY <3>1, <3>2, <3>3
  <2>6. \A x \in Calls \ {d} : Writes(x)' = Writes(x)
    BY <2>1 DEF Writes
  <2> QED BY <1>2, <2>1, <2>5, <2>6
<1> QED BY <1>1, <1>2

(* ... and after c's savepoint was rolled back: all but c and calls in it. *)
LEMMA WritesCut ==
  ASSUME TypeOK, MarksInLog, Contexts, Savepoints, NEW c \in Calls, RollbackToSavepoint(c),
         NEW d \in Calls, d = tx[c]
  PROVE  \/ undone' = undone /\ \A x \in Calls : Writes(x)' = Writes(x)
         \/ /\ db[d] = "active" /\ undone' = undone \union {c}
            /\ \A k \in Calls : k \in Writes(d)' <=> k \in Writes(d) /\ c \notin Sup(k)
            /\ \A x \in Calls \ {d} : Writes(x)' = Writes(x)
<1>1. CASE log' = log /\ undone' = undone
  BY <1>1 DEF Writes
<1>2. ASSUME db[d] = "active", undone' = undone \union {c},
             NEW i \in DOMAIN savepoints[d], NEW m \in Nat,
             savepoints[d][i].call = c, savepoints[d][i].mark = m,
             DOMAIN log'[d] = {j \in DOMAIN log[d] : j <= m},
             \A j \in DOMAIN log'[d] : log'[d][j] = log[d][j],
             \A x \in Calls \ {d} : log'[x] = log[x]
      PROVE  /\ \A k \in Calls : k \in Writes(d)' <=> k \in Writes(d) /\ c \notin Sup(k)
             /\ \A x \in Calls \ {d} : Writes(x)' = Writes(x)
  <2>1. Parts(d, c, m)
    BY <1>2 DEF Savepoints
  <2>2. \A j \in DOMAIN log[d] : j \in Nat
    <3>1. log[d] \in Seq(Calls)
      BY DEF TypeOK
    <3> QED BY <3>1, Elements
  <2>3. Active(c)
    BY DEF RollbackToSavepoint, Active, Over
  <2>4. \A j \in DOMAIN log[d] : j <= m <=> c \notin Sup(log[d][j])
    <3> TAKE j \in DOMAIN log[d]
    <3>1. j <= m \/ j > m
      BY <2>2
    <3> QED BY <2>1, <2>3, <3>1 DEF Parts
  <2>5. \A k \in Calls : k \in Writes(d)' <=> k \in Writes(d) /\ c \notin Sup(k)
    <3> TAKE k \in Calls
    <3>1. k \in Writes(d)' <=> \E j \in DOMAIN log[d] : j <= m /\ log[d][j] = k
      <4>1. k \in Writes(d)' <=> \E j \in DOMAIN log'[d] : log'[d][j] = k
        BY DEF Writes
      <4>2. \A j : j \in DOMAIN log'[d] <=> j \in DOMAIN log[d] /\ j <= m
        BY <1>2
      <4>3. \A j \in DOMAIN log'[d] : log'[d][j] = log[d][j]
        BY <1>2
      <4> QED BY <4>1, <4>2, <4>3
    <3>2. k \in Writes(d) <=> \E j \in DOMAIN log[d] : log[d][j] = k
      BY DEF Writes
    <3> QED BY <2>4, <3>1, <3>2
  <2>6. \A x \in Calls \ {d} : Writes(x)' = Writes(x)
    BY <1>2 DEF Writes
  <2> QED BY <2>5, <2>6
<1>3. \/ log' = log /\ savepoints' = savepoints /\ undone' = undone
      \/ /\ db[d] = "active" /\ undone' = undone \union {c}
         /\ \E i \in DOMAIN savepoints[d] : \E m \in Nat :
              /\ savepoints[d][i].call = c /\ savepoints[d][i].mark = m
              /\ DOMAIN log'[d] = {j \in DOMAIN log[d] : j <= m}
              /\ \A j \in DOMAIN log'[d] : log'[d][j] = log[d][j]
         /\ \A x \in Calls \ {d} : log'[x] = log[x]
  BY LogCut
<1> QED BY <1>1, <1>2, <1>3

LEMMA WrittenStep ==
  ASSUME AtomicInv, NEW c \in Calls, CallStep(c)
  PROVE  Written'
<1>1. /\ TreeInv /\ TransactionInv /\ TypeOK /\ Contexts /\ MarksInLog /\ Stages
      /\ Writers /\ Savepoints /\ Joined
  BY DEF AtomicInv, TreeInv, TransactionInv
<1> SUFFICES ASSUME NEW k \in Calls, NEW d \in Calls, "write" \in did'[k], BodyOnly(k)', tx'[k] = d
             PROVE  WrittenIn(k, d)'
  BY DEF Written
<1> USE Functions
<1>2. BodyOnly(k)
  <2>1. options' = options
    BY <1>1, Local
  <2> QED BY <2>1 DEF BodyOnly, Sup
<1>3. CASE Write(c) /\ k = c /\ "write" \notin did[k]
  <2>1. /\ pc[c] = "body" /\ undone' = undone /\ tx' = tx /\ db' = db /\ d \notin broken
    BY <1>3 DEF Write, InBody
  <2>2. tx[c] = d /\ Active(c) /\ tx[c] # NoCall
    BY <1>3, <2>1, TransactionAssumption DEF Active, Over
  <2>3. pc[d] = "body" /\ tx[d] = d
    <3>1. tx[d] = d
      BY <1>1, <2>2 DEF Contexts
    <3>2. pc[d] = "body"
      BY <1>2, <1>3, <2>1, <2>2 DEF InBodyOf, Joined, AtomicInv
    <3> QED BY <3>1, <3>2
  <2>4. db[d] = "active"
    BY <1>1, <2>1, <2>3 DEF Stages, StageOf
  <2>5. c \notin persisted
    BY <1>1, <1>3 DEF Writers
  <2>6. ~Undone(c)
    BY <1>1, <2>2, NotUndone
  <2>7. ~Undone(c)'
    BY <1>1, <2>1, <2>2, <2>6, UndoneKept
  <2>8. persisted' = persisted /\ c \in Writes(d)'
    BY <1>1, <1>3, <2>2, <2>4, WritesGrow
  <2> QED BY <1>3, <2>1, <2>4, <2>5, <2>7, <2>8 DEF WrittenIn
<1>4. CASE "write" \in did[k]
  <2>1. tx[k] # NoCall /\ tx[k] = d
    <3>1. pc[k] # "idle"
      BY <1>1, <1>4 DEF Writers, Entered
    <3>2. tx[k] # NoCall
      BY <1>1, <3>1 DEF Contexts, ContextOf
    <3> QED BY <1>1, <3>2, Steady
  <2>2. WrittenIn(k, d)
    BY <1>2, <1>4, <2>1 DEF AtomicInv, Written
  <2>3. (undone' = undone => (Undone(k)' <=> Undone(k)))
        /\ (undone' = undone \union {c} /\ tx[c] # NoCall =>
              (Undone(k)' <=> Undone(k) \/ (c \in Sup(k) /\ tx[c] = d)))
    BY <1>1, <2>1, UndoneKept
  <2>4. CASE RollbackToSavepoint(c)
    <3>1. PICK e \in Calls : e = tx[c] /\ tx[c] # NoCall
      <4>1. tx[c] # NoCall
        BY <1>1, <2>4 DEF Contexts, ContextOf, RollbackToSavepoint
      <4> QED BY <1>1, <4>1
    <3>2. db' = db /\ persisted' = persisted /\ Active(c)
      BY <2>4 DEF RollbackToSavepoint, Active, Over
    <3>3. CASE undone' = undone /\ \A x \in Calls : Writes(x)' = Writes(x)
      BY <2>2, <2>3, <3>2, <3>3, SameWrite
    <3>4. CASE /\ db[e] = "active" /\ undone' = undone \union {c}
               /\ \A x \in Calls : x \in Writes(e)' <=> x \in Writes(e) /\ c \notin Sup(x)
               /\ \A x \in Calls \ {e} : Writes(x)' = Writes(x)
      <4>1. Undone(k)' <=> Undone(k) \/ (c \in Sup(k) /\ e = d)
        BY <2>3, <3>1, <3>4
      <4>2. CASE e # d
        BY <2>2, <3>2, <3>4, <4>1, <4>2, SameWrite
      <4>3. CASE e = d
        <5>1. /\ db[d] = "active" /\ k \notin persisted
              /\ k \in Writes(d) <=> ~Undone(k)
          BY <2>2, <3>4, <4>3 DEF WrittenIn
        <5>2. k \in Writes(d)' <=> ~Undone(k)'
          BY <3>4, <4>1, <4>3, <5>1
        <5> QED BY <3>2, <5>1, <5>2 DEF WrittenIn
      <4> QED BY <4>2, <4>3
    <3> QED BY <1>1, <2>4, <3>1, <3>3, <3>4, WritesCut
  <2>5. CASE Write(c)
    <3>1. PICK e \in Calls : e = tx[c]
      <4>1. tx[c] # NoCall
        BY <1>1, <2>5 DEF Contexts, ContextOf, Write, InBody
      <4> QED BY <1>1, <4>1
    <3>2. "write" \notin did[c] /\ db' = db /\ undone' = undone
      BY <2>5 DEF Write
    <3>3. k # c
      BY <1>4, <3>2
    <3>4. /\ k \in persisted' <=> k \in persisted
          /\ k \in Writes(d)' <=> k \in Writes(d)
      <4>1. CASE /\ db[e] = "active" /\ persisted' = persisted
                 /\ \A x \in Calls : x \in Writes(e)' <=> x \in Writes(e) \/ x = c
                 /\ \A x \in Calls \ {e} : Writes(x)' = Writes(x)
        BY <3>3, <4>1
      <4>2. CASE /\ db[e] # "active" /\ persisted' = persisted \union {c}
                 /\ \A x \in Calls : Writes(x)' = Writes(x)
        BY <3>3, <4>2
      <4> QED BY <1>1, <2>5, <3>1, <4>1, <4>2, WritesGrow
    <3> QED BY <2>2, <2>3, <3>2, <3>4, SameWrite
  <2>6. CASE ~RollbackToSavepoint(c) /\ ~Write(c)
    <3>1. log' = log /\ undone' = undone
      BY <2>6, DataKept
    <3>2. (Undone(k)' <=> Undone(k)) /\ Writes(d)' = Writes(d)
      BY <2>3, <3>1 DEF Writes
    <3>3. CASE Commit(c) \/ CommitFails(c)
      <4>1. \/ db' = db /\ persisted' = persisted
            \/ db' = [db EXCEPT ![c] = "rolled back"] /\ db[c] = "active" /\ persisted' = persisted
            \/ db[c] = "active" /\ Commits(c)
        BY <3>3 DEF Commit, CommitFails
      <4>2. CASE db' = db /\ persisted' = persisted
        BY <2>2, <3>2, <4>2, SameWrite
      <4>3. CASE db' = [db EXCEPT ![c] = "rolled back"] /\ db[c] = "active" /\ persisted' = persisted
        <5>1. CASE c = d
          BY <1>1, <2>2, <4>3, <5>1 DEF WrittenIn
        <5>2. CASE c # d
          BY <1>1, <2>2, <3>2, <4>3, <5>2, SameWrite
        <5> QED BY <5>1, <5>2
      <4>4. CASE db[c] = "active" /\ Commits(c)
        <5>1. db' = [db EXCEPT ![c] = "committed"] /\ persisted' = persisted \union Writes(c)
          BY <4>4 DEF Commits
        <5>2. CASE c = d
          <6>1. db'[d] = "committed"
            BY <1>1, <5>1, <5>2
          <6>2. k \in persisted' <=> ~Undone(k)
            BY <2>2, <4>4, <5>1, <5>2 DEF WrittenIn
          <6> QED BY <3>2, <6>1, <6>2 DEF WrittenIn
        <5>3. CASE c # d
          <6>1. k \notin Writes(c)
            <7>1. \A j \in DOMAIN log[c] : tx[log[c][j]] = c
              BY <1>1 DEF Writers
            <7>2. \A j \in DOMAIN log[c] : log[c][j] # k
              BY <2>1, <5>3, <7>1
            <7> QED BY <7>2 DEF Writes
          <6>2. db'[d] = db[d]
            BY <1>1, <5>1, <5>3
          <6> QED BY <2>2, <3>2, <5>1, <6>1, <6>2, SameWrite
        <5> QED BY <5>2, <5>3
      <4> QED BY <4>1, <4>2, <4>3, <4>4
    <3>4. CASE ~Commit(c) /\ ~CommitFails(c)
      <4>1. persisted' = persisted
        BY <2>6, <3>4, DataKept
      <4>2. CASE db'[d] = db[d]
        BY <2>2, <3>2, <4>1, <4>2, SameWrite
      <4>3. CASE db'[d] # db[d]
        <5>1. c = d
          <6>1. \A x \in Calls \ {c} : db'[x] = db[x]
            BY <1>1, Local
          <6> QED BY <4>3, <6>1
        <5>2. db[d] # "committed" /\ db'[d] = "rolled back"
          <6>1. StartTransaction(c) \/ Rollback(c) \/ Drop(c)
            BY <3>4, <4>3, DataKept
          <6>2. ~StartTransaction(c)
            <7>1. db[d] # "none"
              BY <2>2 DEF WrittenIn
            <7> QED BY <1>1, <5>1, <7>1 DEF StartTransaction, Stages, StageOf
          <6>3. CASE Drop(c)
            BY <1>1, <5>1, <6>3 DEF Drop
          <6>4. CASE Rollback(c)
            <7>1. client[c] = "active" /\ (adapter = "typeorm" => c \notin broken)
              BY <6>4 DEF Rollback, CanRollback
            <7>2. db[c] # "committed"
              BY <1>1, <7>1 DEF Stages, StageOf
            <7> QED BY <1>1, <5>1, <6>4, <7>2 DEF Rollback
          <6> QED BY <6>1, <6>2, <6>3, <6>4
        <5> QED BY <2>2, <4>1, <5>2 DEF WrittenIn
      <4> QED BY <4>2, <4>3
    <3> QED BY <3>3, <3>4
  <2> QED BY <2>4, <2>5, <2>6
<1>5. "write" \in did[k] \/ (Write(c) /\ k = c)
  BY <1>1, DidGrows
<1> QED BY <1>3, <1>4, <1>5

LEMMA AtomicInductive == ~Concurrent => (AtomicInv /\ [Next]_vars => AtomicInv')
<1> SUFFICES ASSUME ~Concurrent, AtomicInv, [Next]_vars PROVE AtomicInv'
  OBVIOUS
<1>1. TreeInv /\ Joined /\ Chain /\ Writers
  BY DEF AtomicInv
<1>2. TreeInv'
  BY <1>1, TreeInductive
<1>3. CASE UNCHANGED vars
  <2>1. UNCHANGED <<options, pc, tx, did, db, log, savepoints, persisted, undone>>
    BY <1>3 DEF vars, dbVars
  <2>2. Joined' /\ Chain'
    BY <1>1, <2>1 DEF Joined, InBodyOf, Chain, Active, BodyOnly, Sup
  <2>3. Writers'
    BY <1>1, <2>1 DEF Writers, Entered
  <2>4. Savepoints'
    BY <2>1 DEF AtomicInv, Savepoints, Parts, Active, Sup
  <2>5. \A k, d \in Calls : (WrittenIn(k, d)' <=> WrittenIn(k, d)) /\ (BodyOnly(k)' <=> BodyOnly(k))
    BY <2>1 DEF WrittenIn, Writes, Undone, BodyOnly, Sup
  <2>6. Written'
    BY <2>1, <2>5 DEF AtomicInv, Written
  <2> QED BY <1>2, <2>2, <2>3, <2>4, <2>6 DEF AtomicInv
<1>4. ASSUME NEW c \in Calls, CallStep(c)
      PROVE  AtomicInv'
  BY <1>1, <1>2, <1>4, JoinedStep, ChainStep, WritersStep, SavepointsStep, WrittenStep DEF AtomicInv
<1> QED BY <1>3, <1>4 DEF Next, Finished, CallStep

LEMMA AtomicInit == Init => AtomicInv
<1> SUFFICES ASSUME Init PROVE AtomicInv
  OBVIOUS
<1>1. TreeInv
  BY TreeInit
<1>2. Joined /\ Chain
  BY DEF Init, Joined, InBodyOf, Chain, Active
<1>3. Writers /\ Savepoints /\ Written
  BY DEF Init, Writers, Savepoints, Written
<1> QED BY <1>1, <1>2, <1>3 DEF AtomicInv

(* Atomic, where callbacks await each call before they make the next.      *)
(* (Nested calls that are made together share the connection, and rolling  *)
(* back to the savepoint of one undoes what the other wrote meanwhile.)    *)
THEOREM TransactionsAreAtomic ==
  ASSUME ~Concurrent
  PROVE  Spec => []Atomic
<1>1. Spec => []AtomicInv
  <2>1. AtomicInv /\ [Next]_vars => AtomicInv'
    BY AtomicInductive
  <2> QED BY <2>1, AtomicInit, PTL DEF Spec
<1>2. AtomicInv => Atomic
  <2> SUFFICES ASSUME AtomicInv, NEW c \in Calls, "write" \in did[c], BodyOnly(c)
               PROVE  c \in persisted <=> db[tx[c]] = "committed" /\ ~Undone(c)
    BY DEF Atomic, BodyOnly, Sup
  <2>1. PICK d \in Calls : d = tx[c]
    <3>1. TypeOK /\ Contexts /\ pc[c] # "idle"
      BY DEF AtomicInv, TreeInv, TransactionInv, Writers, Entered
    <3>2. tx[c] # NoCall /\ tx[c] \in Calls \union {NoCall}
      BY <3>1 DEF Contexts, ContextOf, TypeOK
    <3> QED BY <3>2
  <2>2. WrittenIn(c, d)
    BY <2>1 DEF AtomicInv, Written
  <2> QED BY <2>1, <2>2 DEF WrittenIn
<1> QED BY <1>1, <1>2, PTL

=============================================================================
