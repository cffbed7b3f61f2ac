--------------------------- MODULE TransactionProofs ---------------------------
(***************************************************************************)
(* Theorems of Transaction: types, events match the outcome of their       *)
(* transaction, connections are returned.                                  *)
(***************************************************************************)
EXTENDS Transaction, TLAPS

(* The log is as long as every savepoint says, later ones say more. *)
MarksInLog == \A d \in Calls :
  /\ \A i \in DOMAIN savepoints[d] : savepoints[d][i].mark <= Len(log[d])
  /\ \A i, j \in DOMAIN savepoints[d] : i <= j => savepoints[d][i].mark <= savepoints[d][j].mark

(* The stages of runInNewTransaction(). *)
OwnStages == {"connecting", "starting", "commit", "rollback", "closing"} \union Phases

(* Which transaction a call runs in. *)
ContextOf(c) ==
  /\ pc[c] = "idle" <=> tx[c] = NoCall
  /\ pc[c] \in OwnStages => tx[c] = c
  /\ pc[c] \in {"savepoint", "releasing", "undoing"} => tx[c] # c

Contexts ==
  /\ \A c \in Calls : ContextOf(c)
  /\ \A c \in Calls : tx[c] # NoCall => tx[tx[c]] = tx[c]
  /\ \A d \in Calls : \A i \in DOMAIN syncs[d] : tx[syncs[d][i].call] = d

(* The database may have committed, if a commit has not been refused. *)
MayCommit(c) == db[c] \in {"active", "committed"} \/ c \in broken

(* AFTER_COMMIT may run. *)
CountsAsCommitted(c) == db[c] = "committed" \/ ~ShouldRollback(c, "db")

(* What is known of a transaction at each stage of its call. *)
StageOf(c) ==
  /\ pc[c] \in {"idle", "connecting", "starting"} => db[c] = "none" /\ error[c] = "none"
  /\ tx[c] = c /\ pc[c] \in {"body", "BEFORE_COMMIT"} =>
       /\ error[c] = "none"
       /\ db[c] = "active" \/ c \in broken
  /\ pc[c] = "commit" => MayCommit(c) \/ ~ShouldRollback(c, "db")
  /\ pc[c] = "AFTER_COMMIT" => CountsAsCommitted(c)
  /\ pc[c] = "rollback" => error[c] # "none"
  /\ pc[c] = "AFTER_ROLLBACK" => db[c] = "rolled back" /\ error[c] # "none"
  /\ pc[c] = "AFTER_COMPLETION" => error[c] # "none" \/ CountsAsCommitted(c)
  /\ client[c] = "active" /\ db[c] = "committed" => adapter = "typeorm" /\ c \in broken

Stages == \A c \in Calls : StageOf(c)

(* What has been delivered is true. *)
Told(c) ==
  /\ pc[c] = "idle" => delivered[c]["AFTER_COMMIT"] = 0 /\ delivered[c]["AFTER_ROLLBACK"] = 0
  /\ tx[c] # NoCall /\ delivered[c]["AFTER_COMMIT"] > 0 => CountsAsCommitted(tx[c])
  /\ tx[c] # NoCall /\ delivered[c]["AFTER_ROLLBACK"] > 0 => db[tx[c]] = "rolled back"

AllTold == \A c \in Calls : Told(c)

(* Who holds a connection. *)
Holding(c) == c \in held =>
  /\ tx[c] = c /\ pc[c] \notin {"idle", "connecting"}
  /\ pc[c] \in Over => db[c] = "none"

AllHolding == \A c \in Calls : Holding(c)

(* No fault, no hook that may throw, and every error rolls back. *)
Undisturbed(c) ==
  /\ options[c].rollbackOn = Errors /\ faults = 0
  /\ \A i \in DOMAIN syncs[c] : syncs[c][i].phase # "hook"

(* What the result of a call of its own transaction says of the latter.    *)
ResultOf(c) ==
  /\ c \in broken => db[c] # "none"
  /\ tx[c] = c =>
       /\ pc[c] = "returned" => error[c] = "none"
       /\ pc[c] = "threw" => error[c] # "none"
       /\ error[c] = "none" =>
            /\ pc[c] = "commit" => db[c] = "active" \/ c \in broken
            /\ pc[c] \in {"AFTER_COMMIT", "AFTER_COMPLETION", "closing", "returned"} =>
                 db[c] = "committed"
       /\ Undisturbed(c) =>
            /\ pc[c] \in {"body", "BEFORE_COMMIT", "commit"} =>
                 error[c] = "none" /\ db[c] = "active" /\ client[c] = "active" /\ c \notin broken
            /\ error[c] # "none" => db[c] # "committed"

Results == \A c \in Calls : ResultOf(c)

TransactionInv ==
  TypeOK /\ MarksInLog /\ Contexts /\ Stages /\ AllTold /\ AllHolding /\ Results

-----------------------------------------------------------------------------
(* The initial states satisfy the invariant. *)
LEMMA InitInv == Init => TransactionInv
<1> SUFFICES ASSUME Init PROVE TransactionInv
  OBVIOUS
<1> USE TransactionAssumption DEF Init
<1>1. TypeOK
  BY DEF TypeOK, Places, Over, Phases
<1>2. MarksInLog /\ Contexts
  BY DEF MarksInLog, Contexts, ContextOf, OwnStages, Phases
<1>3. Stages /\ AllTold /\ AllHolding /\ Results
  BY DEF Stages, StageOf, AllTold, Told, AllHolding, Holding, Phases, Results, ResultOf
<1> QED BY <1>1, <1>2, <1>3 DEF TransactionInv

(* Sequences cut at a position they have. *)
LEMMA Cut ==
  ASSUME NEW S, NEW s \in Seq(S), NEW n \in Nat, n <= Len(s)
  PROVE  /\ SubSeq(s, 1, n) \in Seq(S)
         /\ Len(SubSeq(s, 1, n)) = n
         /\ \A i \in 1..n : SubSeq(s, 1, n)[i] = s[i]
OBVIOUS

(* Elements of a sequence. *)
LEMMA Elements ==
  ASSUME NEW S, NEW s \in Seq(S)
  PROVE  /\ Len(s) \in Nat /\ DOMAIN s = 1..Len(s)
         /\ \A i \in 1..Len(s) : s[i] \in S
OBVIOUS

(* Raise() keeps the types. *)
LEMMA RaiseTypes ==
  ASSUME TypeOK, NEW c \in Calls, NEW e \in Errors, Raise(c, e)
  PROVE  /\ pc' \in [Calls -> Places]
         /\ error' \in [Calls -> Errors \union {"none"}]
         /\ at' \in [Calls -> Nat \ {0}]
<1>1. pc \in [Calls -> Places] /\ error \in [Calls -> Errors \union {"none"}]
      /\ at \in [Calls -> Nat \ {0}]
  BY DEF TypeOK
<1>2. \E p \in {"closing", "rollback", "commit"} : pc' = [pc EXCEPT ![c] = p]
  BY DEF Raise
<1>3. {"closing", "rollback", "commit"} \subseteq Places
  BY DEF Places
<1>4. error' = [error EXCEPT ![c] = e] /\ at' = [at EXCEPT ![c] = 1]
  BY DEF Raise
<1> QED BY <1>1, <1>2, <1>3, <1>4

(* Savepoints are set at the end of the log and cut together with it.     *)
LEMMA SavepointSteps ==
  ASSUME TypeOK, MarksInLog, Contexts, NEW c \in Calls,
         SetSavepoint(c) \/ ReleaseSavepoint(c) \/ RollbackToSavepoint(c)
  PROVE  TypeOK' /\ MarksInLog'
<1> DEFINE d == tx[c]
<1>1. d \in Calls
  <2>1. pc[c] \in {"savepoint", "releasing", "undoing"}
    BY DEF SetSavepoint, ReleaseSavepoint, RollbackToSavepoint
  <2>2. tx[c] \in Calls \union {NoCall} /\ tx[c] # NoCall
    BY <2>1 DEF Contexts, ContextOf, TypeOK
  <2> QED BY <2>2
<1>2. log \in [Calls -> Seq(Calls)] /\ savepoints \in [Calls -> Seq([call : Calls, mark : Nat])]
      /\ log[d] \in Seq(Calls) /\ savepoints[d] \in Seq([call : Calls, mark : Nat])
  BY <1>1 DEF TypeOK
<1> HIDE DEF d
<1>a. /\ Len(savepoints[d]) \in Nat /\ DOMAIN savepoints[d] = 1..Len(savepoints[d])
      /\ Len(log[d]) \in Nat
      /\ \A i \in 1..Len(savepoints[d]) : savepoints[d][i] \in [call : Calls, mark : Nat]
  BY <1>2, Elements
<1>b. \A i \in 1..Len(savepoints[d]) :
        savepoints[d][i].mark \in Nat /\ savepoints[d][i].mark <= Len(log[d])
  BY <1>1, <1>a DEF MarksInLog
<1>c. \A i, j \in 1..Len(savepoints[d]) :
        i <= j => savepoints[d][i].mark <= savepoints[d][j].mark
  BY <1>1, <1>a DEF MarksInLog
<1>3. Has(c) => Position(c) \in 1..Len(savepoints[d])
  <2>1. Has(c) => Position(c) \in DOMAIN savepoints[tx[c]]
    BY DEF Has, Position
  <2> QED BY <1>a, <2>1 DEF d
<1>4. pc' \in [Calls -> Places] /\ error' \in [Calls -> Errors \union {"none"}]
      /\ undone' \subseteq Calls
  <2>1. pc \in [Calls -> Places] /\ error \in [Calls -> Errors \union {"none"}]
        /\ undone \subseteq Calls
    BY DEF TypeOK
  <2>2. \E p \in {"body", "threw", "returned", "undoing", "releasing"} : pc' = [pc EXCEPT ![c] = p]
    BY DEF SetSavepoint, ReleaseSavepoint, RollbackToSavepoint
  <2>3. {"body", "threw", "returned", "undoing", "releasing"} \subseteq Places
    BY DEF Places, Over
  <2>4. error' = error \/ error' = [error EXCEPT ![c] = "db"]
    BY DEF SetSavepoint, ReleaseSavepoint, RollbackToSavepoint
  <2>5. undone' = undone \/ undone' = undone \union {c}
    BY DEF SetSavepoint, ReleaseSavepoint, RollbackToSavepoint
  <2>6. "db" \in Errors
    BY DEF Errors
  <2> QED BY <2>1, <2>2, <2>3, <2>4, <2>5, <2>6
<1>5. UNCHANGED <<adapter, options, tx, did, db, client, broken, persisted, syncs, at, delivered,
                  held, faults>>
  BY DEF SetSavepoint, ReleaseSavepoint, RollbackToSavepoint, hookVars
<1>6. CASE SetSavepoint(c) /\ savepoints' # savepoints
  <2> DEFINE new == [call |-> c, mark |-> Len(log[d])]
  <2>1. log' = log /\ savepoints' = [savepoints EXCEPT ![d] = Append(@, new)]
    BY <1>6 DEF SetSavepoint, d
  <2>2. new \in [call : Calls, mark : Nat]
    BY <1>2
  <2>3. Append(savepoints[d], new) \in Seq([call : Calls, mark : Nat])
    BY <1>2, <2>2
  <2>4. savepoints' \in [Calls -> Seq([call : Calls, mark : Nat])]
    BY <1>1, <1>2, <2>1, <2>3
  <2>5. MarksInLog'
    <3> SUFFICES ASSUME NEW x \in Calls
                 PROVE  /\ \A i \in DOMAIN savepoints'[x] : savepoints'[x][i].mark <= Len(log[x])
                        /\ \A i, j \in DOMAIN savepoints'[x] :
                             i <= j => savepoints'[x][i].mark <= savepoints'[x][j].mark
      BY <2>1 DEF MarksInLog
    <3>1. CASE x # d
      BY <2>1, <3>1 DEF MarksInLog
    <3>2. CASE x = d
      <4>1. /\ DOMAIN savepoints'[d] = 1..(Len(savepoints[d]) + 1)
            /\ savepoints'[d][Len(savepoints[d]) + 1] = new
            /\ \A i \in 1..Len(savepoints[d]) : savepoints'[d][i] = savepoints[d][i]
        BY <1>1, <1>2, <2>1, <2>2
      <4>2. new.mark = Len(log[d])
        OBVIOUS
      <4> HIDE DEF new
      <4>3. \A i \in 1..(Len(savepoints[d]) + 1) :
              /\ savepoints'[d][i].mark \in Nat /\ savepoints'[d][i].mark <= Len(log[d])
              /\ i = Len(savepoints[d]) + 1 => savepoints'[d][i].mark = Len(log[d])
        <5> TAKE i \in 1..(Len(savepoints[d]) + 1)
        <5>1. CASE i = Len(savepoints[d]) + 1
          BY <1>a, <4>1, <4>2, <5>1
        <5>2. CASE i # Len(savepoints[d]) + 1
          <6>1. i \in 1..Len(savepoints[d])
            BY <1>a, <5>2
          <6>2. savepoints'[d][i] = savepoints[d][i]
            BY <4>1, <6>1
          <6> QED BY <1>b, <5>2, <6>1, <6>2
        <5> QED BY <5>1, <5>2
      <4>4. ASSUME NEW i \in 1..(Len(savepoints[d]) + 1), NEW j \in 1..(Len(savepoints[d]) + 1),
                   i <= j
            PROVE  savepoints'[d][i].mark <= savepoints'[d][j].mark
        <5>1. CASE j = Len(savepoints[d]) + 1
          BY <4>3, <5>1
        <5>2. CASE j # Len(savepoints[d]) + 1
          <6>1. i \in 1..Len(savepoints[d]) /\ j \in 1..Len(savepoints[d])
            BY <1>a, <4>4, <5>2
          <6> QED BY <1>c, <4>1, <4>4, <6>1
        <5> QED BY <5>1, <5>2
      <4>5. \A i \in DOMAIN savepoints'[d] : savepoints'[d][i].mark <= Len(log[d])
        BY <4>1, <4>3
      <4>6. \A i, j \in DOMAIN savepoints'[d] :
              i <= j => savepoints'[d][i].mark <= savepoints'[d][j].mark
        BY <4>1, <4>4
      <4> QED BY <3>2, <4>5, <4>6
    <3> QED BY <3>1, <3>2
  <2> QED BY <1>2, <1>4, <1>5, <2>1, <2>4, <2>5 DEF TypeOK
<1>7. CASE \E n \in 0..Len(savepoints[d]) :
             /\ savepoints' = [savepoints EXCEPT ![d] = SubSeq(@, 1, n)]
             /\ \/ log' = log
                \/ /\ n > 0
                   /\ log' = [log EXCEPT ![d] = SubSeq(@, 1, savepoints[d][n].mark)]
  <2>1. PICK n \in 0..Len(savepoints[d]) :
             /\ savepoints' = [savepoints EXCEPT ![d] = SubSeq(@, 1, n)]
             /\ \/ log' = log
                \/ /\ n > 0
                   /\ log' = [log EXCEPT ![d] = SubSeq(@, 1, savepoints[d][n].mark)]
    BY <1>7
  <2>2. /\ savepoints'[d] \in Seq([call : Calls, mark : Nat])
        /\ Len(savepoints'[d]) = n /\ DOMAIN savepoints'[d] = 1..n
        /\ \A i \in 1..n : savepoints'[d][i] = savepoints[d][i]
    <3>1. savepoints'[d] = SubSeq(savepoints[d], 1, n)
      BY <1>1, <1>2, <2>1
    <3>2. n \in Nat /\ n <= Len(savepoints[d])
      BY <1>a, <2>1
    <3> DEFINE S == [call : Calls, mark : Nat]
               w == savepoints[d]
    <3>3. w \in Seq(S) /\ n <= Len(w)
      BY <1>2, <3>2
    <3> HIDE DEF S, w
    <3>4. /\ SubSeq(w, 1, n) \in Seq(S) /\ Len(SubSeq(w, 1, n)) = n
          /\ \A i \in 1..n : SubSeq(w, 1, n)[i] = w[i]
      BY <3>2, <3>3, Cut
    <3>5. DOMAIN SubSeq(w, 1, n) = 1..n
      BY <3>4, Elements
    <3> QED BY <3>1, <3>4, <3>5 DEF S, w
  <2>3. savepoints' \in [Calls -> Seq([call : Calls, mark : Nat])]
    BY <1>1, <1>2, <2>1, <2>2
  <2>5. /\ log'[d] \in Seq(Calls)
        /\ log'[d] = log[d] \/ (n > 0 /\ Len(log'[d]) = savepoints[d][n].mark)
    <3>1. CASE log' = log
      BY <1>2, <3>1
    <3>2. CASE n > 0 /\ log' = [log EXCEPT ![d] = SubSeq(@, 1, savepoints[d][n].mark)]
      <4>1. savepoints[d][n].mark \in Nat /\ savepoints[d][n].mark <= Len(log[d])
        BY <1>b, <2>1, <3>2
      <4>2. log'[d] = SubSeq(log[d], 1, savepoints[d][n].mark)
        BY <1>1, <1>2, <3>2
      <4>3. /\ SubSeq(log[d], 1, savepoints[d][n].mark) \in Seq(Calls)
            /\ Len(SubSeq(log[d], 1, savepoints[d][n].mark)) = savepoints[d][n].mark
        <5>1. log[d] \in Seq(Calls)
          BY <1>2
        <5> DEFINE w == savepoints[d][n].mark
        <5>2. w \in Nat /\ w <= Len(log[d])
          BY <4>1
        <5> HIDE DEF w
        <5>3. SubSeq(log[d], 1, w) \in Seq(Calls) /\ Len(SubSeq(log[d], 1, w)) = w
          BY <5>1, <5>2, Cut
        <5> QED BY <5>3 DEF w
      <4> QED BY <3>2, <4>2, <4>3
    <3> QED BY <2>1, <3>1, <3>2
  <2>6. log' \in [Calls -> Seq(Calls)] /\ \A x \in Calls \ {d} : log'[x] = log[x]
    BY <1>1, <1>2, <2>1, <2>5
  <2>7. MarksInLog'
    <3> SUFFICES ASSUME NEW x \in Calls
                 PROVE  /\ \A i \in DOMAIN savepoints'[x] : savepoints'[x][i].mark <= Len(log'[x])
                        /\ \A i, j \in DOMAIN savepoints'[x] :
                             i <= j => savepoints'[x][i].mark <= savepoints'[x][j].mark
      BY DEF MarksInLog
    <3>1. CASE x # d
      <4>1. savepoints'[x] = savepoints[x] /\ log'[x] = log[x]
        BY <2>1, <2>6, <3>1
      <4> QED BY <4>1 DEF MarksInLog
    <3>2. CASE x = d
      <4>1. \A i, j \in 1..n : i <= j => savepoints[d][i].mark <= savepoints[d][j].mark
        BY <1>a, <1>c
      <4>2. \A i \in 1..n : savepoints[d][i].mark <= Len(log'[d])
        BY <1>a, <1>b, <2>5, <4>1
      <4> QED BY <2>2, <3>2, <4>1, <4>2
    <3> QED BY <3>1, <3>2
  <2> QED BY <1>4, <1>5, <2>3, <2>6, <2>7 DEF TypeOK
<1>8. CASE log' = log /\ savepoints' = savepoints
  BY <1>4, <1>5, <1>8 DEF MarksInLog, TypeOK
<1>9. CASE ReleaseSavepoint(c) /\ savepoints' # savepoints
  <2>1. Has(c) /\ log' = log /\ savepoints' = [savepoints EXCEPT ![d] = SubSeq(@, 1, Position(c) - 1)]
    BY <1>9 DEF ReleaseSavepoint, d
  <2>2. Position(c) - 1 \in 0..Len(savepoints[d])
    BY <1>2, <1>3, <2>1
  <2> QED BY <1>7, <2>1, <2>2
<1>10. CASE RollbackToSavepoint(c) /\ ~(log' = log /\ savepoints' = savepoints)
  <2>1. /\ Has(c)
        /\ savepoints' = [savepoints EXCEPT ![d] = SubSeq(@, 1, Position(c))]
        /\ log' = [log EXCEPT ![d] = SubSeq(@, 1, savepoints[d][Position(c)].mark)]
    BY <1>10 DEF RollbackToSavepoint, d
  <2>2. Position(c) \in 0..Len(savepoints[d]) /\ Position(c) > 0
    BY <1>2, <1>3, <2>1
  <2> QED BY <1>7, <2>1, <2>2
<1>11. SetSavepoint(c) \/ ReleaseSavepoint(c) => log' = log
  BY DEF SetSavepoint, ReleaseSavepoint
<1> QED BY <1>6, <1>8, <1>9, <1>10, <1>11

(* The steps that move pc only among places of execute() and change data   *)
(* of a finite type.                                                       *)
LEMMA PlainSteps ==
  ASSUME TypeOK, NEW c \in Calls,
         \/ Execute(c) \/ BodyReturns(c) \/ Connect(c) \/ ConnectFails(c) \/ StartTransaction(c)
         \/ StartFails(c) \/ Rollback(c) \/ Close(c) \/ PhaseEnds(c) \/ Drop(c)
  PROVE  TypeOK' /\ log' = log /\ savepoints' = savepoints
<1>1. log' = log /\ savepoints' = savepoints
  BY DEF Execute, BodyReturns, Connect, ConnectFails, StartTransaction, StartFails, Rollback, Close,
         PhaseEnds, Drop, dbVars
<1>2. adapter' = adapter /\ options' = options /\ did' = did /\ syncs' = syncs
      /\ delivered' = delivered /\ undone' = undone /\ persisted' = persisted
  BY DEF Execute, BodyReturns, Connect, ConnectFails, StartTransaction, StartFails, Rollback, Close,
         PhaseEnds, Drop, dbVars, hookVars
<1>3. pc' \in [Calls -> Places]
  <2>1. pc \in [Calls -> Places]
    BY DEF TypeOK
  <2>2. pc' = pc \/ \E q \in Places : pc' = [pc EXCEPT ![c] = q]
    BY DEF Execute, BodyReturns, Connect, ConnectFails, StartTransaction, StartFails, Rollback,
           Close, PhaseEnds, Drop, Places, Phases, Over, AfterPhase
  <2> QED BY <2>1, <2>2
<1>4. tx' \in [Calls -> Calls \union {NoCall}]
  <2>1. tx \in [Calls -> Calls \union {NoCall}] /\ Caller \in [Calls -> Calls \union {NoCall}]
    BY TransactionAssumption DEF TypeOK
  <2>2. Context(c) \in Calls \union {NoCall}
    BY <2>1 DEF Context
  <2>3. tx' = tx \/ \E x \in {c, Context(c)} : tx' = [tx EXCEPT ![c] = x]
    BY DEF Execute, BodyReturns, Connect, ConnectFails, StartTransaction, StartFails, Rollback,
           Close, PhaseEnds, Drop
  <2> QED BY <2>1, <2>2, <2>3
<1>5. error' \in [Calls -> Errors \union {"none"}] /\ at' \in [Calls -> Nat \ {0}]
      /\ faults' \in Nat
  <2>1. /\ error \in [Calls -> Errors \union {"none"}] /\ at \in [Calls -> Nat \ {0}]
        /\ faults \in Nat
    BY DEF TypeOK
  <2>2. /\ error' = error \/ error' = [error EXCEPT ![c] = "db"]
        /\ at' = at \/ at' = [at EXCEPT ![c] = 1]
        /\ faults' = faults \/ faults' = faults + 1
    BY DEF Fault, Execute, BodyReturns, Connect, ConnectFails, StartTransaction,
           StartFails, Rollback, Close, PhaseEnds, Drop, hookVars
  <2>3. "db" \in Errors
    BY DEF Errors
  <2> QED BY <2>1, <2>2, <2>3
<1>6. /\ db' \in [Calls -> {"none", "active", "committed", "rolled back"}]
      /\ client' \in [Calls -> {"none", "active", "committed", "aborted"}]
      /\ broken' \subseteq Calls /\ held' \subseteq Calls
  BY DEF TypeOK, Execute, BodyReturns, Connect, ConnectFails, StartTransaction,
         StartFails, Rollback, Close, PhaseEnds, Drop, dbVars
<1> QED BY <1>1, <1>2, <1>3, <1>4, <1>5, <1>6 DEF TypeOK

(* The steps that may raise an error, and Commit. *)
LEMMA RaisingSteps ==
  ASSUME TypeOK, NEW c \in Calls,
         \/ \E e \in Errors : BodyThrows(c, e)
         \/ Commit(c) \/ CommitImpossible(c) \/ CommitFails(c) \/ RollbackFails(c) \/ HookThrows(c)
  PROVE  TypeOK' /\ log' = log /\ savepoints' = savepoints
<1>1. /\ log' = log /\ savepoints' = savepoints /\ adapter' = adapter /\ options' = options
      /\ did' = did /\ tx' = tx /\ undone' = undone /\ held' = held
      /\ syncs' = syncs /\ delivered' = delivered
  BY DEF BodyThrows, Commit, CommitImpossible, CommitFails, RollbackFails, HookThrows, dbVars,
         hookVars
<1>2. pc' \in [Calls -> Places] /\ error' \in [Calls -> Errors \union {"none"}]
      /\ at' \in [Calls -> Nat \ {0}]
  <2>1. /\ pc \in [Calls -> Places] /\ error \in [Calls -> Errors \union {"none"}]
        /\ at \in [Calls -> Nat \ {0}]
    BY DEF TypeOK
  <2>2. CASE \E e \in Errors : Raise(c, e)
    BY <2>2, RaiseTypes
  <2>3. CASE Commit(c)
    BY <2>1, <2>3 DEF Commit, Places, Phases, hookVars
  <2>4. ASSUME NEW e \in Errors, BodyThrows(c, e), tx[c] # c
        PROVE  /\ pc' \in [Calls -> Places] /\ error' \in [Calls -> Errors \union {"none"}]
               /\ at' \in [Calls -> Nat \ {0}]
    BY <2>1, <2>4 DEF BodyThrows, Places, Over
  <2>5. \A e \in Errors : BodyThrows(c, e) /\ tx[c] = c => Raise(c, e)
    BY DEF BodyThrows
  <2>6. CommitImpossible(c) \/ CommitFails(c) \/ RollbackFails(c) \/ HookThrows(c) =>
          \E e \in Errors : Raise(c, e)
    BY DEF CommitImpossible, CommitFails, RollbackFails, HookThrows, Errors
  <2> QED BY <2>2, <2>3, <2>4, <2>5, <2>6
<1>3. faults' \in Nat /\ broken' \subseteq Calls
      /\ client' \in [Calls -> {"none", "active", "committed", "aborted"}]
  <2>1. /\ faults \in Nat /\ broken \subseteq Calls
        /\ client \in [Calls -> {"none", "active", "committed", "aborted"}]
    BY DEF TypeOK
  <2>2. /\ faults' = faults \/ faults' = faults + 1
        /\ broken' = broken \/ broken' = broken \union {c}
        /\ client' = client \/ client' = [client EXCEPT ![c] = "committed"]
    BY DEF Fault, BodyThrows, Commit, CommitImpossible, CommitFails, RollbackFails, HookThrows,
           dbVars
  <2> QED BY <2>1, <2>2
<1>4. Writes(c) \subseteq Calls
  <2>1. log[c] \in Seq(Calls)
    BY DEF TypeOK
  <2> QED BY <2>1, Elements DEF Writes
<1>5. /\ db' \in [Calls -> {"none", "active", "committed", "rolled back"}]
      /\ persisted' \subseteq Calls
  BY <1>4 DEF TypeOK, Commits, BodyThrows, Commit, CommitImpossible, CommitFails, RollbackFails,
              HookThrows, dbVars
<1> QED BY <1>1, <1>2, <1>3, <1>5 DEF TypeOK

(* A write makes the log longer. *)
LEMMA WriteStep ==
  ASSUME TypeOK, MarksInLog, Contexts, NEW c \in Calls, Write(c)
  PROVE  TypeOK' /\ MarksInLog'
<1>1. tx[c] \in Calls
  <2>1. tx[c] \in Calls \union {NoCall} /\ tx[c] # NoCall
    BY DEF Contexts, ContextOf, TypeOK, Write, InBody
  <2> QED BY <2>1
<1>2. /\ log' \in [Calls -> Seq(Calls)]
      /\ \A x \in Calls : Len(log[x]) \in Nat /\ Len(log'[x]) \in Nat /\ Len(log[x]) <= Len(log'[x])
  <2>1. log \in [Calls -> Seq(Calls)]
    BY DEF TypeOK
  <2>2. log' = log \/ log' = [log EXCEPT ![tx[c]] = Append(@, c)]
    BY DEF Write
  <2>3. log[tx[c]] \in Seq(Calls)
    BY <1>1, <2>1
  <2>4. /\ Append(log[tx[c]], c) \in Seq(Calls)
        /\ Len(log[tx[c]]) \in Nat /\ Len(Append(log[tx[c]], c)) = Len(log[tx[c]]) + 1
    BY <2>3
  <2>5. log' \in [Calls -> Seq(Calls)]
    BY <1>1, <2>1, <2>2, <2>4
  <2>6. ASSUME NEW x \in Calls
        PROVE  Len(log[x]) \in Nat /\ Len(log'[x]) \in Nat /\ Len(log[x]) <= Len(log'[x])
    <3>1. Len(log[x]) \in Nat /\ Len(log'[x]) \in Nat
      BY <2>1, <2>5, Elements
    <3>2. CASE log'[x] = log[x]
      BY <3>1, <3>2
    <3>3. CASE log' = [log EXCEPT ![tx[c]] = Append(@, c)] /\ x = tx[c]
      <4>1. log'[x] = Append(log[tx[c]], c)
        BY <1>1, <2>1, <3>3
      <4> QED BY <2>4, <3>3, <4>1
    <3> QED BY <2>1, <2>2, <3>2, <3>3
  <2> QED BY <2>5, <2>6
<1>3. savepoints' = savepoints
  BY DEF Write
<1>4. MarksInLog'
  <2>1. ASSUME NEW x \in Calls, NEW i \in DOMAIN savepoints[x]
        PROVE  savepoints[x][i].mark \in Nat /\ savepoints[x][i].mark <= Len(log'[x])
    <3>1. savepoints[x] \in Seq([call : Calls, mark : Nat])
      BY DEF TypeOK
    <3>2. savepoints[x][i] \in [call : Calls, mark : Nat]
      BY <2>1, <3>1, Elements
    <3>3. savepoints[x][i].mark <= Len(log[x])
      BY <2>1 DEF MarksInLog
    <3> QED BY <1>2, <3>2, <3>3
  <2> QED BY <1>3, <2>1 DEF MarksInLog
<1>5. did' \in [Calls -> SUBSET {"write", "publish"}] /\ persisted' \subseteq Calls
  BY DEF TypeOK, Write
<1>6. UNCHANGED <<adapter, options, pc, tx, error, db, client, broken, savepoints, undone, hookVars,
                 held, faults>>
  BY DEF Write
<1> QED BY <1>2, <1>4, <1>5, <1>6 DEF TypeOK, hookVars

(* The synchronizations that publish() adds. *)
LEMMA Registered ==
  ASSUME TypeOK, Contexts, NEW c \in Calls, Publish(c)
  PROVE  /\ tx[c] \in Calls
         /\ syncs' \in [Calls -> Seq([call : Calls, phase : Phases \union {"hook"}])]
         /\ \A d \in Calls : \A i \in DOMAIN syncs'[d] :
              \/ i \in DOMAIN syncs[d] /\ syncs'[d][i] = syncs[d][i]
              \/ d = tx[c] /\ syncs'[d][i].call = c
         /\ \A d \in Calls : \A i \in DOMAIN syncs[d] :
              i \in DOMAIN syncs'[d] /\ syncs'[d][i] = syncs[d][i]
<1> DEFINE S == [call : Calls, phase : Phases \union {"hook"}]
           new == [i \in DOMAIN Listeners[c] |-> [call |-> c, phase |-> Listeners[c][i]]]
<1>1. tx[c] \in Calls
  <2>1. tx[c] \in Calls \union {NoCall} /\ tx[c] # NoCall
    BY DEF Contexts, ContextOf, TypeOK, Publish, InBody
  <2> QED BY <2>1
<1>2. new \in Seq(S) /\ \A i \in 1..Len(new) : new[i].call = c
  <2>1. Listeners[c] \in Seq(Phases \union {"hook"})
    BY TransactionAssumption
  <2>2. /\ Len(Listeners[c]) \in Nat /\ DOMAIN Listeners[c] = 1..Len(Listeners[c])
        /\ \A i \in 1..Len(Listeners[c]) : Listeners[c][i] \in Phases \union {"hook"}
    BY <2>1, Elements
  <2>3. new = [i \in 1..Len(Listeners[c]) |-> [call |-> c, phase |-> Listeners[c][i]]]
    BY <2>2
  <2> QED BY <2>2, <2>3
<1> HIDE DEF new
<1>3. syncs \in [Calls -> Seq(S)] /\ syncs' = [syncs EXCEPT ![tx[c]] = @ \o new]
  BY DEF TypeOK, Publish, new
<1> HIDE DEF S
<1>4. syncs[tx[c]] \o new \in Seq(S)
  BY <1>1, <1>2, <1>3
<1>5. syncs' \in [Calls -> Seq(S)]
  BY <1>3, <1>4
<1>6. ASSUME NEW d \in Calls, NEW i \in DOMAIN syncs'[d]
      PROVE  \/ i \in DOMAIN syncs[d] /\ syncs'[d][i] = syncs[d][i]
             \/ d = tx[c] /\ syncs'[d][i].call = c
  <2>1. CASE d # tx[c]
    BY <1>3, <1>6, <2>1
  <2>2. CASE d = tx[c]
    <3>1. syncs[d] \in Seq(S) /\ syncs'[d] = syncs[d] \o new
      BY <1>3, <2>2
    <3>2. /\ Len(syncs[d]) \in Nat /\ Len(new) \in Nat /\ DOMAIN syncs[d] = 1..Len(syncs[d])
          /\ DOMAIN syncs'[d] = 1..(Len(syncs[d]) + Len(new))
      BY <1>2, <3>1
    <3>3. CASE i <= Len(syncs[d])
      BY <1>2, <1>6, <3>1, <3>2, <3>3
    <3>4. CASE i > Len(syncs[d])
      <4>1. syncs'[d][i] = new[i - Len(syncs[d])] /\ i - Len(syncs[d]) \in 1..Len(new)
        BY <1>2, <1>6, <3>1, <3>2, <3>4
      <4> QED BY <1>2, <2>2, <4>1
    <3> QED BY <1>6, <3>2, <3>3, <3>4
  <2> QED BY <2>1, <2>2
<1>7. ASSUME NEW d \in Calls, NEW i \in DOMAIN syncs[d]
      PROVE  i \in DOMAIN syncs'[d] /\ syncs'[d][i] = syncs[d][i]
  <2>1. CASE d # tx[c]
    BY <1>3, <1>7, <2>1
  <2>2. CASE d = tx[c]
    <3>1. syncs[d] \in Seq(S) /\ syncs'[d] = syncs[d] \o new
      BY <1>3, <2>2
    <3>2. /\ Len(syncs[d]) \in Nat /\ Len(new) \in Nat /\ DOMAIN syncs[d] = 1..Len(syncs[d])
          /\ DOMAIN syncs'[d] = 1..(Len(syncs[d]) + Len(new))
      BY <1>2, <3>1
    <3> QED BY <1>2, <1>7, <3>1, <3>2
  <2> QED BY <2>1, <2>2
<1> QED BY <1>1, <1>5, <1>6, <1>7 DEF S

(* Publish() keeps the types. *)
LEMMA PublishTypes ==
  ASSUME TypeOK, Contexts, NEW c \in Calls, Publish(c)
  PROVE  TypeOK' /\ log' = log /\ savepoints' = savepoints
<1>1. syncs' \in [Calls -> Seq([call : Calls, phase : Phases \union {"hook"}])]
  BY Registered
<1>2. did' \in [Calls -> SUBSET {"write", "publish"}]
  BY DEF TypeOK, Publish
<1>3. UNCHANGED <<adapter, options, pc, tx, error, db, client, broken, log, savepoints, persisted,
                  undone, at, delivered, held, faults>>
  BY DEF Publish, dbVars
<1> QED BY <1>1, <1>2, <1>3 DEF TypeOK

(* RunHook() counts a delivery, if the hook is a listener of the phase.    *)
LEMMA HookRuns ==
  ASSUME TypeOK, NEW d \in Calls, RunHook(d)
  PROVE  /\ TypeOK' /\ log' = log /\ savepoints' = savepoints
         /\ \A c \in Calls : \A p \in Phases :
              delivered'[c][p] # delivered[c][p] =>
                p = pc[d] /\ \E i \in DOMAIN syncs[d] : syncs[d][i].call = c
<1> DEFINE S == [call : Calls, phase : Phases \union {"hook"}]
           s == syncs[d][at[d]]
           more == [delivered[s.call] EXCEPT ![pc[d]] = delivered[s.call][pc[d]] + 1]
<1>1. s.call \in Calls /\ pc[d] \in Phases /\ at[d] \in DOMAIN syncs[d]
  <2>1. at[d] \in DOMAIN syncs[d] /\ pc[d] \in Phases
    BY DEF RunHook
  <2>2. syncs[d] \in Seq(S)
    BY DEF TypeOK
  <2> HIDE DEF S
  <2>3. \A i \in DOMAIN syncs[d] : syncs[d][i] \in S
    BY <2>2, Elements
  <2>4. s \in S
    BY <2>1, <2>3
  <2> HIDE DEF s
  <2>5. s.call \in Calls
    BY <2>4 DEF S
  <2> QED BY <2>1, <2>5
<1>2. at' \in [Calls -> Nat \ {0}]
  <2>1. at \in [Calls -> Nat \ {0}] /\ at' = [at EXCEPT ![d] = @ + 1]
    BY DEF TypeOK, RunHook
  <2> QED BY <2>1
<1>3. UNCHANGED <<adapter, options, pc, tx, error, did, db, client, broken, log, savepoints,
                  persisted, undone, syncs, held, faults>>
  BY DEF RunHook, dbVars
<1>4. delivered' = delivered \/ delivered' = [delivered EXCEPT ![s.call] = more]
  <2>1. CASE Listening(d)
    <3>1. s.phase = pc[d] /\ delivered' = [delivered EXCEPT ![s.call][s.phase] = @ + 1]
      BY <2>1 DEF RunHook, Listening
    <3> HIDE DEF s
    <3> QED BY <3>1
  <2>2. CASE ~Listening(d)
    BY <2>2 DEF RunHook
  <2> QED BY <2>1, <2>2
<1> HIDE DEF s
<1>5. delivered \in [Calls -> [Phases -> Nat]]
  BY DEF TypeOK
<1>6. delivered[s.call] \in [Phases -> Nat]
  BY <1>1, <1>5
<1>7. /\ more \in [Phases -> Nat]
      /\ \A p \in Phases : p # pc[d] => more[p] = delivered[s.call][p]
  BY <1>1, <1>6
<1> HIDE DEF more
<1>8. TypeOK'
  <2>1. delivered' \in [Calls -> [Phases -> Nat]]
    BY <1>1, <1>4, <1>5, <1>7
  <2> QED BY <1>2, <1>3, <2>1 DEF TypeOK
<1>9. ASSUME NEW c \in Calls, NEW p \in Phases, delivered'[c][p] # delivered[c][p]
      PROVE  p = pc[d] /\ \E i \in DOMAIN syncs[d] : syncs[d][i].call = c
  <2>1. c = s.call /\ p = pc[d]
    BY <1>1, <1>4, <1>5, <1>7, <1>9
  <2> QED BY <1>1, <2>1 DEF s
<1> QED BY <1>3, <1>8, <1>9

(* c makes a step. *)
CallStep(c) ==
  \/ Execute(c) \/ Step(c) \/ ConnectFails(c) \/ StartFails(c) \/ CommitFails(c) \/ Drop(c)

(* Types and savepoints are right after every step. *)
LEMMA TypesStep ==
  ASSUME TypeOK, MarksInLog, Contexts, NEW c \in Calls, CallStep(c)
  PROVE  TypeOK' /\ MarksInLog'
<1>1. CASE SetSavepoint(c) \/ ReleaseSavepoint(c) \/ RollbackToSavepoint(c)
  BY <1>1, SavepointSteps
<1>2. CASE Write(c)
  BY <1>2, WriteStep
<1>3. CASE TypeOK' /\ log' = log /\ savepoints' = savepoints
  BY <1>3 DEF MarksInLog
<1> QED
  BY <1>1, <1>2, <1>3, PlainSteps, RaisingSteps, PublishTypes, HookRuns DEF CallStep, Step

(* Facts of the types of the variables that the other parts are about. *)
LEMMA Functions ==
  ASSUME TypeOK
  PROVE  /\ pc \in [Calls -> Places] /\ tx \in [Calls -> Calls \union {NoCall}]
         /\ error \in [Calls -> Errors \union {"none"}]
         /\ db \in [Calls -> {"none", "active", "committed", "rolled back"}]
         /\ client \in [Calls -> {"none", "active", "committed", "aborted"}]
BY DEF TypeOK

(* A call's step leaves the place, context and transaction of others alone. *)
LEMMA Local ==
  ASSUME TypeOK, NEW c \in Calls, CallStep(c)
  PROVE  /\ adapter' = adapter /\ options' = options
         /\ \A x \in Calls \ {c} :
              /\ pc'[x] = pc[x] /\ tx'[x] = tx[x] /\ error'[x] = error[x]
              /\ db'[x] = db[x] /\ client'[x] = client[x]
              /\ (x \in broken' <=> x \in broken) /\ (x \in held' <=> x \in held)
<1> USE Functions
<1>1. CASE Execute(c) \/ Connect(c) \/ ConnectFails(c) \/ StartTransaction(c) \/ StartFails(c)
           \/ Close(c) \/ Drop(c)
  BY <1>1 DEF Execute, Connect, ConnectFails, StartTransaction, StartFails, Close, Drop, dbVars
<1>2. CASE SetSavepoint(c) \/ ReleaseSavepoint(c) \/ RollbackToSavepoint(c) \/ Write(c) \/ Publish(c)
  BY <1>2 DEF SetSavepoint, ReleaseSavepoint, RollbackToSavepoint, Write, Publish, dbVars
<1>3. CASE BodyReturns(c) \/ (\E e \in Errors : BodyThrows(c, e)) \/ CommitImpossible(c)
           \/ RollbackFails(c) \/ HookThrows(c)
  BY <1>3 DEF BodyReturns, BodyThrows, CommitImpossible, RollbackFails, HookThrows, Raise, dbVars
<1>4. CASE Commit(c) \/ CommitFails(c)
  BY <1>4 DEF Commit, CommitFails, Commits, Raise
<1>5. CASE Rollback(c) \/ RunHook(c) \/ PhaseEnds(c)
  BY <1>5 DEF Rollback, RunHook, PhaseEnds, dbVars
<1> QED BY <1>1, <1>2, <1>3, <1>4, <1>5 DEF CallStep, Step

(* A call that has begun keeps its context, and its place fits it. *)
LEMMA ContextKept ==
  ASSUME TypeOK, Contexts, Stages, NEW c \in Calls, CallStep(c), ~Execute(c)
  PROVE  tx' = tx /\ ContextOf(c)'
<1> USE Functions DEF OwnStages, Phases, Over
<1>1. ContextOf(c) /\ StageOf(c)
  BY DEF Contexts, Stages
<1>2. tx' = tx
  BY DEF CallStep, Step, Connect, ConnectFails, StartTransaction, StartFails, Close, Drop,
         SetSavepoint, ReleaseSavepoint, RollbackToSavepoint, Write, Publish, BodyReturns, BodyThrows,
         CommitImpossible, RollbackFails, HookThrows, Commit, CommitFails, Rollback, RunHook, PhaseEnds
<1>3. CASE Connect(c) \/ ConnectFails(c) \/ StartTransaction(c) \/ StartFails(c) \/ Close(c)
  BY <1>1, <1>2, <1>3 DEF Connect, ConnectFails, StartTransaction, StartFails, Close, ContextOf
<1>4. CASE Drop(c)
  BY <1>1, <1>2, <1>4 DEF Drop, ContextOf, StageOf
<1>5. CASE SetSavepoint(c) \/ ReleaseSavepoint(c) \/ RollbackToSavepoint(c)
  BY <1>1, <1>2, <1>5 DEF SetSavepoint, ReleaseSavepoint, RollbackToSavepoint, ContextOf
<1>6. CASE Write(c) \/ Publish(c) \/ RunHook(c)
  BY <1>1, <1>2, <1>6 DEF Write, Publish, RunHook, ContextOf
<1>7. CASE BodyReturns(c)
  BY <1>1, <1>2, <1>7 DEF BodyReturns, InSavepoint, ContextOf
<1>8. CASE \E e \in Errors : BodyThrows(c, e)
  <2>1. PICK e \in Errors : BodyThrows(c, e)
    BY <1>8
  <2>2. CASE tx[c] = c
    <3>1. pc'[c] \in {"rollback", "commit", "closing"}
      BY <2>1, <2>2 DEF BodyThrows, Raise
    <3> QED BY <1>1, <1>2, <2>1, <2>2, <3>1 DEF BodyThrows, ContextOf
  <2>3. CASE tx[c] # c
    <3>1. pc'[c] \in {"threw", "undoing", "releasing"}
      BY <2>1, <2>3 DEF BodyThrows
    <3> QED BY <1>1, <1>2, <2>1, <2>3, <3>1 DEF BodyThrows, ContextOf
  <2> QED BY <2>2, <2>3
<1>9. CASE CommitImpossible(c) \/ CommitFails(c) \/ RollbackFails(c) \/ HookThrows(c)
  <2>1. pc[c] \in {"commit", "rollback"} \union Phases
        /\ pc'[c] \in {"commit", "rollback", "closing"}
    BY <1>9 DEF CommitImpossible, CommitFails, RollbackFails, HookThrows, Raise
  <2> QED BY <1>1, <1>2, <2>1 DEF ContextOf
<1>10. CASE Commit(c) \/ Rollback(c) \/ PhaseEnds(c)
  BY <1>1, <1>2, <1>10 DEF Commit, Rollback, PhaseEnds, AfterPhase, ContextOf
<1> QED
  BY <1>2, <1>3, <1>4, <1>5, <1>6, <1>7, <1>8, <1>9, <1>10 DEF CallStep, Step

(* A call that joins is in the transaction of a call other than itself. *)
LEMMA JoinsAnother ==
  ASSUME Contexts, NEW c \in Calls, tx[c] = NoCall, Joins(c)
  PROVE  Context(c) # c
<1> SUFFICES ASSUME Context(c) = c
             PROVE  FALSE
  OBVIOUS
<1>1. c # NoCall
  BY TransactionAssumption
<1>2. Caller[c] \in Calls /\ tx[Caller[c]] = c
  BY <1>1, TransactionAssumption DEF Context
<1>3. tx[c] = c
  BY <1>1, <1>2 DEF Contexts
<1> QED BY <1>1, <1>3

(* A call that begins gets a context. *)
LEMMA ContextChosen ==
  ASSUME TypeOK, Contexts, NEW c \in Calls, Execute(c)
  PROVE  /\ tx[c] = NoCall /\ tx'[c] # NoCall /\ tx'[c] \in Calls
         /\ tx'[tx'[c]] = tx'[c]
         /\ ContextOf(c)'
<1> USE Functions, TransactionAssumption
<1>1. pc[c] = "idle" /\ tx[c] = NoCall
  BY DEF Execute, Callable, Contexts, ContextOf
<1>2. Context(c) # NoCall => Context(c) \in Calls /\ tx[Context(c)] = Context(c) /\ Context(c) # c
  <2>1. SUFFICES ASSUME Context(c) # NoCall
                 PROVE  Context(c) \in Calls /\ tx[Context(c)] = Context(c) /\ Context(c) # c
    OBVIOUS
  <2>2. Caller[c] \in Calls /\ Context(c) = tx[Caller[c]]
    BY <2>1 DEF Context
  <2> DEFINE k == Caller[c]
  <2>3. k \in Calls /\ tx[k] # NoCall /\ Context(c) = tx[k]
    BY <2>1, <2>2
  <2> HIDE DEF k
  <2>4. Context(c) \in Calls /\ tx[Context(c)] = Context(c)
    <3>1. tx[k] \in Calls
      BY <2>3
    <3>2. tx[tx[k]] = tx[k]
      BY <2>3 DEF Contexts
    <3> QED BY <2>3, <3>1, <3>2
  <2> QED BY <1>1, <2>4
<1>3. /\ tx' = [tx EXCEPT ![c] = IF Joins(c) \/ Nests(c) THEN Context(c) ELSE c]
      /\ pc' = [pc EXCEPT ![c] =
           IF Joins(c) THEN "body" ELSE IF Nests(c) THEN "savepoint" ELSE "connecting"]
  BY DEF Execute
<1>4. CASE Joins(c) \/ Nests(c)
  <2>1. Context(c) # NoCall
    BY <1>4 DEF Joins, Nests
  <2>2. tx'[c] = Context(c) /\ pc'[c] \in {"body", "savepoint"}
    BY <1>3, <1>4
  <2>3. tx'[tx'[c]] = tx'[c]
    BY <1>2, <1>3, <2>1, <2>2
  <2> QED BY <1>1, <1>2, <2>1, <2>2, <2>3 DEF ContextOf, OwnStages, Phases
<1>5. CASE ~(Joins(c) \/ Nests(c))
  <2>1. tx'[c] = c /\ pc'[c] = "connecting"
    BY <1>3, <1>5
  <2> QED BY <1>1, <2>1 DEF ContextOf, OwnStages, Phases
<1> QED BY <1>4, <1>5

(* Contexts are right after every step. *)
LEMMA ContextStep ==
  ASSUME TypeOK, Contexts, Stages, NEW c \in Calls, CallStep(c)
  PROVE  Contexts'
<1> USE Functions
<1>1. \A x \in Calls \ {c} : tx'[x] = tx[x] /\ pc'[x] = pc[x]
  BY Local
<1>2. ContextOf(c)' /\ (tx' = tx \/ Execute(c))
  BY ContextKept, ContextChosen
<1>3. ASSUME NEW x \in Calls
      PROVE  ContextOf(x)'
  <2>1. CASE x = c
    BY <1>2, <2>1
  <2>2. CASE x # c
    <3>1. tx'[x] = tx[x] /\ pc'[x] = pc[x] /\ ContextOf(x)
      BY <1>1, <2>2 DEF Contexts
    <3> QED BY <3>1 DEF ContextOf
  <2> QED BY <2>1, <2>2
<1>4. ASSUME NEW x \in Calls, tx'[x] # NoCall
      PROVE  tx'[tx'[x]] = tx'[x]
  <2>1. CASE tx' = tx
    BY <1>4, <2>1 DEF Contexts
  <2>2. CASE Execute(c)
    <3>1. CASE x = c
      BY <2>2, <3>1, ContextChosen
    <3>2. CASE x # c
      <4>1. tx'[x] = tx[x] /\ tx[tx[x]] = tx[x] /\ tx[x] \in Calls
        BY <1>1, <1>4, <3>2 DEF Contexts
      <4>2. tx[x] # c
        BY <1>4, <2>2, <4>1, ContextChosen
      <4> QED BY <1>1, <4>1, <4>2
    <3> QED BY <3>1, <3>2
  <2> QED BY <1>2, <2>1, <2>2
<1>5. ASSUME NEW d \in Calls, NEW i \in DOMAIN syncs'[d]
      PROVE  tx'[syncs'[d][i].call] = d
  <2>1. CASE Publish(c)
    <3>1. tx' = tx
      BY <2>1 DEF Publish
    <3>2. \/ i \in DOMAIN syncs[d] /\ syncs'[d][i] = syncs[d][i]
          \/ d = tx[c] /\ syncs'[d][i].call = c
      <4>1. \A y \in Calls : \A l \in DOMAIN syncs'[y] :
              \/ l \in DOMAIN syncs[y] /\ syncs'[y][l] = syncs[y][l]
              \/ y = tx[c] /\ syncs'[y][l].call = c
        BY <2>1, Registered
      <4> QED BY <1>5, <4>1, Zenon
    <3> QED BY <3>1, <3>2 DEF Contexts
  <2>2. CASE syncs' = syncs
    <3>1. tx[syncs[d][i].call] = d
      BY <1>5, <2>2 DEF Contexts
    <3>2. CASE tx' = tx
      BY <2>2, <3>1, <3>2
    <3>3. CASE Execute(c)
      <4> DEFINE S == [call : Calls, phase : Phases \union {"hook"}]
                 s == syncs[d][i]
      <4>1. syncs[d] \in Seq(S)
        BY DEF TypeOK
      <4> HIDE DEF S
      <4>2. s \in S
        BY <1>5, <2>2, <4>1, Elements
      <4> HIDE DEF s
      <4>5. s.call \in Calls
        BY <4>2 DEF S
      <4>3. syncs[d][i].call \in Calls
        BY <4>5 DEF s
      <4>4. syncs[d][i].call # c
        BY <3>1, <3>3, ContextChosen, TransactionAssumption
      <4> QED BY <1>1, <2>2, <3>1, <4>3, <4>4
    <3> QED BY <1>2, <3>2, <3>3
  <2>3. Publish(c) \/ syncs' = syncs
    BY DEF CallStep, Step, Execute, Connect, ConnectFails, StartTransaction, StartFails, Close, Drop,
           SetSavepoint, ReleaseSavepoint, RollbackToSavepoint, Write, BodyReturns, BodyThrows,
           CommitImpossible, RollbackFails, HookThrows, Commit, CommitFails, Rollback, RunHook,
           PhaseEnds, hookVars
  <2> QED BY <2>1, <2>2, <2>3
<1> QED BY <1>3, <1>4, <1>5 DEF Contexts

-----------------------------------------------------------------------------
(* What each step makes of the transaction of its call. *)

(* An error: where it leaves to is known to be right. *)
LEMMA StageAfterRaise ==
  ASSUME TypeOK, Contexts, Stages, NEW c \in Calls, NEW e \in Errors, Raise(c, e),
         tx' = tx, options' = options, adapter' = adapter,
         pc[c] \in {"body", "commit", "rollback"} \union Phases, tx[c] = c,
         pc[c] = "rollback" => error[c] # "none",
         error[c] = "none" /\ ~ShouldRollback(c, e) =>
           MayCommit(c)' \/ ~ShouldRollback(c, "db"),
         client'[c] = "active" /\ db'[c] = "committed" => adapter = "typeorm" /\ c \in broken'
  PROVE  StageOf(c)'
<1> USE Functions
<1>1. error'[c] = e /\ e # "none"
  BY DEF Raise, Errors
<1>2. pc'[c] = IF error[c] # "none" THEN "closing"
               ELSE IF ShouldRollback(c, e) THEN "rollback" ELSE "commit"
  BY DEF Raise
<1>3. ShouldRollback(c, "db")' <=> ShouldRollback(c, "db")
  BY DEF ShouldRollback
<1> QED BY <1>1, <1>2, <1>3 DEF StageOf

(* A step leaves the transaction of its call in a legal stage. *)
LEMMA StageStep ==
  ASSUME TypeOK, Contexts, Stages, NEW c \in Calls, CallStep(c)
  PROVE  StageOf(c)'
<1> USE Functions
<1>1. ContextOf(c) /\ StageOf(c)
  BY DEF Contexts, Stages
<1>2. adapter' = adapter /\ options' = options
  BY Local
<1>3. \A e : ShouldRollback(c, e)' <=> ShouldRollback(c, e)
  BY Local DEF ShouldRollback
<1>4. CASE Execute(c)
  <2>1. pc[c] = "idle" /\ pc'[c] \in {"body", "savepoint", "connecting"}
        /\ db' = db /\ error' = error /\ client' = client
    BY <1>4 DEF Execute, Callable, dbVars
  <2>2. pc'[c] = "body" => tx'[c] # c
    <3>1. pc'[c] = "body" => Joins(c) /\ tx'[c] = Context(c)
      BY <1>4 DEF Execute
    <3>2. tx[c] = NoCall
      BY <1>1, <2>1 DEF ContextOf
    <3>3. Joins(c) => Context(c) # c
      BY <3>2, JoinsAnother
    <3> QED BY <3>1, <3>3
  <2> QED BY <1>1, <2>1, <2>2 DEF StageOf, Phases
<1>5. CASE Connect(c) \/ ConnectFails(c) \/ StartTransaction(c) \/ StartFails(c) \/ Close(c)
  <2>1. tx' = tx
    BY <1>5 DEF Connect, ConnectFails, StartTransaction, StartFails, Close
  <2> QED
    BY <1>1, <1>3, <1>5, <2>1 DEF Connect, ConnectFails, StartTransaction, StartFails, Close, StageOf,
                                  Phases, dbVars
<1>6. CASE SetSavepoint(c) \/ ReleaseSavepoint(c) \/ RollbackToSavepoint(c)
  <2>1. tx[c] # c /\ tx' = tx
    BY <1>1, <1>6 DEF SetSavepoint, ReleaseSavepoint, RollbackToSavepoint, ContextOf
  <2>2. pc'[c] \in {"body", "threw", "returned", "undoing", "releasing"} /\ db' = db
        /\ client' = client /\ broken' = broken
    BY <1>6 DEF SetSavepoint, ReleaseSavepoint, RollbackToSavepoint
  <2> QED BY <1>1, <1>2, <2>1, <2>2 DEF StageOf
<1>7. CASE Write(c) \/ Publish(c) \/ RunHook(c)
  <2>1. tx' = tx /\ pc' = pc /\ db' = db /\ client' = client /\ broken' = broken /\ error' = error
    BY <1>7 DEF Write, Publish, RunHook, dbVars
  <2> QED BY <1>1, <1>2, <1>3, <2>1 DEF StageOf, MayCommit, CountsAsCommitted
<1>8. CASE BodyReturns(c)
  <2>1. tx' = tx /\ db' = db /\ client' = client /\ broken' = broken /\ error' = error
        /\ pc[c] = "body"
        /\ IF tx[c] = c THEN pc'[c] = "BEFORE_COMMIT" ELSE pc'[c] \in {"releasing", "returned"}
    BY <1>8 DEF BodyReturns, dbVars
  <2> QED BY <1>1, <1>2, <2>1 DEF StageOf
<1>9. ASSUME NEW e \in Errors, BodyThrows(c, e)
      PROVE  StageOf(c)'
  <2>1. tx' = tx /\ db' = db /\ client' = client /\ broken' = broken /\ pc[c] = "body"
    BY <1>9 DEF BodyThrows, dbVars
  <2>2. CASE tx[c] = c
    <3>1. Raise(c, e)
      BY <1>9, <2>2 DEF BodyThrows
    <3>2. MayCommit(c)'
      BY <1>1, <2>1, <2>2 DEF StageOf, MayCommit
    <3> QED BY <1>1, <1>2, <2>1, <2>2, <3>1, <3>2, StageAfterRaise DEF StageOf
  <2>3. CASE tx[c] # c
    <3>1. pc'[c] \in {"threw", "undoing", "releasing"}
      BY <1>9, <2>1, <2>3 DEF BodyThrows
    <3> QED BY <1>1, <1>2, <2>1, <2>3, <3>1 DEF StageOf
  <2> QED BY <2>2, <2>3
<1>10. CASE CommitImpossible(c) \/ RollbackFails(c)
  <2>1. tx' = tx /\ db' = db /\ broken' = broken /\ Raise(c, "db") /\ pc[c] \in {"commit", "rollback"}
    BY <1>10 DEF CommitImpossible, RollbackFails, dbVars
  <2>2. tx[c] = c /\ "db" \in Errors
    BY <1>1, <2>1 DEF ContextOf, OwnStages, Errors
  <2>3. client'[c] = "active" => client[c] = "active"
    BY <1>10 DEF CommitImpossible, RollbackFails, dbVars, TypeOK
  <2> QED BY <1>1, <1>2, <2>1, <2>2, <2>3, StageAfterRaise DEF StageOf
<1>11. CASE CommitFails(c)
  <2>1. tx' = tx /\ Raise(c, "db") /\ pc[c] = "commit"
    BY <1>11 DEF CommitFails
  <2>2. tx[c] = c /\ "db" \in Errors
    BY <1>1, <2>1 DEF ContextOf, OwnStages, Errors
  <2>3. client'[c] = "active" /\ db'[c] = "committed" => adapter = "typeorm" /\ c \in broken'
    <3>1. adapter \in {"typeorm", "mongoose"}
      BY TransactionAssumption DEF TypeOK
    <3>2. \/ db'[c] = "rolled back"
          \/ broken' = IF adapter = "typeorm" THEN broken \union {c} ELSE broken
      BY <1>11 DEF CommitFails
    <3>3. client' = IF adapter = "mongoose" THEN [client EXCEPT ![c] = "committed"] ELSE client
      BY <1>11 DEF CommitFails
    <3> QED BY <3>1, <3>2, <3>3
  <2> QED BY <1>1, <1>2, <2>1, <2>2, <2>3, StageAfterRaise DEF StageOf
<1>12. CASE HookThrows(c)
  <2>1. tx' = tx /\ db' = db /\ client' = client /\ broken' = broken /\ Raise(c, "hook")
        /\ pc[c] \in Phases
    BY <1>12 DEF HookThrows, dbVars
  <2>2. tx[c] = c /\ "hook" \in Errors
    BY <1>1, <2>1 DEF ContextOf, OwnStages, Errors
  <2>3. error[c] = "none" => MayCommit(c)' \/ ~ShouldRollback(c, "db")
    BY <1>1, <2>1, <2>2 DEF StageOf, MayCommit, CountsAsCommitted, Phases
  <2> QED BY <1>1, <1>2, <2>1, <2>2, <2>3, StageAfterRaise DEF StageOf
<1>13. CASE Commit(c)
  <2>1. pc'[c] = "AFTER_COMMIT" /\ client'[c] = "committed" /\ pc[c] = "commit"
    BY <1>13 DEF Commit
  <2>2. CountsAsCommitted(c)'
    BY <1>1, <1>3, <1>13 DEF Commit, Commits, StageOf, MayCommit, CountsAsCommitted
  <2> QED BY <2>1, <2>2 DEF StageOf
<1>14. CASE Rollback(c)
  <2>1. pc'[c] = "AFTER_ROLLBACK" /\ client'[c] = "aborted" /\ db'[c] = "rolled back"
        /\ error' = error /\ pc[c] = "rollback"
    BY <1>14 DEF Rollback
  <2> QED BY <1>1, <2>1 DEF StageOf
<1>15. CASE PhaseEnds(c)
  <2>1. /\ tx' = tx /\ db' = db /\ client' = client /\ broken' = broken /\ error' = error
        /\ pc[c] \in Phases /\ pc'[c] = AfterPhase(pc[c])
    BY <1>15 DEF PhaseEnds, dbVars
  <2>2. tx[c] = c
    BY <1>1, <2>1 DEF ContextOf, OwnStages
  <2> QED BY <1>1, <1>2, <1>3, <2>1, <2>2 DEF StageOf, MayCommit, CountsAsCommitted, AfterPhase, Phases
<1>16. CASE Drop(c)
  <2>1. /\ tx' = tx /\ pc' = pc /\ client' = client /\ error' = error
        /\ db[c] = "active" /\ db'[c] = "rolled back" /\ c \in broken'
    BY <1>16 DEF Drop
  <2> QED BY <1>1, <1>3, <2>1 DEF StageOf, MayCommit, CountsAsCommitted
<1> QED
  BY <1>4, <1>5, <1>6, <1>7, <1>8, <1>9, <1>10, <1>11, <1>12, <1>13, <1>14, <1>15, <1>16
     DEF CallStep, Step

(* The outcome of a transaction is final. *)
LEMMA OutcomeFinal ==
  ASSUME TypeOK, Contexts, Stages, NEW c \in Calls, CallStep(c)
  PROVE  \A d \in Calls : db[d] \in {"committed", "rolled back"} => db'[d] = db[d]
<1> USE Functions
<1>1. StageOf(c) /\ \A d \in Calls \ {c} : db'[d] = db[d]
  BY Local DEF Stages
<1>2. db[c] \in {"committed", "rolled back"} => db'[c] = db[c]
  <2>1. CASE db' = db
    BY <2>1
  <2>2. CASE StartTransaction(c)
    BY <1>1, <2>2 DEF StartTransaction, StageOf
  <2>3. CASE Commit(c) \/ CommitFails(c) \/ Drop(c)
    BY <2>3 DEF Commit, CommitFails, Drop, Commits
  <2>4. CASE Rollback(c)
    BY <1>1, <2>4 DEF Rollback, CanRollback, StageOf
  <2>5. db' = db \/ StartTransaction(c) \/ Commit(c) \/ CommitFails(c) \/ Rollback(c) \/ Drop(c)
    BY DEF CallStep, Step, Execute, Connect, ConnectFails, StartFails, Close,
           SetSavepoint, ReleaseSavepoint, RollbackToSavepoint, Write, Publish, BodyReturns, BodyThrows,
           CommitImpossible, RollbackFails, HookThrows, RunHook, PhaseEnds, dbVars
  <2> QED BY <2>1, <2>2, <2>3, <2>4, <2>5
<1> QED BY <1>1, <1>2

(* A step leaves the transactions of all calls in legal stages. *)
LEMMA StagesStep ==
  ASSUME TypeOK, Contexts, Stages, NEW c \in Calls, CallStep(c)
  PROVE  Stages'
<1>1. ASSUME NEW x \in Calls, x # c
      PROVE  StageOf(x)'
  <2>1. StageOf(x)
    BY DEF Stages
  <2>2. /\ pc'[x] = pc[x] /\ tx'[x] = tx[x] /\ error'[x] = error[x] /\ db'[x] = db[x]
        /\ client'[x] = client[x] /\ (x \in broken' <=> x \in broken)
        /\ adapter' = adapter /\ options' = options
    BY <1>1, Local
  <2> QED BY <2>1, <2>2 DEF StageOf, MayCommit, CountsAsCommitted, ShouldRollback
<1> QED BY <1>1, StageStep DEF Stages

(* Only RunHook() delivers. *)
LEMMA DeliveredKept ==
  ASSUME NEW c \in Calls, CallStep(c), ~RunHook(c)
  PROVE  delivered' = delivered
BY DEF CallStep, Step, Execute, Connect, ConnectFails, StartTransaction, StartFails, Close, Drop,
       SetSavepoint, ReleaseSavepoint, RollbackToSavepoint, Write, Publish, BodyReturns, BodyThrows,
       CommitImpossible, RollbackFails, HookThrows, Commit, CommitFails, Rollback, PhaseEnds, hookVars

(* Arithmetic. *)
LEMMA NotPositive == \A i : i = 0 => ~(i > 0)
BY SMT

(* What has been delivered stays true, and what is delivered is.          *)
LEMMA ToldStep ==
  ASSUME TypeOK, Contexts, Stages, AllTold, NEW c \in Calls, CallStep(c)
  PROVE  AllTold'
<1> SUFFICES ASSUME NEW x \in Calls PROVE Told(x)'
  BY DEF AllTold
<1> USE Functions
<1>1. Told(x) /\ ContextOf(x) /\ StageOf(c) /\ ContextOf(x)'
  BY ContextStep DEF AllTold, Contexts, Stages
<1>2. options' = options
  BY Local
<1>3. \A d \in Calls : db[d] \in {"committed", "rolled back"} => db'[d] = db[d]
  BY OutcomeFinal
<1>4. ASSUME NEW p \in Phases, delivered'[x][p] # delivered[x][p]
      PROVE  p = pc[c] /\ tx[x] = c
  <2>1. RunHook(c)
    BY <1>4, DeliveredKept
  <2>2. \A y \in Calls : \A q \in Phases :
          delivered'[y][q] # delivered[y][q] =>
            q = pc[c] /\ \E i \in DOMAIN syncs[c] : syncs[c][i].call = y
    BY <2>1, HookRuns
  <2>3. p = pc[c] /\ \E i \in DOMAIN syncs[c] : syncs[c][i].call = x
    BY <1>4, <2>2
  <2>4. \A i \in DOMAIN syncs[c] : tx[syncs[c][i].call] = c
    BY DEF Contexts
  <2> QED BY <2>3, <2>4
<1>5. "AFTER_COMMIT" \in Phases /\ "AFTER_ROLLBACK" \in Phases
  BY DEF Phases
<1>6. CASE tx[x] = NoCall
  <2>1. /\ pc[x] = "idle"
        /\ delivered[x]["AFTER_COMMIT"] = 0 /\ delivered[x]["AFTER_ROLLBACK"] = 0
    BY <1>1, <1>6 DEF ContextOf, Told
  <2>2. \A p \in Phases : delivered'[x][p] = delivered[x][p]
    BY <1>4, <1>6, TransactionAssumption
  <2>3. delivered'[x]["AFTER_COMMIT"] = 0 /\ delivered'[x]["AFTER_ROLLBACK"] = 0
    BY <1>5, <2>1, <2>2
  <2>4. ~(delivered'[x]["AFTER_COMMIT"] > 0) /\ ~(delivered'[x]["AFTER_ROLLBACK"] > 0)
    <3> QED BY <2>3, NotPositive
  <2> QED BY <2>3, <2>4, Zenon DEF Told
<1>7. CASE tx[x] # NoCall
  <2> DEFINE d == tx[x]
  <2>1. d \in Calls /\ pc[x] # "idle"
    BY <1>1, <1>7 DEF ContextOf
  <2>2. tx'[x] = d
    <3>1. CASE Execute(c)
      <4>1. x # c
        BY <1>7, <3>1, ContextChosen
      <4> QED BY <4>1, Local
    <3> QED BY <3>1, ContextKept
  <2>3. pc'[x] # "idle"
    BY <1>1, <1>7, <2>2 DEF ContextOf
  <2>4. /\ delivered[x]["AFTER_COMMIT"] > 0 => CountsAsCommitted(d)
        /\ delivered[x]["AFTER_ROLLBACK"] > 0 => db[d] = "rolled back"
    BY <1>1, <1>7 DEF Told
  <2>5. /\ delivered'[x]["AFTER_COMMIT"] # delivered[x]["AFTER_COMMIT"] => CountsAsCommitted(d)
        /\ delivered'[x]["AFTER_ROLLBACK"] # delivered[x]["AFTER_ROLLBACK"] => db[d] = "rolled back"
    BY <1>1, <1>4, <1>5 DEF StageOf
  <2> HIDE DEF d
  <2>6. CountsAsCommitted(d) => db'[d] = "committed" \/ "db" \notin options'[d].rollbackOn
    <3>1. db[d] = "committed" => db'[d] = db[d]
      BY <1>3, <2>1
    <3> QED BY <1>2, <3>1 DEF CountsAsCommitted, ShouldRollback
  <2>7. db[d] = "rolled back" => db'[d] = "rolled back"
    BY <1>3, <2>1
  <2>8. delivered'[x]["AFTER_COMMIT"] > 0 =>
          db'[d] = "committed" \/ "db" \notin options'[d].rollbackOn
    BY <2>4, <2>5, <2>6
  <2>9. delivered'[x]["AFTER_ROLLBACK"] > 0 => db'[d] = "rolled back"
    BY <2>4, <2>5, <2>7
  <2>10. db'[tx'[x]] = db'[d] /\ options'[tx'[x]] = options'[d]
    BY <2>2
  <2> QED BY <2>3, <2>8, <2>9, <2>10 DEF Told, CountsAsCommitted, ShouldRollback
<1> QED BY <1>6, <1>7

(* Who holds a connection keeps it until Close(), or has none to return.   *)
LEMMA HoldingStep ==
  ASSUME TypeOK, Contexts, Stages, AllHolding, NEW c \in Calls, CallStep(c)
  PROVE  AllHolding'
<1> USE Functions DEF Over
<1>1. ASSUME NEW x \in Calls, x # c
      PROVE  Holding(x)'
  <2>1. Holding(x)
    BY DEF AllHolding
  <2>2. /\ pc'[x] = pc[x] /\ tx'[x] = tx[x] /\ db'[x] = db[x] /\ (x \in held' <=> x \in held)
    BY <1>1, Local
  <2> QED BY <2>1, <2>2 DEF Holding
<1>2. Holding(c)'
  <2>1. Holding(c) /\ ContextOf(c) /\ StageOf(c)
    BY DEF AllHolding, Contexts, Stages
  <2>2. CASE Execute(c) \/ Connect(c) \/ ConnectFails(c) \/ StartTransaction(c) \/ StartFails(c)
             \/ Close(c)
    BY <2>1, <2>2 DEF Execute, Callable, Connect, ConnectFails, StartTransaction, StartFails, Close,
                      Holding, ContextOf, StageOf, OwnStages, dbVars
  <2>3. CASE SetSavepoint(c) \/ ReleaseSavepoint(c) \/ RollbackToSavepoint(c)
    BY <2>1, <2>3 DEF SetSavepoint, ReleaseSavepoint, RollbackToSavepoint, Holding, ContextOf
  <2>4. CASE Write(c) \/ Publish(c) \/ RunHook(c)
    BY <2>1, <2>4 DEF Write, Publish, RunHook, Holding, dbVars
  <2>5. CASE BodyReturns(c)
    BY <2>1, <2>5 DEF BodyReturns, Holding, dbVars
  <2>6. CASE \E e \in Errors : BodyThrows(c, e)
    BY <2>1, <2>6 DEF BodyThrows, Raise, Holding, dbVars
  <2>7. CASE CommitImpossible(c) \/ CommitFails(c) \/ RollbackFails(c) \/ HookThrows(c)
    <3>1. tx' = tx /\ held' = held /\ pc'[c] \in {"closing", "rollback", "commit"}
      BY <2>7 DEF CommitImpossible, CommitFails, RollbackFails, HookThrows, Raise
    <3> QED BY <2>1, <3>1 DEF Holding
  <2>8. CASE Commit(c) \/ Rollback(c) \/ PhaseEnds(c)
    <3>1. tx' = tx /\ held' = held /\ pc'[c] \in {"closing", "commit"} \union Phases
      BY <2>8 DEF Commit, Rollback, PhaseEnds, AfterPhase, Phases
    <3> QED BY <2>1, <3>1 DEF Holding, Phases
  <2>9. CASE Drop(c)
    BY <2>1, <2>9 DEF Drop, Holding
  <2> QED
    BY <2>2, <2>3, <2>4, <2>5, <2>6, <2>7, <2>8, <2>9 DEF CallStep, Step
<1> QED BY <1>1, <1>2 DEF AllHolding

(* Nothing undoes a fault, a registered hook or the options. *)
LEMMA Calmer ==
  ASSUME TypeOK, Contexts, NEW c \in Calls, CallStep(c)
  PROVE  \A x \in Calls : Undisturbed(x)' => Undisturbed(x)
<1>1. options' = options
  BY Local
<1>2. faults \in Nat /\ (faults' = faults \/ faults' = faults + 1)
  BY DEF TypeOK, CallStep, Step, Execute, Connect, ConnectFails, StartTransaction, StartFails, Close,
         Drop, SetSavepoint, ReleaseSavepoint, RollbackToSavepoint, Write, Publish, BodyReturns,
         BodyThrows, CommitImpossible, RollbackFails, HookThrows, Commit, CommitFails, Rollback,
         RunHook, PhaseEnds, Fault
<1>3. faults' = 0 => faults = 0
  BY <1>2
<1>4. \A x \in Calls : \A i \in DOMAIN syncs[x] :
        i \in DOMAIN syncs'[x] /\ syncs'[x][i] = syncs[x][i]
  <2>1. CASE Publish(c)
    BY <2>1, Registered
  <2>2. CASE ~Publish(c)
    <3>1. syncs' = syncs
      BY <2>2 DEF CallStep, Step, Execute, Connect, ConnectFails, StartTransaction, StartFails, Close,
             Drop, SetSavepoint, ReleaseSavepoint, RollbackToSavepoint, Write, BodyReturns,
             BodyThrows, CommitImpossible, RollbackFails, HookThrows, Commit, CommitFails, Rollback,
             RunHook, PhaseEnds, hookVars
    <3> QED BY <3>1
  <2> QED BY <2>1, <2>2
<1> QED BY <1>1, <1>3, <1>4 DEF Undisturbed

(* Arithmetic. *)
LEMMA Positive == \A i \in Nat : i + 1 # 0
BY SMT

(* The result of the call that makes a step tells its outcome. *)
LEMMA ResultStep ==
  ASSUME TypeOK, Contexts, Stages, Results, NEW c \in Calls, CallStep(c)
  PROVE  ResultOf(c)'
<1> USE Functions
<1>1. ContextOf(c) /\ StageOf(c) /\ ResultOf(c)
  BY DEF Contexts, Stages, Results
<1>2. Undisturbed(c)' => Undisturbed(c)
  BY Calmer
<1>3. CASE Execute(c)
  <2>1. pc[c] = "idle" /\ pc'[c] \in {"body", "savepoint", "connecting"}
        /\ db' = db /\ error' = error /\ broken' = broken
    BY <1>3 DEF Execute, Callable, dbVars
  <2>2. pc'[c] = "body" => tx'[c] # c
    <3>1. pc'[c] = "body" => Joins(c) /\ tx'[c] = Context(c)
      BY <1>3 DEF Execute
    <3>2. tx[c] = NoCall
      BY <1>1, <2>1 DEF ContextOf
    <3>3. Joins(c) => Context(c) # c
      BY <3>2, JoinsAnother
    <3> QED BY <3>1, <3>3
  <2> QED BY <1>1, <2>1, <2>2 DEF ResultOf, StageOf
<1>4. CASE Connect(c) \/ ConnectFails(c) \/ StartTransaction(c) \/ StartFails(c)
  <2>1. tx' = tx /\ broken' = broken /\ db[c] = "none"
    BY <1>1, <1>4 DEF Connect, ConnectFails, StartTransaction, StartFails, StageOf, dbVars
  <2> QED
    BY <1>1, <1>4, <2>1 DEF Connect, ConnectFails, StartTransaction, StartFails, ResultOf, StageOf,
                            dbVars
<1>5. CASE Close(c)
  BY <1>1, <1>2, <1>5 DEF Close, ResultOf, dbVars
<1>6. CASE SetSavepoint(c) \/ ReleaseSavepoint(c) \/ RollbackToSavepoint(c)
  <2>1. tx[c] # c /\ tx' = tx /\ db' = db /\ broken' = broken
    BY <1>1, <1>6 DEF SetSavepoint, ReleaseSavepoint, RollbackToSavepoint, ContextOf
  <2> QED BY <1>1, <2>1 DEF ResultOf
<1>7. CASE Write(c) \/ Publish(c) \/ RunHook(c)
  <2>1. tx' = tx /\ pc' = pc /\ db' = db /\ client' = client /\ broken' = broken /\ error' = error
    BY <1>7 DEF Write, Publish, RunHook, dbVars
  <2> QED BY <1>1, <1>2, <2>1 DEF ResultOf
<1>8. CASE BodyReturns(c)
  <2>1. /\ tx' = tx /\ db' = db /\ client' = client /\ broken' = broken /\ error' = error
        /\ pc[c] = "body" /\ (tx[c] = c => pc'[c] = "BEFORE_COMMIT")
    BY <1>8 DEF BodyReturns, dbVars
  <2> QED BY <1>1, <1>2, <2>1 DEF ResultOf
<1>9. ASSUME NEW e \in Errors, BodyThrows(c, e)
      PROVE  ResultOf(c)'
  <2>1. /\ tx' = tx /\ db' = db /\ client' = client /\ broken' = broken /\ pc[c] = "body"
        /\ tx[c] = c => Raise(c, e)
    BY <1>9 DEF BodyThrows, dbVars
  <2>2. tx[c] = c => error'[c] = e /\ e # "none"
                     /\ pc'[c] \in {"commit", "rollback"}
                     /\ (e \in options[c].rollbackOn => pc'[c] = "rollback")
    BY <1>1, <2>1 DEF Raise, ShouldRollback, StageOf, Errors
  <2>3. tx[c] = c => (Undisturbed(c) => db[c] # "committed" /\ pc'[c] = "rollback")
    BY <1>1, <2>1, <2>2 DEF ResultOf, Undisturbed
  <2> QED BY <1>1, <1>2, <2>1, <2>2, <2>3 DEF ResultOf
<1>10. CASE CommitImpossible(c)
  <2>1. /\ tx' = tx /\ db' = db /\ broken' = broken /\ Raise(c, "db")
        /\ pc[c] = "commit" /\ (c \in broken \/ client[c] # "active")
    BY <1>10 DEF CommitImpossible
  <2>2. tx[c] = c /\ error'[c] = "db" /\ pc'[c] \in {"closing", "commit", "rollback"}
    BY <1>1, <2>1 DEF ContextOf, OwnStages, Raise
  <2>3. ~Undisturbed(c)
    BY <1>1, <2>1, <2>2 DEF ResultOf
  <2> QED BY <1>1, <1>2, <2>1, <2>2, <2>3 DEF ResultOf
<1>11. CASE RollbackFails(c)
  <2>1. /\ tx' = tx /\ db' = db /\ client' = client /\ broken' = broken /\ Raise(c, "db")
        /\ pc[c] = "rollback" /\ error[c] # "none"
    BY <1>1, <1>11 DEF RollbackFails, StageOf, dbVars
  <2>2. tx[c] = c /\ error'[c] = "db" /\ pc'[c] = "closing"
    BY <1>1, <2>1 DEF ContextOf, OwnStages, Raise
  <2> QED BY <1>1, <1>2, <2>1, <2>2 DEF ResultOf
<1>12. CASE CommitFails(c)
  <2>1. /\ tx' = tx /\ Raise(c, "db") /\ faults' = faults + 1 /\ db[c] = "active"
        /\ pc[c] = "commit" /\ db'[c] \in {"committed", "rolled back"}
    BY <1>12 DEF CommitFails, Commits, Fault
  <2>2. tx[c] = c /\ error'[c] = "db" /\ pc'[c] \in {"closing", "commit", "rollback"}
    BY <1>1, <2>1 DEF ContextOf, OwnStages, Raise
  <2>3. ~Undisturbed(c)'
    <3>1. faults \in Nat
      BY DEF TypeOK
    <3>2. faults' # 0
      BY <2>1, <3>1, Positive, Zenon
    <3> QED BY <3>2 DEF Undisturbed
  <2> QED BY <2>1, <2>2, <2>3 DEF ResultOf
<1>13. CASE HookThrows(c)
  <2>1. /\ tx' = tx /\ db' = db /\ client' = client /\ broken' = broken /\ Raise(c, "hook")
        /\ pc[c] \in Phases /\ ~Undisturbed(c)
    BY <1>13 DEF HookThrows, Undisturbed, dbVars
  <2>2. error'[c] = "hook" /\ pc'[c] \in {"closing", "commit", "rollback"}
    BY <2>1 DEF Raise
  <2> QED BY <1>1, <1>2, <2>1, <2>2 DEF ResultOf
<1>14. CASE Commit(c)
  <2>1. /\ tx' = tx /\ error' = error /\ broken' = broken /\ pc[c] = "commit"
        /\ pc'[c] = "AFTER_COMMIT" /\ (db[c] # "none" => db'[c] # "none")
        /\ c \notin broken /\ db[c] = "active" => db'[c] = "committed"
    BY <1>14 DEF Commit, Commits
  <2>2. tx[c] = c
    BY <1>1, <2>1 DEF ContextOf, OwnStages
  <2>3. error[c] = "none" => db'[c] = "committed"
    BY <1>1, <1>14, <2>2 DEF Commit, Commits, ResultOf
  <2>4. Undisturbed(c) => error[c] = "none"
    BY <1>1, <2>1, <2>2 DEF ResultOf
  <2> QED BY <1>1, <1>2, <2>1, <2>2, <2>3, <2>4 DEF ResultOf
<1>15. CASE Rollback(c)
  <2>1. /\ pc'[c] = "AFTER_ROLLBACK" /\ db'[c] = "rolled back" /\ error' = error
        /\ pc[c] = "rollback" /\ broken' = broken
    BY <1>15 DEF Rollback
  <2> QED BY <2>1 DEF ResultOf
<1>16. CASE PhaseEnds(c)
  <2>1. /\ tx' = tx /\ db' = db /\ client' = client /\ broken' = broken /\ error' = error
        /\ pc[c] \in Phases /\ pc'[c] = AfterPhase(pc[c])
    BY <1>16 DEF PhaseEnds, dbVars
  <2>2. pc[c] = "AFTER_ROLLBACK" => error[c] # "none"
    BY <1>1 DEF StageOf
  <2>3. tx[c] = c /\ pc[c] = "BEFORE_COMMIT" => db[c] = "active" \/ c \in broken
    BY <1>1 DEF StageOf
  <2> QED BY <1>1, <1>2, <2>1, <2>2, <2>3 DEF ResultOf, AfterPhase, Phases
<1>17. CASE Drop(c)
  <2>1. /\ tx' = tx /\ pc' = pc /\ error' = error /\ faults' = faults + 1
        /\ db[c] = "active" /\ db'[c] = "rolled back" /\ c \in broken'
    BY <1>17 DEF Drop, Fault
  <2>2. ~Undisturbed(c)'
    <3>1. faults \in Nat
      BY DEF TypeOK
    <3>2. faults' # 0
      BY <2>1, <3>1, Positive, Zenon
    <3> QED BY <3>2 DEF Undisturbed
  <2> QED BY <1>1, <2>1, <2>2 DEF ResultOf
<1> QED
  BY <1>3, <1>4, <1>5, <1>6, <1>7, <1>8, <1>9, <1>10, <1>11, <1>12, <1>13, <1>14, <1>15, <1>16, <1>17
     DEF CallStep, Step

(* The results of all calls tell their outcomes after every step. *)
LEMMA ResultsStep ==
  ASSUME TypeOK, Contexts, Stages, Results, NEW c \in Calls, CallStep(c)
  PROVE  Results'
<1>1. ASSUME NEW x \in Calls, x # c
      PROVE  ResultOf(x)'
  <2>1. ResultOf(x) /\ (Undisturbed(x)' => Undisturbed(x))
    BY Calmer DEF Results
  <2>2. /\ pc'[x] = pc[x] /\ tx'[x] = tx[x] /\ error'[x] = error[x] /\ db'[x] = db[x]
        /\ client'[x] = client[x] /\ (x \in broken' <=> x \in broken)
    BY <1>1, Local
  <2> QED BY <2>1, <2>2 DEF ResultOf
<1> QED BY <1>1, ResultStep DEF Results

-----------------------------------------------------------------------------
(* The invariant is inductive. *)
LEMMA Inductive ==
  ASSUME TransactionInv, [Next]_vars
  PROVE  TransactionInv'
<1>1. CASE UNCHANGED vars
  <2> USE <1>1 DEF vars, dbVars, hookVars
  <2>1. TypeOK' /\ MarksInLog'
    BY DEF TransactionInv, TypeOK, MarksInLog
  <2>2. Contexts'
    BY DEF TransactionInv, Contexts, ContextOf
  <2>3. Stages'
    BY DEF TransactionInv, Stages, StageOf, MayCommit, CountsAsCommitted, ShouldRollback
  <2>4. AllTold' /\ AllHolding'
    BY DEF TransactionInv, AllTold, Told, CountsAsCommitted, ShouldRollback, AllHolding, Holding
  <2>5. Results'
    BY DEF TransactionInv, Results, ResultOf, Undisturbed
  <2> QED BY <2>1, <2>2, <2>3, <2>4, <2>5 DEF TransactionInv
<1>2. ASSUME NEW c \in Calls, CallStep(c)
      PROVE  TransactionInv'
  BY <1>2, TypesStep, ContextStep, StagesStep, ToldStep, HoldingStep, ResultsStep DEF TransactionInv
<1> QED BY <1>1, <1>2 DEF Next, Finished, CallStep

(* The invariant holds in every reachable state. *)
LEMMA TransactionInvCorrect == Spec => []TransactionInv
<1>1. TransactionInv /\ [Next]_vars => TransactionInv'
  BY Inductive
<1> QED BY InitInv, <1>1, PTL DEF Spec

(* Types of the variables. *)
THEOREM TransactionTypes == Spec => []TypeOK
<1>1. TransactionInv => TypeOK
  BY DEF TransactionInv
<1> QED BY <1>1, TransactionInvCorrect, PTL

(* Listeners of AFTER_COMMIT and AFTER_ROLLBACK are told the truth.        *)
THEOREM ListenersToldTruth == Spec => []EventsMatchOutcome
<1>1. TransactionInv => EventsMatchOutcome
  BY DEF TransactionInv, AllTold, Told, CountsAsCommitted, EventsMatchOutcome
<1> QED BY <1>1, TransactionInvCorrect, PTL

(* What execute() returns or throws tells the outcome of its transaction. *)
THEOREM ResultsTellOutcome == Spec => []ResultMatchesOutcome
<1>1. TransactionInv => ResultMatchesOutcome
  BY DEF TransactionInv, Results, ResultOf, Undisturbed, ResultMatchesOutcome
<1> QED BY <1>1, TransactionInvCorrect, PTL

(* A call that has settled has given back the connection it started a      *)
(* transaction on.                                                         *)
THEOREM ConnectionsAreReturned == Spec => []ConnectionsReturned
<1>1. TransactionInv => ConnectionsReturned
  BY DEF TransactionInv, TypeOK, AllHolding, Holding, ConnectionsReturned, Leaked
<1> QED BY <1>1, TransactionInvCorrect, PTL

(* The outcome of a transaction never changes. *)
THEOREM OutcomesAreFinal ==
  Spec => [][\A d \in Calls : db[d] \in {"committed", "rolled back"} => db'[d] = db[d]]_vars
<1>1. ASSUME TransactionInv, [Next]_vars
      PROVE  [\A d \in Calls : db[d] \in {"committed", "rolled back"} => db'[d] = db[d]]_vars
  BY <1>1, OutcomeFinal DEF Next, Finished, CallStep, TransactionInv
<1> QED BY <1>1, TransactionInvCorrect, PTL DEF Spec

=============================================================================
