--------------------------- MODULE CacheableProofs ---------------------------
(***************************************************************************)
(* Theorems of Cacheable: the map of lookups, what cacheable calls see of  *)
(* earlier puts and evictions, and whose values they answer with.          *)
(***************************************************************************)
EXTENDS Cacheable, TLAPS

(* The kinds of call in each stage, and keys that could be computed. *)
Kinds == \A c \in Calls :
  /\ Active(c) /\ KindOf(op[c]) # "evict" => Composes(op[c])
  /\ stage[c] = "lookup" => KindOf(op[c]) = "cacheable"
  /\ stage[c] = "evicting" => KindOf(op[c]) = "evict"

(* A lookup is for the key of all who await it, and has an answer only     *)
(* after the cache has given one.                                          *)
Lookups == \A c \in Calls :
  /\ stage[c] = "idle" => lookup[c] = "none"
  /\ lookup[c] = "asked" => stage[c] = "lookup" /\ awaits[c] = c
  /\ lookup[c] # "answered" => ~answer[c].there
  /\ stage[c] = "lookup" => op[awaits[c]] \in Ops /\ Key(op[awaits[c]]) = Key(op[c])

(* A clean call is the only one under way that uses any of its keys; a     *)
(* clean eviction has emptied those it is not still deleting.              *)
Alone == \A c \in clean :
  /\ stage[c] # "idle"
  /\ \A d \in Calls \ {c} :
       Active(c) /\ Active(d) => KeysOf(op[c]) \intersect KeysOf(op[d]) = {}
Emptied == \A c \in clean : \A k \in KeysOf(op[c]) :
  /\ KindOf(op[c]) = "evict" /\ stage[c] \in {"evicting", "method"}
  => ~cache[k].there \/ (stage[c] = "evicting" /\ k \in dels[c])

(* The floor of a key is never above the data, nor above what is in the    *)
(* cache, in an answer that somebody awaits or on its way into the cache.  *)
FloorBelowData == \A r \in Records :
  data[r].of = r /\ \A k \in Keys : floor[k][r] <= data[r].version
FloorBelowCache == \A k \in Keys :
  cache[k].there => cache[k].of \in Records /\ floor[k][cache[k].of] <= cache[k].version
FloorBelowAnswers == \A c \in Calls :
  LET value == answer[awaits[c]] IN
  stage[c] = "lookup" /\ value.there
    => value.of \in Records /\ floor[Key(op[c])][value.of] <= value.version
FloorBelowResults == \A c \in Calls : stage[c] = "storing" =>
  /\ result[c].of = Subject[op[c]]
  /\ result[c].version <= data[Subject[op[c]]].version
  /\ KindOf(op[c]) # "evict" => floor[Key(op[c])][Subject[op[c]]] <= result[c].version
SeenBelowFloor == \A c \in Calls : Active(c) /\ KindOf(op[c]) = "cacheable" =>
  \A r \in Records : seen[c][r] <= floor[Key(op[c])][r]

Typed == TypeOK /\ Kinds /\ Lookups /\ PendingIsLive
Fresh ==
  FloorBelowData /\ FloorBelowCache /\ FloorBelowAnswers /\ FloorBelowResults /\ SeenBelowFloor
CacheInv == Typed /\ Alone /\ Emptied /\ Fresh /\ ReadsSeeWrites

-----------------------------------------------------------------------------
(* What the proofs need to know of keys and operations. *)
LEMMA KeyFacts ==
  /\ \A o \in Ops : KindOf(o) \in {"cacheable", "put", "evict"} /\ KeysOf(o) \subseteq Keys
  /\ \A o \in Ops : KindOf(o) # "evict" /\ Composes(o) => KeysOf(o) = {Key(o)} /\ Key(o) \in Keys
  /\ \A o \in Ops : Subject[o] \in Records /\ Ttl[o[1]] \in Nat /\ Writes[o] \subseteq Records
<1>1. \A o \in Ops : o[1] \in Methods
  BY CacheableAssumption
<1>2. \A o \in Ops : KindOf(o) \in {"cacheable", "put", "evict"}
  BY <1>1, CacheableAssumption DEF KindOf
<1>3. \A o \in Ops : KeysOf(o) \subseteq Keys
  BY DEF Keys
<1>4. \A o \in Ops : KindOf(o) # "evict" /\ Composes(o) => KeysOf(o) = {Key(o)}
  BY DEF KeysOf, Key, KindOf
<1> QED BY <1>1, <1>2, <1>3, <1>4, CacheableAssumption

LEMMA FloorNumbers ==
  ASSUME TypeOK
  PROVE  /\ \A k \in Keys, r \in Records : floor[k][r] \in Nat
         /\ \A r \in Records : data[r].version \in Nat
         /\ \A k \in Keys : cache[k].version \in Nat
         /\ \A c \in Calls : result[c].version \in Nat /\ answer[c].version \in Nat
         /\ \A c \in Calls, r \in Records : seen[c][r] \in Nat
BY DEF TypeOK, Value

LEMMA MissingIsValue == Missing \in Value /\ ~Missing.there
BY DEF Missing, Value

(* What the source of truth holds after a method has written to it. *)
LEMMA WrittenFacts ==
  ASSUME TypeOK, FloorBelowData, NEW o \in Ops
  PROVE  /\ Written(o) \in [Records -> Value]
         /\ \A r \in Records : Written(o)[r].of = r /\ data[r].version <= Written(o)[r].version
<1>1. data \in [Records -> Value]
  BY DEF TypeOK
<1>2. ASSUME NEW r \in Records
      PROVE  /\ Written(o)[r] \in Value
             /\ Written(o)[r].of = r /\ data[r].version <= Written(o)[r].version
  <2>1. data[r] \in Value /\ data[r].of = r
    BY <1>1 DEF FloorBelowData
  <2>2. CASE r \in Writes[o]
    <3>1. Written(o)[r] = [of |-> r, version |-> data[r].version + 1,
                           there |-> ~(r = Subject[o] /\ o \in Deletes)]
      BY <2>2 DEF Written
    <3> QED BY <2>1, <3>1 DEF Value
  <2>3. CASE r \notin Writes[o]
    <3>1. Written(o)[r] = data[r]
      BY <2>3 DEF Written
    <3> QED BY <2>1, <3>1 DEF Value
  <2> QED BY <2>2, <2>3
<1> QED BY <1>2 DEF Written

LEMMA InitInv == Init => CacheInv
<1> SUFFICES ASSUME Init PROVE CacheInv
  OBVIOUS
<1> USE MissingIsValue, CacheableAssumption
<1>1. TypeOK
  BY DEF Init, TypeOK, Value
<1>2. Kinds /\ Lookups /\ PendingIsLive
  BY DEF Init, Kinds, Active, Lookups, PendingIsLive
<1>3. Alone /\ Emptied
  BY DEF Init, Alone, Emptied
<1>4. FloorBelowData /\ FloorBelowCache
  BY DEF Init, FloorBelowData, FloorBelowCache
<1>5. FloorBelowAnswers /\ FloorBelowResults /\ SeenBelowFloor /\ ReadsSeeWrites
  BY DEF Init, FloorBelowAnswers, FloorBelowResults, SeenBelowFloor, ReadsSeeWrites, Active
<1> QED BY <1>1, <1>2, <1>3, <1>4, <1>5 DEF CacheInv, Typed, Fresh

-----------------------------------------------------------------------------
(* The steps of a call *)
Step(c) == Invoke(c) \/ Runs(c) \/ Answers(c)

LEMMA StepCases ==
  ASSUME NEW c \in Calls, Step(c), NEW P,
         \A o \in Ops : CallRejects(c, o) \/ AskCache(c, o) \/ ShareLookup(c, o)
                          \/ CallPut(c, o) \/ CallEvict(c, o) => P,
         CacheAnswers(c) \/ LookupFails(c) \/ Resume(c) => P,
         Method(c) \/ MethodThrows(c) => P,
         Store(c) \/ StoreFails(c) \/ EvictReturns(c) => P,
         \A k \in dels[c] : Delete(c, k) \/ DeleteFails(c, k) => P
  PROVE  P
BY DEF Step, Invoke, Runs, Answers

(* A step leaves the other calls as they are. *)
SameCall(d) ==
  /\ op'[d] = op[d] /\ stage'[d] = stage[d] /\ result'[d] = result[d] /\ awaits'[d] = awaits[d]
  /\ lookup'[d] = lookup[d] /\ answer'[d] = answer[d] /\ dels'[d] = dels[d] /\ seen'[d] = seen[d]

LEMMA Locality ==
  ASSUME TypeOK, NEW c \in Calls, Step(c)
  PROVE  \A d \in Calls \ {c} : SameCall(d)
<1>1. \A o \in Ops : CallRejects(c, o) \/ AskCache(c, o) \/ ShareLookup(c, o)
                       \/ CallPut(c, o) \/ CallEvict(c, o) => \A d \in Calls \ {c} : SameCall(d)
  BY DEF TypeOK, SameCall, CallRejects, AskCache, ShareLookup, CallPut, CallEvict, Starts, To, history
<1>2. CacheAnswers(c) \/ LookupFails(c) \/ Resume(c) => \A d \in Calls \ {c} : SameCall(d)
  BY DEF TypeOK, SameCall, CacheAnswers, LookupFails, Resume, Fails, To, history
<1>3. Method(c) \/ MethodThrows(c) => \A d \in Calls \ {c} : SameCall(d)
  BY DEF TypeOK, SameCall, Method, MethodThrows, To, history
<1>4. Store(c) \/ StoreFails(c) \/ EvictReturns(c) => \A d \in Calls \ {c} : SameCall(d)
  BY DEF TypeOK, SameCall, Store, StoreFails, EvictReturns, To, history
<1>5. \A k \in dels[c] : Delete(c, k) \/ DeleteFails(c, k) => \A d \in Calls \ {c} : SameCall(d)
  BY DEF TypeOK, SameCall, Delete, DeleteFails, To, history
<1> QED BY <1>1, <1>2, <1>3, <1>4, <1>5, StepCases

(* The types, one action after the other. *)
LEMMA InvokeType ==
  ASSUME Typed, NEW c \in Calls, NEW o \in Ops,
         CallRejects(c, o) \/ AskCache(c, o) \/ ShareLookup(c, o) \/ CallPut(c, o) \/ CallEvict(c, o)
  PROVE  TypeOK'
<1> USE KeyFacts, CacheableAssumption DEF Typed, TypeOK
<1>1. CASE CallRejects(c, o)
  BY <1>1 DEF CallRejects, To, store, history
<1>2. CASE AskCache(c, o)
  <2>1. Key(o) \in Keys /\ KindOf(o) = "cacheable"
    BY <1>2 DEF AskCache
  <2>2. /\ seen' \in [Calls -> [Records -> Nat]] /\ clean' \in SUBSET Calls
        /\ op' = [op EXCEPT ![c] = o] /\ stage' = [stage EXCEPT ![c] = "lookup"]
        /\ pending' \in [Keys -> Calls \cup {Nobody}]
        /\ UNCHANGED <<result, answer, dels, cache, mortal, faults, data, floor>>
    BY <1>2, <2>1 DEF AskCache, Starts, To, store
  <2>3. awaits' = [awaits EXCEPT ![c] = c] /\ lookup' = [lookup EXCEPT ![c] = "asked"]
    BY <1>2 DEF AskCache
  <2> QED BY <2>2, <2>3
<1>3. CASE ShareLookup(c, o)
  <2>1. Key(o) \in Keys /\ KindOf(o) = "cacheable" /\ pending[Key(o)] \in Calls
    BY <1>3 DEF ShareLookup
  <2>2. /\ seen' \in [Calls -> [Records -> Nat]] /\ clean' \in SUBSET Calls
        /\ op' = [op EXCEPT ![c] = o] /\ stage' = [stage EXCEPT ![c] = "lookup"]
        /\ awaits' = [awaits EXCEPT ![c] = pending[Key(o)]]
        /\ UNCHANGED <<lookup, pending, result, answer, dels, cache, mortal, faults, data, floor>>
    BY <1>3, <2>1 DEF ShareLookup, Starts, To, store
  <2> QED BY <2>1, <2>2
<1>4. CASE CallPut(c, o)
  <2>1. /\ seen' \in [Calls -> [Records -> Nat]] /\ clean' \in SUBSET Calls
        /\ op' = [op EXCEPT ![c] = o] /\ stage' = [stage EXCEPT ![c] = "method"]
        /\ UNCHANGED <<awaits, lookup, pending, result, answer, dels, cache, mortal, faults, data, floor>>
    BY <1>4 DEF CallPut, Starts, To, store
  <2> QED BY <2>1
<1>5. CASE CallEvict(c, o)
  <2>1. /\ seen' \in [Calls -> [Records -> Nat]] /\ clean' \in SUBSET Calls
        /\ op' = [op EXCEPT ![c] = o]
        /\ \E s \in {"method", "evicting"} : stage' = [stage EXCEPT ![c] = s]
        /\ dels' = [dels EXCEPT ![c] = KeysOf(o)]
        /\ UNCHANGED <<awaits, lookup, pending, result, answer, cache, mortal, faults, data, floor>>
    BY <1>5 DEF CallEvict, Starts, To, store
  <2> QED BY <2>1
<1> QED BY <1>1, <1>2, <1>3, <1>4, <1>5

LEMMA LookupType ==
  ASSUME Typed, NEW c \in Calls, CacheAnswers(c) \/ LookupFails(c) \/ Resume(c)
  PROVE  TypeOK'
<1> USE KeyFacts, CacheableAssumption DEF Typed, TypeOK
<1>1. stage[c] = "lookup" => op[c] \in Ops /\ Key(op[c]) \in Keys
  BY DEF Kinds, Active
<1>2. CASE CacheAnswers(c)
  BY <1>1, <1>2 DEF CacheAnswers, Lookups, store, history
<1>3. CASE LookupFails(c)
  BY <1>3 DEF LookupFails, Fails, history
<1>4. CASE Resume(c)
  <2>1. pending' \in [Keys -> Calls \cup {Nobody}]
    BY <1>4 DEF Resume
  <2>2. \/ stage' = [stage EXCEPT ![c] = "done"] /\ result' = [result EXCEPT ![c] = answer[awaits[c]]]
        \/ stage' = [stage EXCEPT ![c] = "method"] /\ UNCHANGED result
    BY <1>4 DEF Resume, To
  <2>3. answer[awaits[c]] \in Value /\ stage[c] = "lookup"
    BY <1>4 DEF Resume
  <2>4. UNCHANGED <<op, awaits, lookup, answer, dels, cache, mortal, faults, data, clean, floor, seen>>
    BY <1>4 DEF Resume, store, history
  <2>5. stage' \in [Calls -> {"idle", "lookup", "evicting", "method", "storing", "done", "failed"}]
        /\ result' \in [Calls -> Value]
    <3>1. CASE stage' = [stage EXCEPT ![c] = "done"] /\ result' = [result EXCEPT ![c] = answer[awaits[c]]]
      BY <2>3, <3>1
    <3>2. CASE stage' = [stage EXCEPT ![c] = "method"] /\ UNCHANGED result
      BY <3>2
    <3> QED BY <2>2, <3>1, <3>2
  <2>6. \A d \in Calls : (stage'[d] = "idle" <=> stage[d] = "idle")
                        /\ (stage'[d] = "lookup" => stage[d] = "lookup")
    BY <2>2, <2>3
  <2>7. (\A d \in Calls : op[d] = NoOp <=> stage[d] = "idle")'
    BY <2>4, <2>6
  <2>8. (\A d \in Calls : stage[d] = "lookup" => awaits[d] \in Calls)'
    BY <2>4, <2>6
  <2> QED BY <2>1, <2>4, <2>5, <2>7, <2>8
<1> QED BY <1>2, <1>3, <1>4

LEMMA MethodType ==
  ASSUME Typed, FloorBelowData, NEW c \in Calls, Method(c) \/ MethodThrows(c)
  PROVE  TypeOK'
<1> USE KeyFacts, CacheableAssumption DEF Typed, TypeOK
<1>1. op[c] \in Ops /\ stage[c] = "method"
  BY DEF Method, MethodThrows
<1>2. Written(op[c]) \in [Records -> Value]
  BY <1>1, WrittenFacts
<1>3. CASE Method(c)
  <2>1. data' \in [Records -> Value] /\ result' \in [Calls -> Value]
    BY <1>1, <1>2, <1>3 DEF Method
  <2>2. \A r \in Records : data'[r].version \in Nat
    BY <2>1 DEF Value
  <2>3. floor' \in [Keys -> [Records -> Nat]]
    BY <1>3, <2>2 DEF Method
  <2>4. /\ stage' = [stage EXCEPT ![c] = "storing"]
        /\ UNCHANGED <<op, awaits, lookup, answer, pending, dels, cache, mortal, faults, clean, seen>>
    BY <1>3 DEF Method, To, store
  <2> QED BY <1>1, <2>1, <2>3, <2>4
<1>4. CASE MethodThrows(c)
  <2>1. data' \in [Records -> Value]
    BY <1>2, <1>4 DEF MethodThrows
  <2> QED BY <1>1, <1>4, <2>1 DEF MethodThrows, To, store, history
<1> QED BY <1>3, <1>4

LEMMA StoreType ==
  ASSUME Typed, NEW c \in Calls, Store(c) \/ StoreFails(c) \/ EvictReturns(c)
  PROVE  TypeOK'
<1> USE KeyFacts, CacheableAssumption DEF Typed, TypeOK
<1>1. op[c] \in Ops /\ stage[c] = "storing"
  BY DEF Store, StoreFails, EvictReturns
<1>2. KindOf(op[c]) # "evict" => Key(op[c]) \in Keys
  BY <1>1 DEF Kinds, Active
<1>3. ASSUME Stored(c), Key(op[c]) \in Keys
      PROVE  cache' \in [Keys -> Value] /\ mortal' \in SUBSET Keys
  BY <1>3 DEF Stored
<1>4. CASE Store(c)
  <2>1. result[c].version \in Nat
    BY DEF Value
  <2>2. floor' \in [Keys -> [Records -> Nat]]
    BY <1>1, <1>2, <1>4, <2>1 DEF Store
  <2>3. cache' \in [Keys -> Value] /\ mortal' \in SUBSET Keys
    BY <1>2, <1>3, <1>4 DEF Store
  <2>4. /\ stage' = [stage EXCEPT ![c] = "done"]
        /\ UNCHANGED <<op, result, awaits, lookup, answer, pending, dels, data, faults, clean, seen>>
    BY <1>4 DEF Store, To
  <2> QED BY <1>1, <2>2, <2>3, <2>4
<1>5. CASE StoreFails(c)
  <2>1. cache' \in [Keys -> Value] /\ mortal' \in SUBSET Keys
    BY <1>2, <1>3, <1>5 DEF StoreFails
  <2>2. faults' \in Nat
    BY <1>5 DEF StoreFails, Fails
  <2>3. /\ stage' = [stage EXCEPT ![c] = "failed"]
        /\ UNCHANGED <<op, result, awaits, lookup, answer, pending, dels, data, history>>
    BY <1>5 DEF StoreFails, To
  <2> QED BY <1>1, <2>1, <2>2, <2>3 DEF history
<1>6. CASE EvictReturns(c)
  BY <1>1, <1>6 DEF EvictReturns, To, store, history
<1> QED BY <1>4, <1>5, <1>6

LEMMA DeleteType ==
  ASSUME Typed, NEW c \in Calls, NEW k \in dels[c], Delete(c, k) \/ DeleteFails(c, k)
  PROVE  TypeOK'
<1> USE MissingIsValue, CacheableAssumption DEF Typed, TypeOK
<1>1. k \in Keys
  OBVIOUS
<1>2. CASE Delete(c, k)
  <2>1. stage' = stage \/ (stage[c] = "evicting" /\ stage' = [stage EXCEPT ![c] = "method"])
    BY <1>2 DEF Delete, To
  <2>2. stage' \in [Calls -> {"idle", "lookup", "evicting", "method", "storing", "done", "failed"}]
        /\ \A d \in Calls : (stage'[d] = "idle" <=> stage[d] = "idle")
                           /\ (stage'[d] = "lookup" => stage[d] = "lookup")
    BY <2>1
  <2>3. /\ dels' \in [Calls -> SUBSET Keys] /\ cache' \in [Keys -> Value]
        /\ mortal' \in SUBSET Keys
    BY <1>1, <1>2 DEF Delete
  <2>4. UNCHANGED <<op, result, awaits, lookup, answer, pending, data, faults, clean, floor, seen>>
    BY <1>2 DEF Delete, history
  <2> QED BY <2>2, <2>3, <2>4
<1>3. CASE DeleteFails(c, k)
  <2>0. stage' = stage \/ (stage[c] = "evicting" /\ stage' = [stage EXCEPT ![c] = "method"])
    BY <1>3 DEF DeleteFails, To
  <2>1. stage' \in [Calls -> {"idle", "lookup", "evicting", "method", "storing", "done", "failed"}]
        /\ \A d \in Calls : (stage'[d] = "idle" <=> stage[d] = "idle")
                           /\ (stage'[d] = "lookup" => stage[d] = "lookup")
    BY <2>0
  <2>2. dels' \in [Calls -> SUBSET Keys] /\ clean' \in SUBSET Calls /\ faults' \in Nat
    BY <1>3 DEF DeleteFails, Fails
  <2>3. UNCHANGED <<op, result, awaits, lookup, answer, pending, cache, mortal, data, floor, seen>>
    BY <1>3 DEF DeleteFails
  <2> QED BY <2>1, <2>2, <2>3
<1> QED BY <1>2, <1>3

LEMMA TypeStep ==
  ASSUME CacheInv, NEW c \in Calls, Step(c)
  PROVE  TypeOK'
<1> USE DEF CacheInv, Fresh
<1> QED BY InvokeType, LookupType, MethodType, StoreType, DeleteType, StepCases

-----------------------------------------------------------------------------
(* Kinds, lookups and the map of lookups *)
LEMMA KindsStep ==
  ASSUME Typed, NEW c \in Calls, Step(c)
  PROVE  Kinds'
<1> USE KeyFacts DEF Typed, TypeOK
<1>1. \A d \in Calls \ {c} : SameCall(d)
  BY Locality
<1>2. SUFFICES /\ Active(c)' /\ KindOf(op'[c]) # "evict" => Composes(op'[c])
               /\ stage'[c] = "lookup" => KindOf(op'[c]) = "cacheable"
               /\ stage'[c] = "evicting" => KindOf(op'[c]) = "evict"
  BY <1>1 DEF Kinds, Active, SameCall
<1> DEFINE Goal == /\ Active(c)' /\ KindOf(op'[c]) # "evict" => Composes(op'[c])
                   /\ stage'[c] = "lookup" => KindOf(op'[c]) = "cacheable"
                   /\ stage'[c] = "evicting" => KindOf(op'[c]) = "evict"
<1>3. \A o \in Ops : CallRejects(c, o) \/ AskCache(c, o) \/ ShareLookup(c, o)
                       \/ CallPut(c, o) \/ CallEvict(c, o) => Goal
  BY DEF CallRejects, AskCache, ShareLookup, CallPut, CallEvict, Starts, To, Active
<1>4. CacheAnswers(c) \/ LookupFails(c) \/ Resume(c) => Goal
  BY DEF CacheAnswers, LookupFails, Resume, To, Active, Kinds
<1>5. Method(c) \/ MethodThrows(c) => Goal
  BY DEF Method, MethodThrows, To, Active, Kinds
<1>6. Store(c) \/ StoreFails(c) \/ EvictReturns(c) => Goal
  BY DEF Store, StoreFails, EvictReturns, To, Active, Kinds
<1>7. \A k \in dels[c] : Delete(c, k) \/ DeleteFails(c, k) => Goal
  BY DEF Delete, DeleteFails, To, Active, Kinds
<1>8. Goal
  BY <1>3, <1>4, <1>5, <1>6, <1>7, StepCases
<1> QED BY <1>8

LEMMA LookupsStep ==
  ASSUME CacheInv, NEW c \in Calls, Step(c)
  PROVE  Lookups'
<1>0. stage'[c] = "lookup" => awaits'[c] \in Calls
  BY TypeStep DEF TypeOK
<1> USE KeyFacts DEF CacheInv, Typed, TypeOK
<1>1. \A d \in Calls \ {c} : SameCall(d)
  BY Locality
<1> DEFINE Own ==
      /\ op[c] \in Ops => op'[c] = op[c]
      /\ stage'[c] = "idle" => lookup'[c] = "none"
      /\ lookup'[c] = "asked" => stage'[c] = "lookup" /\ awaits'[c] = c
      /\ lookup'[c] # "answered" => ~answer'[c].there
      /\ stage'[c] = "lookup" => \/ awaits'[c] = c /\ op'[c] \in Ops
                                \/ /\ awaits'[c] # c /\ op[awaits'[c]] \in Ops
                                   /\ Key(op[awaits'[c]]) = Key(op'[c])
<1>2. \A o \in Ops : CallRejects(c, o) \/ AskCache(c, o) \/ ShareLookup(c, o)
                       \/ CallPut(c, o) \/ CallEvict(c, o) => Own
  <2> SUFFICES ASSUME NEW o \in Ops, CallRejects(c, o) \/ AskCache(c, o) \/ ShareLookup(c, o)
                                      \/ CallPut(c, o) \/ CallEvict(c, o)
               PROVE  Own
    OBVIOUS
  <2>1. stage[c] = "idle" /\ op[c] \notin Ops /\ lookup[c] = "none" /\ ~answer[c].there /\ op'[c] = o
    BY CacheableAssumption DEF CallRejects, AskCache, ShareLookup, CallPut, CallEvict, Starts, Lookups
  <2>2. CASE CallRejects(c, o)
    BY <2>1, <2>2 DEF CallRejects, To
  <2>3. CASE AskCache(c, o)
    BY <2>1, <2>3 DEF AskCache, Starts, To
  <2>4. CASE ShareLookup(c, o)
    <3>1. KindOf(o) = "cacheable" /\ Key(o) \in Keys /\ pending[Key(o)] # Nobody
          /\ pending[Key(o)] \in Calls
      BY <2>4 DEF ShareLookup
    <3>2. stage[pending[Key(o)]] = "lookup" /\ Key(op[pending[Key(o)]]) = Key(o)
      BY <3>1 DEF PendingIsLive
    <3> QED BY <2>1, <2>4, <3>1, <3>2 DEF ShareLookup, Starts, To
  <2>5. CASE CallPut(c, o) \/ CallEvict(c, o)
    BY <2>1, <2>5 DEF CallPut, CallEvict, Starts, To
  <2> QED BY <2>2, <2>3, <2>4, <2>5
<1>3. CacheAnswers(c) \/ LookupFails(c) \/ Resume(c) => Own
  BY DEF CacheAnswers, LookupFails, Resume, To, Lookups
<1>4. Method(c) \/ MethodThrows(c) => Own
  BY DEF Method, MethodThrows, To, Lookups
<1>5. Store(c) \/ StoreFails(c) \/ EvictReturns(c) => Own
  BY DEF Store, StoreFails, EvictReturns, To, Lookups
<1>6. \A k \in dels[c] : Delete(c, k) \/ DeleteFails(c, k) => Own
  BY DEF Delete, DeleteFails, To, Lookups
<1>7. Own
  BY <1>2, <1>3, <1>4, <1>5, <1>6, StepCases
<1>8. ASSUME NEW d \in Calls, stage'[d] = "lookup"
      PROVE  op'[awaits'[d]] \in Ops /\ Key(op'[awaits'[d]]) = Key(op'[d])
  <2>1. CASE d = c
    BY <1>1, <1>7, <1>8, <2>1, <1>0 DEF SameCall
  <2>2. CASE d # c
    <3>1. op[awaits[d]] \in Ops /\ Key(op[awaits[d]]) = Key(op[d])
      BY <1>1, <1>8, <2>2 DEF SameCall, Lookups
    <3>2. op'[awaits[d]] = op[awaits[d]]
      BY <1>1, <1>7, <1>8, <2>2, <3>1 DEF SameCall
    <3> QED BY <1>1, <2>2, <3>1, <3>2 DEF SameCall
  <2> QED BY <2>1, <2>2
<1> QED BY <1>1, <1>7, <1>8 DEF Lookups, SameCall

LEMMA PendingStep ==
  ASSUME Typed, NEW c \in Calls, Step(c)
  PROVE  PendingIsLive'
<1> USE KeyFacts DEF Typed, TypeOK
<1>1. \A d \in Calls \ {c} : SameCall(d)
  BY Locality
<1>2. ASSUME UNCHANGED pending, stage'[c] # stage[c] => stage[c] # "lookup",
             stage[c] = "lookup" => op'[c] = op[c] /\ awaits'[c] = awaits[c]
      PROVE  PendingIsLive'
  BY <1>1, <1>2 DEF PendingIsLive, SameCall
<1>3. \A o \in Ops : CallRejects(c, o) \/ AskCache(c, o) \/ ShareLookup(c, o)
                       \/ CallPut(c, o) \/ CallEvict(c, o) => PendingIsLive'
  <2> SUFFICES ASSUME NEW o \in Ops, CallRejects(c, o) \/ AskCache(c, o) \/ ShareLookup(c, o)
                                      \/ CallPut(c, o) \/ CallEvict(c, o)
               PROVE  PendingIsLive'
    OBVIOUS
  <2>1. CASE CallRejects(c, o) \/ ShareLookup(c, o) \/ CallPut(c, o) \/ CallEvict(c, o)
    BY <1>2, <2>1 DEF CallRejects, ShareLookup, CallPut, CallEvict, Starts
  <2>2. CASE AskCache(c, o)
    <3>1. /\ pending' = [pending EXCEPT ![Key(o)] = c] /\ Key(o) \in Keys /\ stage[c] = "idle"
          /\ stage'[c] = "lookup" /\ awaits'[c] = c /\ op'[c] = o /\ KindOf(o) = "cacheable"
      BY <2>2 DEF AskCache, Starts, To
    <3> QED BY <1>1, <3>1 DEF PendingIsLive, SameCall
  <2> QED BY <2>1, <2>2
<1>4. CacheAnswers(c) \/ LookupFails(c) => PendingIsLive'
  BY <1>2 DEF CacheAnswers, LookupFails
<1>5. ASSUME Resume(c)
      PROVE  PendingIsLive'
  <2>1. pending' = [pending EXCEPT ![Key(op[c])] = Nobody]
    BY <1>5 DEF Resume
  <2>2. \A k \in Keys : pending[k] = c => k = Key(op[c])
    BY CacheableAssumption DEF PendingIsLive
  <2>3. \A k \in Keys : pending'[k] # Nobody => pending'[k] = pending[k] /\ pending[k] # c
    BY <2>1, <2>2
  <2> QED BY <1>1, <2>3 DEF PendingIsLive, SameCall
<1>6. Method(c) \/ MethodThrows(c) => PendingIsLive'
  BY <1>2 DEF Method, MethodThrows
<1>7. Store(c) \/ StoreFails(c) \/ EvictReturns(c) => PendingIsLive'
  BY <1>2 DEF Store, StoreFails, EvictReturns
<1>8. \A k \in dels[c] : Delete(c, k) \/ DeleteFails(c, k) => PendingIsLive'
  BY <1>2 DEF Delete, DeleteFails, To
<1> QED BY <1>3, <1>4, <1>5, <1>6, <1>7, <1>8, StepCases

-----------------------------------------------------------------------------
(* The floor of a key rises only by a step of a clean call that uses the   *)
(* key; data only get newer; and an entry comes from a call that stores.   *)
Raises(c) == \A k \in Keys, r \in Records :
  /\ floor[k][r] <= floor'[k][r]
  /\ floor[k][r] # floor'[k][r] =>
       /\ c \in clean /\ Active(c) /\ k \in KeysOf(op[c])
       /\ floor'[k][r] <= data'[r].version
       /\ cache'[k].there => floor'[k][r] <= cache'[k].version
Renews == \A r \in Records : data'[r].of = r /\ data[r].version <= data'[r].version
Fills(c) == \A k \in Keys :
  \/ cache'[k] = cache[k]
  \/ ~cache'[k].there
  \/ /\ stage[c] = "storing" /\ KindOf(op[c]) # "evict" /\ k = Key(op[c])
     /\ cache'[k] = result[c]

LEMMA RaisesStep ==
  ASSUME CacheInv, NEW c \in Calls, Step(c)
  PROVE  Raises(c)
<1> USE KeyFacts DEF CacheInv, Typed, TypeOK, Fresh
<1>0. \A k \in Keys, r \in Records : floor[k][r] \in Nat
  OBVIOUS
<1>1. UNCHANGED floor => Raises(c)
  BY <1>0 DEF Raises
<1>2. \A o \in Ops : CallRejects(c, o) \/ AskCache(c, o) \/ ShareLookup(c, o)
                       \/ CallPut(c, o) \/ CallEvict(c, o) => Raises(c)
  BY <1>1 DEF CallRejects, AskCache, ShareLookup, CallPut, CallEvict, Starts, history
<1>3. CacheAnswers(c) \/ LookupFails(c) \/ Resume(c) => Raises(c)
  BY <1>1 DEF CacheAnswers, LookupFails, Resume, history
<1>4. ASSUME Method(c)
      PROVE  Raises(c)
  <2>1. op[c] \in Ops /\ Active(c) /\ data' = Written(op[c])
    BY <1>4 DEF Method, Active
  <2>2. \A r \in Records : data[r].version <= data'[r].version /\ data'[r].version \in Nat
                           /\ data[r].version \in Nat
    BY <2>1, WrittenFacts DEF Value
  <2>3. \A k \in Keys, r \in Records : floor[k][r] <= data'[r].version
    BY <1>0, <2>2 DEF FloorBelowData
  <2>4. floor' = [k \in Keys |->
                    IF KindOf(op[c]) = "evict" /\ c \in clean /\ k \in KeysOf(op[c])
                    THEN [r \in Records |-> data'[r].version] ELSE floor[k]]
    BY <1>4 DEF Method
  <2>5. ASSUME NEW k \in Keys, NEW r \in Records
        PROVE  \/ floor'[k][r] = floor[k][r]
               \/ /\ c \in clean /\ KindOf(op[c]) = "evict" /\ k \in KeysOf(op[c])
                  /\ floor'[k][r] = data'[r].version
    BY <2>4
  <2>6. stage[c] = "method" /\ UNCHANGED cache
    BY <1>4 DEF Method, store
  <2>7. c \in clean /\ KindOf(op[c]) = "evict" => \A k \in KeysOf(op[c]) : ~cache[k].there
    BY <2>6 DEF Emptied
  <2>8. ASSUME NEW k \in Keys, NEW r \in Records
        PROVE  /\ floor[k][r] <= floor'[k][r]
               /\ floor[k][r] # floor'[k][r] =>
                    /\ c \in clean /\ k \in KeysOf(op[c])
                    /\ floor'[k][r] <= data'[r].version /\ ~cache'[k].there
    BY <1>0, <2>2, <2>3, <2>5, <2>6, <2>7
  <2> QED BY <2>1, <2>8 DEF Raises
<1>5. MethodThrows(c) => Raises(c)
  BY <1>1 DEF MethodThrows, history
<1>6. ASSUME Store(c)
      PROVE  Raises(c)
  <2>1. /\ op[c] \in Ops /\ Active(c) /\ KindOf(op[c]) # "evict" /\ stage[c] = "storing"
        /\ Key(op[c]) \in KeysOf(op[c]) /\ Key(op[c]) \in Keys
    BY <1>6 DEF Store, Active, Kinds
  <2>2. floor[Key(op[c])][Subject[op[c]]] <= result[c].version
    BY <2>1 DEF FloorBelowResults
  <2>3. \/ UNCHANGED floor
        \/ /\ c \in clean
           /\ floor' = [floor EXCEPT ![Key(op[c])][Subject[op[c]]] = result[c].version]
    BY <1>6 DEF Store
  <2>4. ASSUME NEW k \in Keys, NEW r \in Records
        PROVE  \/ floor'[k][r] = floor[k][r]
               \/ /\ c \in clean /\ k = Key(op[c]) /\ r = Subject[op[c]]
                  /\ floor'[k][r] = result[c].version
    BY <2>1, <2>3
  <2>5. /\ result[c].version <= data'[Subject[op[c]]].version
        /\ cache'[Key(op[c])] = result[c] /\ result[c].version \in Nat
    <3>1. data' = data /\ cache' = [cache EXCEPT ![Key(op[c])] = result[c]]
      BY <1>6 DEF Store, Stored
    <3>2. result[c].version <= data[Subject[op[c]]].version
      BY <2>1 DEF FloorBelowResults
    <3>3. result[c].version \in Nat
      BY FloorNumbers
    <3> QED BY <2>1, <3>1, <3>2, <3>3
  <2>6. ASSUME NEW k \in Keys, NEW r \in Records
        PROVE  /\ floor[k][r] <= floor'[k][r]
               /\ floor[k][r] # floor'[k][r] =>
                    /\ c \in clean /\ k \in KeysOf(op[c])
                    /\ floor'[k][r] <= data'[r].version /\ floor'[k][r] <= cache'[k].version
    <3>1. floor[k][r] \in Nat
      BY <1>0
    <3>2. CASE floor'[k][r] = floor[k][r]
      BY <3>1, <3>2
    <3>3. CASE /\ c \in clean /\ k = Key(op[c]) /\ r = Subject[op[c]]
               /\ floor'[k][r] = result[c].version
      BY <2>1, <2>2, <2>5, <3>1, <3>3
    <3> QED BY <2>4, <3>2, <3>3
  <2> QED BY <2>1, <2>6 DEF Raises
<1>7. StoreFails(c) \/ EvictReturns(c) => Raises(c)
  BY <1>1 DEF StoreFails, EvictReturns, history
<1>8. \A k \in dels[c] : Delete(c, k) \/ DeleteFails(c, k) => Raises(c)
  BY <1>1 DEF Delete, DeleteFails, history
<1> QED BY <1>2, <1>3, <1>4, <1>5, <1>6, <1>7, <1>8, StepCases

LEMMA RenewsStep ==
  ASSUME CacheInv, NEW c \in Calls, Step(c)
  PROVE  Renews
<1> USE KeyFacts DEF CacheInv, Typed, TypeOK, Fresh
<1>1. \A r \in Records : data[r].version <= data[r].version /\ data[r].of = r
  BY DEF FloorBelowData, Value
<1>2. UNCHANGED data => Renews
  BY <1>1 DEF Renews
<1>3. \A o \in Ops : CallRejects(c, o) \/ AskCache(c, o) \/ ShareLookup(c, o)
                       \/ CallPut(c, o) \/ CallEvict(c, o) => Renews
  BY <1>2 DEF CallRejects, AskCache, ShareLookup, CallPut, CallEvict, Starts
<1>4. CacheAnswers(c) \/ LookupFails(c) \/ Resume(c) => Renews
  BY <1>2 DEF CacheAnswers, LookupFails, Resume
<1>5. Method(c) \/ MethodThrows(c) => Renews
  <2>1. stage[c] = "method" => op[c] \in Ops
    OBVIOUS
  <2>2. Method(c) \/ MethodThrows(c) => stage[c] = "method" /\ data' \in {data, Written(op[c])}
    BY DEF Method, MethodThrows
  <2> QED BY <1>1, <2>1, <2>2, WrittenFacts DEF Renews
<1>6. Store(c) \/ StoreFails(c) \/ EvictReturns(c) => Renews
  BY <1>2 DEF Store, StoreFails, EvictReturns
<1>7. \A k \in dels[c] : Delete(c, k) \/ DeleteFails(c, k) => Renews
  BY <1>2 DEF Delete, DeleteFails
<1> QED BY <1>3, <1>4, <1>5, <1>6, <1>7, StepCases

LEMMA FillsStep ==
  ASSUME CacheInv, NEW c \in Calls, Step(c)
  PROVE  Fills(c)
<1> USE KeyFacts DEF CacheInv, Typed, TypeOK
<1>1. UNCHANGED cache => Fills(c)
  BY DEF Fills
<1>2. \A o \in Ops : CallRejects(c, o) \/ AskCache(c, o) \/ ShareLookup(c, o)
                       \/ CallPut(c, o) \/ CallEvict(c, o) => Fills(c)
  BY <1>1 DEF CallRejects, AskCache, ShareLookup, CallPut, CallEvict, Starts, store
<1>3. CacheAnswers(c) \/ LookupFails(c) \/ Resume(c) => Fills(c)
  BY <1>1 DEF CacheAnswers, LookupFails, Resume, store
<1>4. Method(c) \/ MethodThrows(c) => Fills(c)
  BY <1>1 DEF Method, MethodThrows, store
<1>5. ASSUME Store(c) \/ StoreFails(c)
      PROVE  Fills(c)
  <2>1. stage[c] = "storing" /\ KindOf(op[c]) # "evict"
    BY <1>5 DEF Store, StoreFails
  <2>2. UNCHANGED cache \/ cache' = [cache EXCEPT ![Key(op[c])] = result[c]]
    BY <1>5 DEF Store, StoreFails, Stored
  <2> QED BY <2>1, <2>2 DEF Fills
<1>6. EvictReturns(c) => Fills(c)
  BY <1>1 DEF EvictReturns, store
<1>7. \A k \in dels[c] : Delete(c, k) \/ DeleteFails(c, k) => Fills(c)
  BY <1>1, MissingIsValue DEF Delete, DeleteFails, Fills
<1> QED BY <1>2, <1>3, <1>4, <1>5, <1>6, <1>7, StepCases

-----------------------------------------------------------------------------
(* Clean calls *)
LEMMA AloneStep ==
  ASSUME CacheInv, NEW c \in Calls, Step(c)
  PROVE  Alone'
<1> USE KeyFacts DEF CacheInv, Typed, TypeOK
<1>1. \A d \in Calls \ {c} : SameCall(d)
  BY Locality
<1>2. ASSUME clean' \subseteq clean, Active(c)', op'[c] = op[c], Active(c)
      PROVE  Alone'
  BY <1>1, <1>2 DEF Alone, Active, SameCall
<1>3. ASSUME clean' \subseteq clean, ~Active(c)', stage'[c] # "idle"
      PROVE  Alone'
  BY <1>1, <1>3 DEF Alone, Active, SameCall
<1>4. ASSUME clean' \subseteq clean, op'[c] = op[c], stage'[c] = stage[c]
      PROVE  Alone'
  BY <1>1, <1>4 DEF Alone, Active, SameCall
<1>5. ASSUME NEW o \in Ops, NEW s \in {"lookup", "method", "evicting"}, Starts(c, o, s)
      PROVE  Alone'
  <2> DEFINE others == {d \in Calls \ {c} : Active(d) /\ KeysOf(op[d]) \intersect KeysOf(o) # {}}
  <2>1. /\ stage[c] = "idle" /\ stage'[c] = s /\ op'[c] = o
        /\ clean' = IF others = {} THEN clean \cup {c} ELSE clean \ others
    BY <1>5 DEF Starts, To
  <2>2. \A d \in Calls \ {c} : Active(d)' = Active(d) /\ op'[d] = op[d] /\ stage'[d] = stage[d]
    BY <1>1 DEF SameCall, Active
  <2>3. c \notin clean
    BY <2>1 DEF Alone
  <2>4. ASSUME NEW d \in clean'
        PROVE  stage'[d] # "idle"
    BY <2>1, <2>2, <2>4 DEF Alone
  <2>5. ASSUME NEW d \in clean', NEW e \in Calls \ {d}, Active(d)', Active(e)'
        PROVE  KeysOf(op'[d]) \intersect KeysOf(op'[e]) = {}
    <3>0. d \in Calls
      BY <2>1
    <3>1. CASE d # c /\ e # c
      BY <2>1, <2>2, <2>5, <3>0, <3>1 DEF Alone
    <3>2. CASE d = c
      <4>1. others = {}
        BY <2>1, <2>3, <3>2
      <4> QED BY <2>1, <2>2, <2>5, <3>2, <4>1
    <3>3. CASE d # c /\ e = c
      <4>1. d \notin others
        BY <2>1, <3>3
      <4> QED BY <2>1, <2>2, <2>5, <3>0, <3>3, <4>1
    <3> QED BY <3>1, <3>2, <3>3
  <2> QED BY <2>4, <2>5 DEF Alone
<1>6. \A o \in Ops : CallRejects(c, o) \/ AskCache(c, o) \/ ShareLookup(c, o)
                       \/ CallPut(c, o) \/ CallEvict(c, o) => Alone'
  BY <1>3, <1>5 DEF CallRejects, AskCache, ShareLookup, CallPut, CallEvict, To, Active, history
<1>7. CacheAnswers(c) \/ LookupFails(c) => Alone'
  BY <1>4 DEF CacheAnswers, LookupFails, history
<1>8. Resume(c) => Alone'
  BY <1>2, <1>3 DEF Resume, To, Active, history
<1>9. Method(c) \/ MethodThrows(c) => Alone'
  BY <1>2, <1>3 DEF Method, MethodThrows, To, Active, history
<1>10. Store(c) \/ StoreFails(c) \/ EvictReturns(c) => Alone'
  BY <1>3 DEF Store, StoreFails, EvictReturns, To, Active, history
<1>11. \A k \in dels[c] : Delete(c, k) \/ DeleteFails(c, k) => Alone'
  BY <1>2, <1>4 DEF Delete, DeleteFails, To, Active, history
<1> QED BY <1>6, <1>7, <1>8, <1>9, <1>10, <1>11, StepCases

LEMMA EmptiedStep ==
  ASSUME CacheInv, NEW c \in Calls, Step(c)
  PROVE  Emptied'
<1> USE KeyFacts DEF CacheInv, Typed, TypeOK
<1>1. \A d \in Calls \ {c} : SameCall(d)
  BY Locality
<1>2. Fills(c)
  BY FillsStep
(* Of the others, only a call that stores could refill a key, and none has *)
(* a key of a clean call.                                                  *)
<1>3. ASSUME NEW d \in clean \ {c}, NEW k \in KeysOf(op[d]), KindOf(op[d]) = "evict",
             stage[d] \in {"evicting", "method"},
             ~cache[k].there \/ (stage[d] = "evicting" /\ k \in dels[d])
      PROVE  ~cache'[k].there \/ (stage[d] = "evicting" /\ k \in dels[d])
  <2>1. d \in Calls /\ Active(d) /\ k \in Keys
    BY <1>3 DEF Active
  <2>2. cache'[k] = result[c] /\ k = Key(op[c]) => ~(stage[c] = "storing" /\ KindOf(op[c]) # "evict")
    <3>1. stage[c] = "storing" => Active(c) /\ op[c] \in Ops
      BY DEF Active
    <3>2. stage[c] = "storing" /\ KindOf(op[c]) # "evict" => Key(op[c]) \in KeysOf(op[c])
      BY <3>1 DEF Kinds
    <3> QED BY <1>3, <2>1, <3>1, <3>2 DEF Alone
  <2> QED BY <1>2, <1>3, <2>1, <2>2 DEF Fills
<1>4. ASSUME NEW d \in clean' \ {c}, d \in clean
      PROVE  \A k \in KeysOf(op'[d]) :
               /\ KindOf(op'[d]) = "evict" /\ stage'[d] \in {"evicting", "method"}
               => ~cache'[k].there \/ (stage'[d] = "evicting" /\ k \in dels'[d])
  <2>1. d \in Calls \ {c} /\ SameCall(d)
    BY <1>1, <1>4
  <2>2. \A k \in KeysOf(op[d]) :
          /\ KindOf(op[d]) = "evict" /\ stage[d] \in {"evicting", "method"}
          => ~cache'[k].there \/ (stage[d] = "evicting" /\ k \in dels[d])
    BY <1>3, <1>4 DEF Emptied
  <2> QED BY <2>1, <2>2 DEF SameCall
<1>5. clean' \subseteq clean \cup {c}
  <2>1. \A o \in Ops : CallRejects(c, o) \/ AskCache(c, o) \/ ShareLookup(c, o)
                          \/ CallPut(c, o) \/ CallEvict(c, o) => clean' \subseteq clean \cup {c}
    BY DEF CallRejects, AskCache, ShareLookup, CallPut, CallEvict, Starts, history
  <2>2. CacheAnswers(c) \/ LookupFails(c) \/ Resume(c) => clean' \subseteq clean \cup {c}
    BY DEF CacheAnswers, LookupFails, Resume, history
  <2>3. Method(c) \/ MethodThrows(c) => clean' \subseteq clean \cup {c}
    BY DEF Method, MethodThrows, history
  <2>4. Store(c) \/ StoreFails(c) \/ EvictReturns(c) => clean' \subseteq clean \cup {c}
    BY DEF Store, StoreFails, EvictReturns, history
  <2>5. \A k \in dels[c] : Delete(c, k) \/ DeleteFails(c, k) => clean' \subseteq clean \cup {c}
    BY DEF Delete, DeleteFails, history
  <2> QED BY <2>1, <2>2, <2>3, <2>4, <2>5, StepCases
<1> DEFINE Own == c \in clean' => \A k \in KeysOf(op'[c]) :
                    /\ KindOf(op'[c]) = "evict" /\ stage'[c] \in {"evicting", "method"}
                    => ~cache'[k].there \/ (stage'[c] = "evicting" /\ k \in dels'[c])
<1>6. ASSUME KindOf(op'[c]) # "evict" \/ stage'[c] \notin {"evicting", "method"}
      PROVE  Own
  BY <1>6
<1>7. \A o \in Ops : CallRejects(c, o) \/ AskCache(c, o) \/ ShareLookup(c, o)
                       \/ CallPut(c, o) \/ CallEvict(c, o) => Own
  <2>1. \A o \in Ops : CallRejects(c, o) \/ AskCache(c, o) \/ ShareLookup(c, o) \/ CallPut(c, o) => Own
    BY <1>6 DEF CallRejects, AskCache, ShareLookup, CallPut, Starts, To
  <2>2. \A o \in Ops : CallEvict(c, o) => Own
    BY DEF CallEvict, Starts, To
  <2> QED BY <2>1, <2>2
<1>8. CacheAnswers(c) \/ LookupFails(c) \/ Resume(c) => Own
  <2>1. stage[c] = "lookup" => op[c] \in Ops /\ KindOf(op[c]) = "cacheable"
    BY DEF Kinds
  <2>2. CacheAnswers(c) \/ LookupFails(c) \/ Resume(c) => stage[c] = "lookup" /\ op'[c] = op[c]
    BY DEF CacheAnswers, LookupFails, Resume, Lookups
  <2> QED BY <1>6, <2>1, <2>2
<1>9. Method(c) \/ MethodThrows(c) => Own
  BY <1>6 DEF Method, MethodThrows, To
<1>10. Store(c) \/ StoreFails(c) \/ EvictReturns(c) => Own
  BY <1>6 DEF Store, StoreFails, EvictReturns, To
<1>11. ASSUME NEW k \in dels[c], Delete(c, k) \/ DeleteFails(c, k)
       PROVE  Own
  <2>1. CASE Delete(c, k)
    <3>1. /\ op' = op /\ clean' = clean /\ k \in Keys
          /\ dels'[c] = dels[c] \ {k} /\ ~cache'[k].there
          /\ \A j \in Keys \ {k} : cache'[j] = cache[j]
          /\ stage'[c] = stage[c] \/ (stage[c] = "evicting" /\ dels[c] = {k} /\ stage'[c] = "method")
      BY <2>1, MissingIsValue DEF Delete, To, history
    <3>2. SUFFICES ASSUME c \in clean, NEW j \in KeysOf(op[c]), KindOf(op[c]) = "evict",
                          stage'[c] \in {"evicting", "method"}
                   PROVE  ~cache'[j].there \/ (stage'[c] = "evicting" /\ j \in dels'[c])
      BY <3>1
    <3>3. j \in Keys /\ stage[c] \in {"evicting", "method"}
      BY <3>1, <3>2
    <3>4. ~cache[j].there \/ (stage[c] = "evicting" /\ j \in dels[c])
      BY <3>2, <3>3 DEF Emptied
    <3> QED BY <3>1, <3>2, <3>3, <3>4
  <2>2. CASE DeleteFails(c, k)
    BY <2>2 DEF DeleteFails
  <2> QED BY <1>11, <2>1, <2>2
<1>12. Own
  BY <1>7, <1>8, <1>9, <1>10, <1>11, StepCases
<1> QED BY <1>4, <1>5, <1>12 DEF Emptied

-----------------------------------------------------------------------------
(* Nobody raises the floor of a key that another call is using.            *)
LEMMA Undisturbed ==
  ASSUME CacheInv, NEW c \in Calls, Step(c), NEW d \in Calls \ {c}, Active(d),
         NEW k \in KeysOf(op[d])
  PROVE  \A r \in Records : floor'[k][r] = floor[k][r]
<1>1. k \in Keys
  BY KeyFacts DEF CacheInv, Typed, TypeOK, Active
<1> QED BY <1>1, RaisesStep DEF Raises, CacheInv, Alone

LEMMA UsesKey ==
  ASSUME Typed, NEW d \in Calls, Active(d), KindOf(op[d]) # "evict"
  PROVE  op[d] \in Ops /\ Key(op[d]) \in KeysOf(op[d]) /\ Key(op[d]) \in Keys
BY KeyFacts DEF Typed, TypeOK, Kinds, Active

LEMMA DataStep ==
  ASSUME CacheInv, NEW c \in Calls, Step(c)
  PROVE  FloorBelowData'
<1>1. TypeOK /\ TypeOK'
  BY TypeStep DEF CacheInv, Typed
<1>2. Raises(c) /\ Renews
  BY RaisesStep, RenewsStep
<1>3. \A k \in Keys, r \in Records : floor[k][r] <= data[r].version
  BY DEF CacheInv, Fresh, FloorBelowData
<1>4. \A k \in Keys, r \in Records : floor'[k][r] \in Nat
  BY <1>1 DEF TypeOK
<1>5. \A r \in Records : data'[r].version \in Nat
  BY <1>1 DEF TypeOK, Value
<1> QED BY <1>1, <1>2, <1>3, <1>4, <1>5, FloorNumbers DEF Raises, Renews, FloorBelowData

LEMMA CacheStep ==
  ASSUME CacheInv, NEW c \in Calls, Step(c)
  PROVE  FloorBelowCache'
<1>1. TypeOK /\ Typed /\ TypeOK'
  BY TypeStep DEF CacheInv, Typed
<1>2. Raises(c) /\ Fills(c)
  BY RaisesStep, FillsStep
<1>3. SUFFICES ASSUME NEW k \in Keys, cache'[k].there
               PROVE  cache'[k].of \in Records /\ floor'[k][cache'[k].of] <= cache'[k].version
  BY DEF FloorBelowCache
<1>4. CASE cache'[k] = cache[k]
  <2>1. cache[k].of \in Records /\ floor[k][cache[k].of] <= cache[k].version
    BY <1>3, <1>4 DEF CacheInv, Fresh, FloorBelowCache
  <2> QED BY <1>2, <1>3, <1>4, <2>1 DEF Raises
<1>5. CASE /\ stage[c] = "storing" /\ KindOf(op[c]) # "evict" /\ k = Key(op[c])
           /\ cache'[k] = result[c]
  <2>1. op[c] \in Ops
    BY <1>1, <1>5, UsesKey DEF Active
  <2>2. /\ cache'[k].of = Subject[op[c]] /\ Subject[op[c]] \in Records
        /\ floor[k][Subject[op[c]]] <= cache'[k].version
    BY <1>5, <2>1, KeyFacts DEF CacheInv, Fresh, FloorBelowResults
  <2> QED BY <1>2, <1>3, <2>2 DEF Raises
<1> QED BY <1>2, <1>3, <1>4, <1>5 DEF Fills

LEMMA AnswersStep ==
  ASSUME CacheInv, NEW c \in Calls, Step(c)
  PROVE  FloorBelowAnswers'
<1> USE DEF CacheInv, Fresh
<1>1. Typed /\ TypeOK /\ \A d \in Calls \ {c} : SameCall(d)
  BY Locality DEF Typed
<1> DEFINE Sees(value, k) == value.of \in Records /\ floor[k][value.of] <= value.version
<1>2. \A d \in Calls : stage[d] = "lookup" /\ answer[awaits[d]].there
         => Sees(answer[awaits[d]], Key(op[d]))
  BY DEF FloorBelowAnswers
(* An answer changes when the cache gives it, to the entry of its key. *)
<1>3. \/ answer'[c] = answer[c]
      \/ /\ lookup[c] = "asked" /\ answer'[c] = cache[Key(op[c])]
         /\ stage'[c] = stage[c] /\ awaits'[c] = awaits[c] /\ op'[c] = op[c]
  <2> DEFINE Given == \/ answer'[c] = answer[c]
                      \/ /\ lookup[c] = "asked" /\ answer'[c] = cache[Key(op[c])]
                         /\ stage'[c] = stage[c] /\ awaits'[c] = awaits[c] /\ op'[c] = op[c]
  <2>1. \A o \in Ops : CallRejects(c, o) \/ AskCache(c, o) \/ ShareLookup(c, o)
                          \/ CallPut(c, o) \/ CallEvict(c, o) => Given
    BY DEF CallRejects, AskCache, ShareLookup, CallPut, CallEvict, Starts
  <2>2. CacheAnswers(c) \/ LookupFails(c) \/ Resume(c) => Given
    BY <1>1 DEF CacheAnswers, LookupFails, Resume, TypeOK
  <2>3. Method(c) \/ MethodThrows(c) => Given
    BY DEF Method, MethodThrows
  <2>4. Store(c) \/ StoreFails(c) \/ EvictReturns(c) => Given
    BY DEF Store, StoreFails, EvictReturns
  <2>5. \A k \in dels[c] : Delete(c, k) \/ DeleteFails(c, k) => Given
    BY DEF Delete, DeleteFails
  <2>6. Given
    BY <2>1, <2>2, <2>3, <2>4, <2>5, StepCases
  <2> QED BY <2>6
<1>4. lookup[c] = "asked" =>
        stage[c] = "lookup" /\ KindOf(op[c]) = "cacheable" /\ Key(op[c]) \in Keys
  BY <1>1, UsesKey DEF Typed, Lookups, Kinds, Active
<1>5. ASSUME NEW d \in Calls, stage[d] = "lookup", stage'[d] = "lookup", op'[d] = op[d],
             awaits'[d] = awaits[d], answer'[awaits[d]].there
      PROVE  Sees(answer'[awaits[d]], Key(op[d]))
  <2>1. awaits[d] \in Calls /\ Key(op[awaits[d]]) = Key(op[d])
    BY <1>1, <1>5 DEF Typed, TypeOK, Lookups
  <2>2. CASE answer'[awaits[d]] = answer[awaits[d]]
    BY <1>2, <1>5, <2>2
  <2>3. CASE answer'[awaits[d]] # answer[awaits[d]]
    <3>1. awaits[d] = c /\ answer'[c] = cache[Key(op[d])] /\ Key(op[d]) \in Keys
      BY <1>1, <1>3, <1>4, <2>1, <2>3 DEF SameCall
    <3> QED BY <1>5, <3>1 DEF FloorBelowCache
  <2> QED BY <2>2, <2>3
<1>6. ASSUME NEW d \in Calls \ {c}, stage'[d] = "lookup", answer'[awaits'[d]].there
      PROVE  /\ answer'[awaits'[d]].of \in Records
             /\ floor'[Key(op'[d])][answer'[awaits'[d]].of] <= answer'[awaits'[d]].version
  <2>1. op'[d] = op[d] /\ awaits'[d] = awaits[d] /\ stage[d] = "lookup"
    BY <1>1, <1>6 DEF SameCall
  <2>2. Sees(answer'[awaits[d]], Key(op[d]))
    BY <1>5, <1>6, <2>1
  <2>3. Active(d) /\ Key(op[d]) \in KeysOf(op[d])
    BY <1>1, <2>1, UsesKey DEF Typed, Kinds, Active
  <2>4. \A r \in Records : floor'[Key(op[d])][r] = floor[Key(op[d])][r]
    BY <2>3, Undisturbed
  <2> QED BY <2>1, <2>2, <2>4
<1> DEFINE Own == stage'[c] = "lookup" /\ answer'[awaits'[c]].there =>
             /\ answer'[awaits'[c]].of \in Records
             /\ floor'[Key(op'[c])][answer'[awaits'[c]].of] <= answer'[awaits'[c]].version
<1>7. \A o \in Ops : CallRejects(c, o) \/ AskCache(c, o) \/ ShareLookup(c, o)
                       \/ CallPut(c, o) \/ CallEvict(c, o) => Own
  <2>1. \A o \in Ops : CallRejects(c, o) \/ CallPut(c, o) \/ CallEvict(c, o) => Own
    BY <1>1 DEF CallRejects, CallPut, CallEvict, Starts, To, TypeOK
  <2>2. ASSUME NEW o \in Ops, AskCache(c, o)
        PROVE  Own
    <3>1. awaits'[c] = c /\ answer' = answer /\ stage[c] = "idle"
      BY <1>1, <2>2 DEF AskCache, Starts, TypeOK
    <3> QED BY <1>1, <3>1 DEF Typed, Lookups
  <2>3. ASSUME NEW o \in Ops, ShareLookup(c, o)
        PROVE  Own
    <3>1. /\ awaits'[c] = pending[Key(o)] /\ op'[c] = o /\ UNCHANGED <<answer, floor>>
          /\ pending[Key(o)] # Nobody /\ KindOf(o) = "cacheable" /\ Composes(o)
      BY <1>1, <2>3 DEF ShareLookup, Starts, TypeOK
    <3>2. Key(o) \in Keys
      BY <3>1, KeyFacts
    <3>3. pending[Key(o)] \in Calls
      BY <1>1, <3>1, <3>2 DEF TypeOK
    <3>4. /\ stage[pending[Key(o)]] = "lookup" /\ awaits[pending[Key(o)]] = pending[Key(o)]
          /\ Key(op[pending[Key(o)]]) = Key(o)
      BY <1>1, <3>1, <3>2 DEF Typed, PendingIsLive
    <3> QED BY <1>2, <3>1, <3>3, <3>4
  <2> QED BY <2>1, <2>2, <2>3
<1>8. CacheAnswers(c) \/ LookupFails(c) => Own
  <2>1. CacheAnswers(c) \/ LookupFails(c) => UNCHANGED <<op, stage, awaits, floor>>
    BY DEF CacheAnswers, LookupFails, history
  <2> QED BY <1>5, <2>1
<1>9. Resume(c) => Own
  BY <1>1 DEF Resume, To, TypeOK
<1>10. Method(c) \/ MethodThrows(c) => Own
  BY <1>1 DEF Method, MethodThrows, To, TypeOK
<1>11. Store(c) \/ StoreFails(c) \/ EvictReturns(c) => Own
  BY <1>1 DEF Store, StoreFails, EvictReturns, To, TypeOK
<1>12. \A k \in dels[c] : Delete(c, k) \/ DeleteFails(c, k) => Own
  <2>1. \A k \in dels[c] : Delete(c, k) \/ DeleteFails(c, k) =>
          UNCHANGED <<op, awaits, floor>> /\ (stage'[c] = "lookup" => stage[c] = "lookup")
    BY <1>1 DEF Delete, DeleteFails, history, To, TypeOK
  <2> QED BY <1>5, <2>1
<1>13. Own
  BY <1>7, <1>8, <1>9, <1>10, <1>11, <1>12, StepCases
<1> QED BY <1>6, <1>13 DEF FloorBelowAnswers

LEMMA ResultsStep ==
  ASSUME CacheInv, NEW c \in Calls, Step(c)
  PROVE  FloorBelowResults'
<1> USE DEF CacheInv, Fresh
<1>1. Typed /\ TypeOK /\ TypeOK' /\ \A d \in Calls \ {c} : SameCall(d)
  BY Locality, TypeStep DEF Typed
<1>2. Renews
  BY RenewsStep
<1>3. ASSUME NEW d \in Calls, stage[d] = "storing", op'[d] = op[d], result'[d] = result[d],
             KindOf(op[d]) # "evict" =>
               \A r \in Records : floor'[Key(op[d])][r] = floor[Key(op[d])][r]
      PROVE  /\ result'[d].of = Subject[op'[d]]
             /\ result'[d].version <= data'[Subject[op'[d]]].version
             /\ KindOf(op'[d]) # "evict" =>
                  floor'[Key(op'[d])][Subject[op'[d]]] <= result'[d].version
  <2>1. op[d] \in Ops /\ Subject[op[d]] \in Records
    BY <1>1, <1>3, KeyFacts DEF TypeOK
  <2>2. /\ result[d].of = Subject[op[d]]
        /\ result[d].version <= data[Subject[op[d]]].version
        /\ KindOf(op[d]) # "evict" => floor[Key(op[d])][Subject[op[d]]] <= result[d].version
    BY <1>3 DEF FloorBelowResults
  <2>3. data[Subject[op[d]]].version <= data'[Subject[op[d]]].version
    BY <1>2, <2>1 DEF Renews
  <2>4. result[d].version \in Nat /\ data[Subject[op[d]]].version \in Nat
        /\ data'[Subject[op[d]]].version \in Nat
    BY <1>1, <2>1 DEF TypeOK, Value
  <2> QED BY <1>3, <2>1, <2>2, <2>3, <2>4
<1>4. ASSUME NEW d \in Calls \ {c}, stage'[d] = "storing"
      PROVE  /\ result'[d].of = Subject[op'[d]]
             /\ result'[d].version <= data'[Subject[op'[d]]].version
             /\ KindOf(op'[d]) # "evict" =>
                  floor'[Key(op'[d])][Subject[op'[d]]] <= result'[d].version
  <2>1. op'[d] = op[d] /\ result'[d] = result[d] /\ stage[d] = "storing"
    BY <1>1, <1>4 DEF SameCall
  <2>2. Active(d)
    BY <2>1 DEF Active
  <2>3. KindOf(op[d]) # "evict" => \A r \in Records : floor'[Key(op[d])][r] = floor[Key(op[d])][r]
    BY <1>1, <2>2, UsesKey, Undisturbed
  <2> QED BY <1>3, <2>1, <2>3
<1> DEFINE Own == stage'[c] = "storing" =>
             /\ result'[c].of = Subject[op'[c]]
             /\ result'[c].version <= data'[Subject[op'[c]]].version
             /\ KindOf(op'[c]) # "evict" =>
                  floor'[Key(op'[c])][Subject[op'[c]]] <= result'[c].version
<1>5. \A o \in Ops : CallRejects(c, o) \/ AskCache(c, o) \/ ShareLookup(c, o)
                       \/ CallPut(c, o) \/ CallEvict(c, o) => Own
  BY <1>1 DEF CallRejects, AskCache, ShareLookup, CallPut, CallEvict, Starts, To, TypeOK
<1>6. CacheAnswers(c) \/ LookupFails(c) \/ Resume(c) => Own
  <2>1. CacheAnswers(c) \/ LookupFails(c) \/ Resume(c) => stage[c] = "lookup"
    BY <1>1 DEF CacheAnswers, LookupFails, Resume, Typed, Lookups
  <2> QED BY <1>1, <2>1 DEF CacheAnswers, LookupFails, Resume, To, TypeOK
<1>7. ASSUME Method(c)
      PROVE  Own
  <2>1. /\ op' = op /\ op[c] \in Ops /\ Subject[op[c]] \in Records
        /\ stage[c] = "method"
    BY <1>1, <1>7, KeyFacts DEF Method, TypeOK
  <2>2. result'[c] = data'[Subject[op[c]]]
    BY <1>1, <1>7 DEF Method, TypeOK
  <2>3. result'[c].of = Subject[op[c]] /\ data'[Subject[op[c]]].version \in Nat
        /\ data[Subject[op[c]]].version \in Nat
        /\ data[Subject[op[c]]].version <= data'[Subject[op[c]]].version
    BY <1>1, <1>2, <2>1, <2>2 DEF Renews, TypeOK, Value
  <2>4. ASSUME KindOf(op[c]) # "evict"
        PROVE  floor'[Key(op[c])][Subject[op[c]]] <= data'[Subject[op[c]]].version
    <3>1. Key(op[c]) \in Keys
      BY <1>1, <2>1, <2>4, UsesKey DEF Active
    <3>2. floor'[Key(op[c])] = floor[Key(op[c])]
      BY <1>7, <2>4, <3>1 DEF Method
    <3>3. floor[Key(op[c])][Subject[op[c]]] <= data[Subject[op[c]]].version
          /\ floor[Key(op[c])][Subject[op[c]]] \in Nat
      BY <1>1, <2>1, <3>1 DEF FloorBelowData, TypeOK
    <3> QED BY <2>3, <3>2, <3>3
  <2> QED BY <2>1, <2>2, <2>3, <2>4
<1>8. MethodThrows(c) => Own
  BY <1>1 DEF MethodThrows, To, TypeOK
<1>9. Store(c) \/ StoreFails(c) \/ EvictReturns(c) => Own
  BY <1>1 DEF Store, StoreFails, EvictReturns, To, TypeOK
<1>10. \A k \in dels[c] : Delete(c, k) \/ DeleteFails(c, k) => Own
  <2>1. \A k \in dels[c] : Delete(c, k) \/ DeleteFails(c, k) =>
          UNCHANGED <<op, result, floor>> /\ (stage'[c] = "storing" => stage[c] = "storing")
    BY <1>1 DEF Delete, DeleteFails, history, To, TypeOK
  <2> QED BY <1>3, <2>1
<1>11. Own
  BY <1>5, <1>6, <1>7, <1>8, <1>9, <1>10, StepCases
<1> QED BY <1>4, <1>11 DEF FloorBelowResults

LEMMA SeenStep ==
  ASSUME CacheInv, NEW c \in Calls, Step(c)
  PROVE  SeenBelowFloor'
<1> USE DEF CacheInv, Fresh
<1>1. Typed /\ TypeOK /\ TypeOK' /\ Kinds' /\ \A d \in Calls \ {c} : SameCall(d)
  BY Locality, TypeStep, KindsStep DEF Typed
<1>2. Raises(c)
  BY RaisesStep
<1>3. ASSUME NEW d \in Calls, Active(d), KindOf(op[d]) = "cacheable", op'[d] = op[d],
             seen'[d] = seen[d]
      PROVE  \A r \in Records : seen'[d][r] <= floor'[Key(op'[d])][r]
  <2>1. Key(op[d]) \in Keys
    BY <1>1, <1>3, UsesKey
  <2>2. ASSUME NEW r \in Records
        PROVE  seen[d][r] <= floor'[Key(op[d])][r]
    <3>1. seen[d][r] <= floor[Key(op[d])][r]
      BY <1>3 DEF SeenBelowFloor
    <3>2. floor[Key(op[d])][r] <= floor'[Key(op[d])][r]
      BY <1>2, <2>1 DEF Raises
    <3>3. seen[d][r] \in Nat /\ floor[Key(op[d])][r] \in Nat /\ floor'[Key(op[d])][r] \in Nat
      BY <1>1, <2>1 DEF TypeOK
    <3> QED BY <3>1, <3>2, <3>3
  <2> QED BY <1>3, <2>2
<1>4. \A d \in Calls \ {c} : Active(d)' /\ KindOf(op'[d]) = "cacheable" =>
        \A r \in Records : seen'[d][r] <= floor'[Key(op'[d])][r]
  BY <1>1, <1>3 DEF SameCall, Active
<1> DEFINE Own == Active(c)' /\ KindOf(op'[c]) = "cacheable" =>
             \A r \in Records : seen'[c][r] <= floor'[Key(op'[c])][r]
<1>5. ASSUME Active(c), op'[c] = op[c], seen'[c] = seen[c]
      PROVE  Own
  BY <1>3, <1>5
<1>6. ASSUME NEW o \in Ops, CallRejects(c, o) \/ AskCache(c, o) \/ ShareLookup(c, o)
                            \/ CallPut(c, o) \/ CallEvict(c, o)
      PROVE  Own
  <2>1. CASE CallRejects(c, o)
    BY <1>1, <2>1 DEF CallRejects, To, Active, TypeOK
  <2>2. CASE CallPut(c, o) \/ CallEvict(c, o)
    BY <1>1, <2>2 DEF CallPut, CallEvict, Starts, TypeOK
  <2>3. CASE AskCache(c, o) \/ ShareLookup(c, o)
    <3>1. KindOf(o) = "cacheable" /\ op'[c] = o /\ seen'[c] = floor[Key(o)] /\ floor' = floor
          /\ Key(o) \in Keys
      BY <1>1, <2>3, KeyFacts DEF AskCache, ShareLookup, Starts, TypeOK
    <3>2. \A r \in Records : floor[Key(o)][r] \in Nat
      BY <1>1, <3>1, FloorNumbers
    <3> QED BY <3>1, <3>2
  <2> QED BY <1>6, <2>1, <2>2, <2>3
<1>7. CacheAnswers(c) \/ LookupFails(c) \/ Resume(c) => Own
  BY <1>1, <1>5 DEF CacheAnswers, LookupFails, Resume, history, Typed, Lookups, Active
<1>8. Method(c) \/ MethodThrows(c) => Own
  BY <1>5 DEF Method, MethodThrows, history, Active
<1>9. Store(c) \/ StoreFails(c) \/ EvictReturns(c) => Own
  BY <1>5 DEF Store, StoreFails, EvictReturns, history, Active
<1>10. \A k \in dels[c] : Delete(c, k) \/ DeleteFails(c, k) => Own
  <2>1. \A k \in dels[c] : Delete(c, k) \/ DeleteFails(c, k) =>
          UNCHANGED <<op, seen>> /\ (Active(c)' => Active(c))
    BY <1>1 DEF Delete, DeleteFails, history, To, TypeOK, Active
  <2> QED BY <1>5, <2>1
<1>11. Own
  BY <1>6, <1>7, <1>8, <1>9, <1>10, StepCases
<1> QED BY <1>4, <1>11 DEF SeenBelowFloor

LEMMA ReadsStep ==
  ASSUME CacheInv, NEW c \in Calls, Step(c)
  PROVE  ReadsSeeWrites'
<1> USE DEF CacheInv, Fresh
<1>1. Typed /\ TypeOK /\ TypeOK' /\ \A d \in Calls \ {c} : SameCall(d)
  BY Locality, TypeStep DEF Typed
<1>2. \A d \in Calls \ {c} : stage'[d] = "done" /\ KindOf(op'[d]) = "cacheable" =>
        result'[d].version >= seen'[d][result'[d].of]
  BY <1>1 DEF SameCall, ReadsSeeWrites
<1> DEFINE Own == stage'[c] = "done" /\ KindOf(op'[c]) = "cacheable" =>
             result'[c].version >= seen'[c][result'[c].of]
<1>3. ASSUME UNCHANGED <<op, result, seen>>, stage'[c] = "done" => stage[c] = "done"
      PROVE  Own
  BY <1>3 DEF ReadsSeeWrites
<1>4. ASSUME Active(c), KindOf(op[c]) = "cacheable", NEW r \in Records, NEW v \in Nat,
             floor[Key(op[c])][r] <= v
      PROVE  v >= seen[c][r]
  <2>1. Key(op[c]) \in Keys
    BY <1>1, <1>4, UsesKey
  <2>2. seen[c][r] <= floor[Key(op[c])][r]
    BY <1>4 DEF SeenBelowFloor
  <2>3. seen[c][r] \in Nat /\ floor[Key(op[c])][r] \in Nat
    BY <1>1, <2>1, FloorNumbers
  <2> QED BY <1>4, <2>2, <2>3
<1>5. \A o \in Ops : CallRejects(c, o) \/ AskCache(c, o) \/ ShareLookup(c, o)
                       \/ CallPut(c, o) \/ CallEvict(c, o) => Own
  BY <1>1 DEF CallRejects, AskCache, ShareLookup, CallPut, CallEvict, Starts, To, TypeOK
<1>6. CacheAnswers(c) \/ LookupFails(c) => Own
  BY <1>3 DEF CacheAnswers, LookupFails, history
<1>7. ASSUME Resume(c)
      PROVE  Own
  <2>1. /\ stage[c] = "lookup" /\ UNCHANGED <<op, seen>> /\ awaits[c] \in Calls
        /\ stage'[c] = "done" => answer[awaits[c]].there /\ result'[c] = answer[awaits[c]]
    BY <1>1, <1>7 DEF Resume, To, history, TypeOK
  <2>2. CASE stage'[c] = "done"
    <3>1. /\ result'[c].of \in Records /\ result'[c].version \in Nat
          /\ floor[Key(op[c])][result'[c].of] <= result'[c].version
      BY <1>1, <2>1, <2>2, FloorNumbers DEF FloorBelowAnswers
    <3>2. Active(c)
      BY <2>1 DEF Active
    <3> QED BY <1>4, <2>1, <3>1, <3>2
  <2> QED BY <2>2
<1>8. Method(c) \/ MethodThrows(c) => Own
  BY <1>1 DEF Method, MethodThrows, To, TypeOK
<1>9. Store(c) => Own
  <2>1. SUFFICES ASSUME Store(c), KindOf(op[c]) = "cacheable"
                 PROVE  result[c].version >= seen[c][result[c].of]
    BY DEF Store
  <2>2. stage[c] = "storing" /\ op[c] \in Ops /\ Active(c)
    BY <1>1, <2>1, UsesKey DEF Store, Active
  <2>3. /\ result[c].of = Subject[op[c]] /\ Subject[op[c]] \in Records
        /\ floor[Key(op[c])][Subject[op[c]]] <= result[c].version /\ result[c].version \in Nat
    BY <1>1, <2>1, <2>2, KeyFacts, FloorNumbers DEF FloorBelowResults
  <2> QED BY <1>4, <2>1, <2>2, <2>3
<1>10. StoreFails(c) \/ EvictReturns(c) => Own
  BY <1>1 DEF StoreFails, EvictReturns, To, TypeOK
<1>11. \A k \in dels[c] : Delete(c, k) \/ DeleteFails(c, k) => Own
  <2>1. \A k \in dels[c] : Delete(c, k) \/ DeleteFails(c, k) =>
          UNCHANGED <<op, result, seen>> /\ (stage'[c] = "done" => stage[c] = "done")
    BY <1>1 DEF Delete, DeleteFails, history, To, TypeOK
  <2> QED BY <1>3, <2>1
<1>12. Own
  BY <1>5, <1>6, <1>7, <1>8, <1>9, <1>10, <1>11, StepCases
<1> QED BY <1>2, <1>12 DEF ReadsSeeWrites

-----------------------------------------------------------------------------
LEMMA CallInv ==
  ASSUME CacheInv, NEW c \in Calls, Step(c)
  PROVE  CacheInv'
<1>1. TypeOK' /\ Kinds' /\ Lookups' /\ PendingIsLive'
  BY TypeStep, KindsStep, LookupsStep, PendingStep DEF CacheInv, Typed
<1>2. Alone' /\ Emptied'
  BY AloneStep, EmptiedStep
<1>3. FloorBelowData' /\ FloorBelowCache' /\ FloorBelowAnswers' /\ FloorBelowResults'
  BY DataStep, CacheStep, AnswersStep, ResultsStep
<1>4. SeenBelowFloor' /\ ReadsSeeWrites'
  BY SeenStep, ReadsStep
<1> QED BY <1>1, <1>2, <1>3, <1>4 DEF CacheInv, Typed, Fresh

LEMMA ExpireInv ==
  ASSUME CacheInv, NEW k \in Keys, Expire(k)
  PROVE  CacheInv'
<1> USE DEF CacheInv, Typed, Fresh
<1>1. cache \in [Keys -> Value] /\ mortal \in SUBSET Keys
  BY DEF TypeOK
<1>2. \A d \in Keys : cache'[d] = cache[d] \/ cache'[d] = Missing
  BY <1>1 DEF Expire
<1>3. cache' \in [Keys -> Value] /\ mortal' \in SUBSET Keys
  BY <1>1, MissingIsValue DEF Expire
<1>4. UNCHANGED <<op, stage, result, awaits, lookup, answer, pending, dels, data, faults, history>>
  BY DEF Expire
<1>5. TypeOK'
  BY <1>3, <1>4 DEF TypeOK, history
<1>6. Kinds' /\ Lookups' /\ PendingIsLive' /\ Alone'
  BY <1>4 DEF Kinds, Active, Lookups, PendingIsLive, Alone, history
<1>7. Emptied'
  <2> SUFFICES ASSUME NEW c \in clean, NEW d \in KeysOf(op[c]),
                      KindOf(op[c]) = "evict" /\ stage[c] \in {"evicting", "method"}
               PROVE  ~cache'[d].there \/ (stage[c] = "evicting" /\ d \in dels[c])
    BY <1>4 DEF Emptied, history
  <2>1. c \in Calls /\ op[c] \in Ops
    BY DEF TypeOK
  <2>2. d \in Keys
    BY <2>1, KeyFacts
  <2>3. ~cache[d].there \/ (stage[c] = "evicting" /\ d \in dels[c])
    BY DEF Emptied
  <2> QED BY <1>2, <2>2, <2>3, MissingIsValue
<1>8. FloorBelowData'
  BY <1>4 DEF FloorBelowData, history
<1>9. FloorBelowCache'
  BY <1>2, <1>4, MissingIsValue DEF FloorBelowCache, history
<1>10. FloorBelowAnswers'
  BY <1>4 DEF FloorBelowAnswers, history
<1>11. FloorBelowResults' /\ SeenBelowFloor' /\ ReadsSeeWrites'
  BY <1>4 DEF FloorBelowResults, SeenBelowFloor, Active, ReadsSeeWrites, history
<1> QED BY <1>5, <1>6, <1>7, <1>8, <1>9, <1>10, <1>11

LEMMA StutterInv == CacheInv /\ UNCHANGED vars => CacheInv'
<1> SUFFICES ASSUME CacheInv, UNCHANGED vars PROVE CacheInv'
  OBVIOUS
<1> USE DEF CacheInv, Typed, Fresh, vars
<1>1. TypeOK' /\ Kinds' /\ Lookups' /\ PendingIsLive' /\ Alone' /\ Emptied'
  BY DEF TypeOK, Kinds, Active, Lookups, PendingIsLive, Alone, Emptied
<1>2. FloorBelowData' /\ FloorBelowCache' /\ FloorBelowAnswers'
  BY DEF FloorBelowData, FloorBelowCache, FloorBelowAnswers
<1>3. FloorBelowResults' /\ SeenBelowFloor' /\ ReadsSeeWrites'
  BY DEF FloorBelowResults, SeenBelowFloor, Active, ReadsSeeWrites
<1> QED BY <1>1, <1>2, <1>3

(* CacheInv is inductive. *)
LEMMA NextInv == CacheInv /\ [Next]_vars => CacheInv'
<1> SUFFICES ASSUME CacheInv, [Next]_vars PROVE CacheInv'
  OBVIOUS
<1>1. ASSUME NEW c \in Calls, Invoke(c) \/ Runs(c) \/ Answers(c)
      PROVE  CacheInv'
  BY <1>1, CallInv DEF Step
<1>2. ASSUME NEW k \in Keys, Expire(k)
      PROVE  CacheInv'
  BY <1>2, ExpireInv
<1> QED BY <1>1, <1>2, StutterInv DEF Next

LEMMA CacheInvHolds == Spec => []CacheInv
BY InitInv, NextInv, PTL DEF Spec

(* The wrappers keep the types of their state, and a call that waits for a *)
(* lookup waits for the lookup of some call.                               *)
THEOREM CacheTypes == Spec => []TypeOK
<1>1. CacheInv => TypeOK
  BY DEF CacheInv, Typed
<1> QED BY <1>1, CacheInvHolds, PTL

(* However many calls share a lookup, and in whatever order they continue  *)
(* and remove it, pendingCacheMap never keeps a lookup that is over, whose *)
(* answer every later call of the key would be given.                      *)
THEOREM PendingHolds == Spec => []PendingIsLive
<1>1. CacheInv => PendingIsLive
  BY DEF CacheInv, Typed
<1> QED BY <1>1, CacheInvHolds, PTL

(* A cacheable call answers with a version at least as new as every put    *)
(* and eviction that was over before it and that had the key to itself,    *)
(* for any number of calls, keys, records and failing requests.            *)
THEOREM ReadsHold == Spec => []ReadsSeeWrites
<1>1. CacheInv => ReadsSeeWrites
  BY DEF CacheInv
<1> QED BY <1>1, CacheInvHolds, PTL

-----------------------------------------------------------------------------
(* Operations that share a key in the cache are about the same record:     *)
(* what the namespaces and key builders of an application have to see to.  *)
Caching(o) == KindOf(o) # "evict" /\ Composes(o)
KeysApart == \A o, p \in Ops :
  Caching(o) /\ Caching(p) /\ Key(o) = Key(p) => Subject[o] = Subject[p]

CacheOwn == \A k \in Keys, o \in Ops :
  Caching(o) /\ Key(o) = k /\ cache[k].there => cache[k].of = Subject[o]
AnswersOwn == \A c \in Calls : answer[c].there =>
  op[c] \in Ops /\ Caching(op[c]) /\ answer[c].of = Subject[op[c]]
OwnInv == CacheInv /\ CacheOwn /\ AnswersOwn /\ OwnValue

LEMMA OwnInit == Init => OwnInv
<1> SUFFICES ASSUME Init PROVE OwnInv
  OBVIOUS
<1>1. CacheOwn /\ AnswersOwn
  BY MissingIsValue DEF Init, CacheOwn, AnswersOwn
<1>2. OwnValue
  BY DEF Init, OwnValue
<1> QED BY <1>1, <1>2, InitInv DEF OwnInv

LEMMA CacheOwnStep ==
  ASSUME KeysApart, OwnInv, NEW c \in Calls, Step(c)
  PROVE  CacheOwn'
<1>1. Fills(c)
  BY FillsStep DEF OwnInv
<1> SUFFICES ASSUME NEW k \in Keys, NEW o \in Ops, Caching(o), Key(o) = k, cache'[k].there
             PROVE  cache'[k].of = Subject[o]
  BY DEF CacheOwn
<1>2. CASE cache'[k] = cache[k]
  BY <1>2 DEF OwnInv, CacheOwn
<1>3. CASE /\ stage[c] = "storing" /\ KindOf(op[c]) # "evict" /\ k = Key(op[c])
           /\ cache'[k] = result[c]
  <2>1. op[c] \in Ops /\ Caching(op[c])
    BY <1>3 DEF OwnInv, CacheInv, Typed, TypeOK, Kinds, Active, Caching
  <2>2. result[c].of = Subject[op[c]]
    BY <1>3 DEF OwnInv, CacheInv, Fresh, FloorBelowResults
  <2> QED BY <1>3, <2>1, <2>2 DEF KeysApart
<1> QED BY <1>1, <1>2, <1>3 DEF Fills

LEMMA AnswersOwnStep ==
  ASSUME OwnInv, NEW c \in Calls, Step(c)
  PROVE  AnswersOwn'
<1> USE DEF OwnInv, CacheInv, Typed
<1>1. \A d \in Calls \ {c} : answer'[d] = answer[d] /\ op'[d] = op[d]
  BY Locality DEF SameCall
<1>2. answer'[c].there => op'[c] \in Ops /\ Caching(op'[c]) /\ answer'[c].of = Subject[op'[c]]
  <2>1. stage[c] = "idle" => ~answer[c].there
    BY DEF Lookups
  <2>2. ASSUME answer'[c] = answer[c], stage[c] = "idle" \/ op'[c] = op[c]
        PROVE  answer'[c].there =>
                 op'[c] \in Ops /\ Caching(op'[c]) /\ answer'[c].of = Subject[op'[c]]
    BY <2>1, <2>2 DEF AnswersOwn
  <2>3. \A o \in Ops : CallRejects(c, o) \/ AskCache(c, o) \/ ShareLookup(c, o)
                         \/ CallPut(c, o) \/ CallEvict(c, o)
                           => answer'[c] = answer[c] /\ stage[c] = "idle"
    BY DEF CallRejects, AskCache, ShareLookup, CallPut, CallEvict, Starts
  <2>4. ASSUME CacheAnswers(c)
        PROVE  op'[c] \in Ops /\ Caching(op'[c])
               /\ (answer'[c].there => answer'[c].of = Subject[op'[c]])
    <3>1. op' = op /\ answer'[c] = cache[Key(op[c])] /\ stage[c] = "lookup"
      BY <2>4 DEF CacheAnswers, Lookups, TypeOK
    <3>2. op[c] \in Ops /\ Caching(op[c]) /\ Key(op[c]) \in Keys
      BY <3>1, KeyFacts DEF TypeOK, Kinds, Active, Caching
    <3> QED BY <3>1, <3>2 DEF CacheOwn
  <2>5. LookupFails(c) \/ Resume(c) \/ Method(c) \/ MethodThrows(c) \/ Store(c)
        \/ StoreFails(c) \/ EvictReturns(c) => answer'[c] = answer[c] /\ op'[c] = op[c]
    BY DEF LookupFails, Resume, Method, MethodThrows, Store, StoreFails, EvictReturns
  <2>6. \A k \in dels[c] : Delete(c, k) \/ DeleteFails(c, k)
                              => answer'[c] = answer[c] /\ op'[c] = op[c]
    BY DEF Delete, DeleteFails
  <2> QED BY <2>2, <2>3, <2>4, <2>5, <2>6, StepCases
<1> QED BY <1>1, <1>2 DEF AnswersOwn

LEMMA OwnValueStep ==
  ASSUME KeysApart, OwnInv, NEW c \in Calls, Step(c)
  PROVE  OwnValue'
<1> USE DEF OwnInv, CacheInv, Typed
<1>1. \A d \in Calls \ {c} : SameCall(d)
  BY Locality
<1>2. stage'[c] = "done" => result'[c].of = Subject[op'[c]]
  <2>1. \A o \in Ops : CallRejects(c, o) \/ AskCache(c, o) \/ ShareLookup(c, o)
                         \/ CallPut(c, o) \/ CallEvict(c, o) => stage'[c] # "done"
    BY DEF CallRejects, AskCache, ShareLookup, CallPut, CallEvict, Starts, To, TypeOK
  <2>2. CacheAnswers(c) \/ LookupFails(c) => stage'[c] # "done"
    BY DEF CacheAnswers, LookupFails, Lookups
  <2>3. ASSUME Resume(c), stage'[c] = "done"
        PROVE  result'[c].of = Subject[op'[c]]
    <3>1. /\ stage[c] = "lookup" /\ op' = op
          /\ answer[awaits[c]].there /\ result'[c] = answer[awaits[c]]
      BY <2>3 DEF Resume, To, TypeOK
    <3>2. awaits[c] \in Calls /\ op[c] \in Ops /\ Caching(op[c])
      BY <3>1 DEF TypeOK, Kinds, Active, Caching
    <3>3. Key(op[awaits[c]]) = Key(op[c])
      BY <3>1 DEF Lookups
    <3>4. /\ op[awaits[c]] \in Ops /\ Caching(op[awaits[c]])
          /\ answer[awaits[c]].of = Subject[op[awaits[c]]]
      BY <3>1, <3>2 DEF AnswersOwn
    <3>5. Subject[op[awaits[c]]] = Subject[op[c]]
      BY <3>2, <3>3, <3>4 DEF KeysApart
    <3> QED BY <3>1, <3>4, <3>5
  <2>4. Method(c) \/ MethodThrows(c) => stage'[c] # "done"
    BY DEF Method, MethodThrows, To, TypeOK
  <2>5. Store(c) \/ EvictReturns(c)
          => stage[c] = "storing" /\ result'[c] = result[c] /\ op'[c] = op[c]
    BY DEF Store, EvictReturns
  <2>6. StoreFails(c) => stage'[c] # "done"
    BY DEF StoreFails, To, TypeOK
  <2>7. stage[c] = "storing" => result[c].of = Subject[op[c]]
    BY DEF Fresh, FloorBelowResults
  <2>8. ASSUME NEW k \in dels[c], Delete(c, k) \/ DeleteFails(c, k)
        PROVE  /\ stage'[c] = "done" => stage[c] = "done"
               /\ result'[c] = result[c] /\ op'[c] = op[c]
    BY <2>8 DEF Delete, DeleteFails, To, TypeOK
  <2>9. stage[c] = "done" => result[c].of = Subject[op[c]]
    BY DEF OwnValue
  <2> QED BY <2>1, <2>2, <2>3, <2>4, <2>5, <2>6, <2>7, <2>8, <2>9, StepCases
<1> QED BY <1>1, <1>2 DEF OwnValue, SameCall

LEMMA OwnNext == KeysApart /\ OwnInv /\ [Next]_vars => OwnInv'
<1> SUFFICES ASSUME KeysApart, OwnInv, [Next]_vars PROVE OwnInv'
  OBVIOUS
<1>1. CacheInv'
  BY NextInv DEF OwnInv
<1>2. ASSUME NEW c \in Calls, Invoke(c) \/ Runs(c) \/ Answers(c)
      PROVE  CacheOwn' /\ AnswersOwn' /\ OwnValue'
  BY <1>2, CacheOwnStep, AnswersOwnStep, OwnValueStep DEF Step
<1>3. ASSUME NEW k \in Keys, Expire(k)
      PROVE  CacheOwn' /\ AnswersOwn' /\ OwnValue'
  <2>1. \A d \in Keys : cache'[d] = cache[d] \/ ~cache'[d].there
    BY <1>3, MissingIsValue DEF Expire, OwnInv, CacheInv, Typed, TypeOK
  <2>2. CacheOwn'
    BY <2>1 DEF OwnInv, CacheOwn
  <2> QED BY <1>3, <2>2 DEF OwnInv, Expire, AnswersOwn, OwnValue
<1>4. UNCHANGED vars => CacheOwn' /\ AnswersOwn' /\ OwnValue'
  BY DEF vars, OwnInv, CacheOwn, AnswersOwn, OwnValue
<1> QED BY <1>1, <1>2, <1>3, <1>4 DEF Next, OwnInv

(* When operations that share a key are about the same record, a call      *)
(* answers with a value of the record it is about, whoever stored it and   *)
(* whoever's lookup the call shared.                                       *)
THEOREM OwnValueHolds ==
  ASSUME KeysApart
  PROVE  Spec => []OwnValue
<1>1. Init => OwnInv
  BY OwnInit
<1>2. OwnInv /\ [Next]_vars => OwnInv'
  BY OwnNext
<1>3. OwnInv => OwnValue
  BY DEF OwnInv
<1> QED BY <1>1, <1>2, <1>3, PTL DEF Spec
=============================================================================
