------------------------------ MODULE Cacheable ------------------------------
(***************************************************************************)
(* CacheableFeatureDecoration: what the methods decorated with @Cacheable, *)
(* @CachePut and @CacheEvict do to a cache that they share, when their     *)
(* calls overlap and requests to the cache fail.  The methods read and     *)
(* write records of a source of truth, whose versions tell old from new.   *)
(***************************************************************************)
EXTENDS Integers, Sequences

CONSTANTS
  Calls, Nobody,       \* calls of decorated methods; no call
  Methods, Args, NoOp, Ops,  \* Ops: the pairs <<method, args>> that may be called
  Records, NoRecord,
  Kind,                \* Kind[m]: cacheable, put or evict
  Keyed, Builder,      \* methods with options.key, and what it returns for args:
                       \* a sequence of names (no value where it throws)
  Namespaced, Namespace,  \* the same for options.namespace, a single name
  NoNamespace,
  MethodName, Json,    \* MethodName[m], and JSON.stringify of args
  Ttl,                 \* Ttl[m]: 0 when missing, zero or not understood by ms()
  Subject,             \* Subject[o]: the record whose value operation o returns
  Writes, Deletes,     \* Writes[o]: records it writes; operations that delete
                       \* their subject
  MaxFaults            \* requests the cache may fail

ASSUME CacheableAssumption ==
  /\ Nobody \notin Calls /\ NoRecord \notin Records /\ NoOp \notin Ops
  /\ Ops \subseteq Methods \X Args /\ Keyed \subseteq Methods /\ Deletes \subseteq Ops
  /\ Kind \in [Methods -> {"cacheable", "put", "evict"}]
  /\ Subject \in [Ops -> Records] /\ Writes \in [Ops -> SUBSET Records]
  /\ Ttl \in [Methods -> Nat] /\ MaxFaults \in Nat

VARIABLES
  op,       \* op[c]: the operation c calls, NoOp before
  stage,    \* stage[c]: where the wrapper of c has got to
  result,   \* result[c]: what the method, or the cache, has answered
  awaits,   \* awaits[c]: the call whose lookup c awaits
  lookup,   \* lookup[c]: the state of the promise of the cache.get() of c
  answer,   \* answer[c]: what that promise is fulfilled with
  pending,  \* pendingCacheMap: the call whose lookup is registered for a key
  dels,     \* dels[c]: keys whose deletion c has asked for, still under way
  cache,    \* the cache: the value of a key
  mortal,   \* keys whose entry was set with a ttl
  data,     \* the source of truth
  faults,   \* requests that have failed
  clean,    \* (history) calls whose keys nobody else has used meanwhile
  floor,    \* (history) floor[k][r]: the version of r that users of k must see
  seen      \* (history) seen[c]: the floor of the key of c when it was called

store == <<cache, mortal, faults>>
history == <<clean, floor, seen>>
vars == <<op, stage, result, awaits, lookup, answer, pending, dels, cache, mortal, data,
          faults, clean, floor, seen>>

Value == [of : Records \cup {NoRecord}, version : Nat, there : BOOLEAN]
Missing == [of |-> NoRecord, version |-> 0, there |-> FALSE]

(* A missing or falsy ttl leaves the entry to the store's default: for ever. *)
FaultyParseCacheTtl(ttl) == 0
ParseCacheTtl(ttl) == ttl

-----------------------------------------------------------------------------
(* generateComposedKey(): the names, each prefixed with the namespace.     *)
Composes(o) ==
  /\ o[1] \in Keyed => o[2] \in DOMAIN Builder[o[1]]
  /\ o[1] \in Namespaced => o[2] \in DOMAIN Namespace[o[1]]

Extract(o) ==
  IF o[1] \in Keyed THEN Builder[o[1]][o[2]] ELSE <<<<MethodName[o[1]], Json[o[2]]>>>>

FaultyGenerateComposedKey(o) == [i \in DOMAIN Extract(o) |-> <<NoNamespace, Extract(o)[i]>>]
GenerateComposedKey(o) ==
  LET namespace == IF o[1] \in Namespaced THEN Namespace[o[1]][o[2]] ELSE NoNamespace
  IN [i \in DOMAIN Extract(o) |-> <<namespace, Extract(o)[i]>>]

(* @Cacheable and @CachePut use the first key only. *)
KeysOf(o) ==
  IF ~Composes(o) THEN {}
  ELSE LET keys == GenerateComposedKey(o)
       IN IF Kind[o[1]] = "evict" THEN {keys[i] : i \in DOMAIN keys} ELSE {keys[1]}

Keys == UNION {KeysOf(o) : o \in Ops}
Key(o) == GenerateComposedKey(o)[1]
KindOf(o) == Kind[o[1]]

Init ==
  /\ op = [c \in Calls |-> NoOp]
  /\ stage = [c \in Calls |-> "idle"]
  /\ result = [c \in Calls |-> Missing]
  /\ awaits = [c \in Calls |-> Nobody]
  /\ lookup = [c \in Calls |-> "none"]
  /\ answer = [c \in Calls |-> Missing]
  /\ pending = [k \in Keys |-> Nobody]
  /\ dels = [c \in Calls |-> {}]
  /\ cache = [k \in Keys |-> Missing]
  /\ mortal = {}
  /\ data = [r \in Records |-> [of |-> r, version |-> 1, there |-> TRUE]]
  /\ faults = 0
  /\ clean = {}
  /\ floor = [k \in Keys |-> [r \in Records |-> 0]]
  /\ seen = [c \in Calls |-> [r \in Records |-> 0]]

-----------------------------------------------------------------------------
Active(c) == stage[c] \notin {"idle", "done", "failed"}

To(c, s) == stage' = [stage EXCEPT ![c] = s]

(* A call o starts in stage s.  History: it, and the calls it shares a key *)
(* with, are no longer alone.                                              *)
Starts(c, o, s) ==
  LET others == {d \in Calls \ {c} : Active(d) /\ KeysOf(op[d]) \intersect KeysOf(o) # {}}
  IN /\ stage[c] = "idle" /\ To(c, s)
     /\ op' = [op EXCEPT ![c] = o]
     /\ clean' = IF others = {} THEN clean \cup {c} ELSE clean \ others
     /\ seen' = IF KindOf(o) = "cacheable" THEN [seen EXCEPT ![c] = floor[Key(o)]] ELSE seen
     /\ UNCHANGED <<result, answer, store, data, floor>>

(* An invalid key makes the call reject, before the method runs. *)
CallRejects(c, o) ==
  /\ stage[c] = "idle" /\ KindOf(o) # "evict" /\ ~Composes(o)
  /\ To(c, "failed") /\ op' = [op EXCEPT ![c] = o]
  /\ UNCHANGED <<result, awaits, lookup, answer, pending, dels, store, data, history>>

(* wrapWithCacheable(), fetchCachedValue(): ask the cache, or share the    *)
(* request that is registered for the key.                                 *)
AskCache(c, o) ==
  /\ KindOf(o) = "cacheable" /\ Composes(o) /\ Starts(c, o, "lookup")
  /\ pending[Key(o)] = Nobody
  /\ pending' = [pending EXCEPT ![Key(o)] = c]
  /\ lookup' = [lookup EXCEPT ![c] = "asked"]
  /\ awaits' = [awaits EXCEPT ![c] = c]
  /\ UNCHANGED dels

FaultyShareLookup(c, o) ==
  /\ KindOf(o) = "cacheable" /\ Composes(o) /\ Starts(c, o, "lookup")
  /\ awaits' = [awaits EXCEPT ![c] = pending[Key(o)]]
  /\ UNCHANGED <<lookup, pending, dels>>
ShareLookup(c, o) ==
  /\ KindOf(o) = "cacheable" /\ Composes(o) /\ Starts(c, o, "lookup")
  /\ pending[Key(o)] # Nobody
  /\ awaits' = [awaits EXCEPT ![c] = pending[Key(o)]]
  /\ UNCHANGED <<lookup, pending, dels>>

(* wrapMethodWithCachePut() *)
CallPut(c, o) ==
  /\ KindOf(o) = "put" /\ Composes(o) /\ Starts(c, o, "method")
  /\ UNCHANGED <<awaits, lookup, pending, dels>>

(* wrapMethodWithCacheEvict(): delete every key, or none when the keys     *)
(* cannot be computed.                                                     *)
CallEvict(c, o) ==
  /\ KindOf(o) = "evict"
  /\ Starts(c, o, IF KeysOf(o) = {} THEN "method" ELSE "evicting")
  /\ dels' = [dels EXCEPT ![c] = KeysOf(o)]
  /\ UNCHANGED <<awaits, lookup, pending>>

-----------------------------------------------------------------------------
CacheAnswers(c) ==
  /\ lookup[c] = "asked"
  /\ lookup' = [lookup EXCEPT ![c] = "answered"]
  /\ answer' = [answer EXCEPT ![c] = cache[Key(op[c])]]
  /\ UNCHANGED <<op, stage, result, awaits, pending, dels, store, data, history>>

Fails == faults < MaxFaults /\ faults' = faults + 1

LookupFails(c) ==
  /\ lookup[c] = "asked" /\ Fails
  /\ lookup' = [lookup EXCEPT ![c] = "failed"]
  /\ UNCHANGED <<op, stage, result, awaits, answer, pending, dels, cache, mortal, data, history>>

(* Each call that awaits the lookup continues in a step of its own; it     *)
(* removes whatever is registered for the key by then.  null and errors    *)
(* are misses.                                                             *)
FaultyResume(c) ==
  LET value == answer[awaits[c]] IN
  /\ stage[c] = "lookup" /\ lookup[awaits[c]] \in {"answered", "failed"}
  /\ IF lookup[awaits[c]] = "answered"
       THEN pending' = [pending EXCEPT ![Key(op[c])] = Nobody] ELSE UNCHANGED pending
  /\ \/ /\ value.there
        /\ result' = [result EXCEPT ![c] = value] /\ To(c, "done")
     \/ ~value.there /\ To(c, "method") /\ UNCHANGED result
  /\ UNCHANGED <<op, awaits, lookup, answer, dels, store, data, history>>
Resume(c) ==
  LET value == answer[awaits[c]] IN
  /\ stage[c] = "lookup" /\ lookup[awaits[c]] \in {"answered", "failed"}
  /\ pending' = [pending EXCEPT ![Key(op[c])] = Nobody]
  /\ \/ /\ value.there
        /\ result' = [result EXCEPT ![c] = value] /\ To(c, "done")
     \/ ~value.there /\ To(c, "method") /\ UNCHANGED result
  /\ UNCHANGED <<op, awaits, lookup, answer, dels, store, data, history>>

(* What the method does to the source of truth, at one moment of its run.  *)
Written(o) ==
  [r \in Records |->
     IF r \in Writes[o]
     THEN [of |-> r, version |-> data[r].version + 1,
           there |-> ~(r = Subject[o] /\ o \in Deletes)]
     ELSE data[r]]

(* History: who calls after an eviction that was alone sees what it wrote. *)
Method(c) ==
  /\ stage[c] = "method" /\ To(c, "storing")
  /\ data' = Written(op[c])
  /\ result' = [result EXCEPT ![c] = data'[Subject[op[c]]]]
  /\ floor' = [k \in Keys |->
                 IF KindOf(op[c]) = "evict" /\ c \in clean /\ k \in KeysOf(op[c])
                 THEN [r \in Records |-> data'[r].version] ELSE floor[k]]
  /\ UNCHANGED <<op, awaits, lookup, answer, pending, dels, store, clean, seen>>

MethodThrows(c) ==
  /\ stage[c] = "method" /\ To(c, "failed")
  /\ data' \in {data, Written(op[c])}
  /\ UNCHANGED <<op, result, awaits, lookup, answer, pending, dels, store, history>>

(* The method has returned, and the request to store its result reaches    *)
(* the cache.  History: a put that was alone is seen by later calls.       *)
Stored(c) ==
  /\ cache' = [cache EXCEPT ![Key(op[c])] = result[c]]
  /\ mortal' = IF ParseCacheTtl(Ttl[op[c][1]]) # 0 THEN mortal \cup {Key(op[c])} ELSE mortal \ {Key(op[c])}

FaultyStore(c) ==
  /\ stage[c] = "storing" /\ KindOf(op[c]) # "evict" /\ To(c, "done")
  /\ IF cache[Key(op[c])].there THEN UNCHANGED <<cache, mortal>> ELSE Stored(c)
  /\ floor' = IF KindOf(op[c]) = "put" /\ c \in clean
              THEN [floor EXCEPT ![Key(op[c])][Subject[op[c]]] = result[c].version] ELSE floor
  /\ UNCHANGED <<op, result, awaits, lookup, answer, pending, dels, data, faults, clean, seen>>
Store(c) ==
  /\ stage[c] = "storing" /\ KindOf(op[c]) # "evict" /\ To(c, "done")
  /\ Stored(c)
  /\ floor' = IF KindOf(op[c]) = "put" /\ c \in clean
              THEN [floor EXCEPT ![Key(op[c])][Subject[op[c]]] = result[c].version] ELSE floor
  /\ UNCHANGED <<op, result, awaits, lookup, answer, pending, dels, data, faults, clean, seen>>

(* cache.set() rejects, and the call with it although the method has       *)
(* succeeded; undefined is refused by some stores.                         *)
StoreFails(c) ==
  /\ stage[c] = "storing" /\ KindOf(op[c]) # "evict" /\ To(c, "failed")
  /\ Fails \/ (~result[c].there /\ UNCHANGED faults)
  /\ Stored(c) \/ UNCHANGED <<cache, mortal>>
  /\ UNCHANGED <<op, result, awaits, lookup, answer, pending, dels, data, history>>

EvictReturns(c) ==
  /\ stage[c] = "storing" /\ KindOf(op[c]) = "evict" /\ To(c, "done")
  /\ UNCHANGED <<op, result, awaits, lookup, answer, pending, dels, store, data, history>>

(* Promise.all() waits for the last deletion or for the first that fails;  *)
(* then the others go on by themselves.                                    *)
Delete(c, k) ==
  /\ dels' = [dels EXCEPT ![c] = @ \ {k}]
  /\ cache' = [cache EXCEPT ![k] = Missing] /\ mortal' = mortal \ {k}
  /\ IF stage[c] = "evicting" /\ dels[c] = {k} THEN To(c, "method") ELSE UNCHANGED stage
  /\ UNCHANGED <<op, result, awaits, lookup, answer, pending, data, faults, history>>

FaultyDeleteFails(c, k) ==
  /\ Fails
  /\ dels' = [dels EXCEPT ![c] = @ \ {k}] /\ clean' = clean \ {c}
  /\ UNCHANGED <<op, stage, result, awaits, lookup, answer, pending, cache, mortal, data, floor, seen>>
DeleteFails(c, k) ==
  /\ Fails
  /\ dels' = [dels EXCEPT ![c] = @ \ {k}] /\ clean' = clean \ {c}
  /\ IF stage[c] = "evicting" THEN To(c, "method") ELSE UNCHANGED stage
  /\ UNCHANGED <<op, result, awaits, lookup, answer, pending, cache, mortal, data, floor, seen>>

Expire(k) ==
  /\ k \in mortal
  /\ cache' = [cache EXCEPT ![k] = Missing] /\ mortal' = mortal \ {k}
  /\ UNCHANGED <<op, stage, result, awaits, lookup, answer, pending, dels, data, faults, history>>

-----------------------------------------------------------------------------
Invoke(c) ==
  \E o \in Ops :
    CallRejects(c, o) \/ AskCache(c, o) \/ ShareLookup(c, o) \/ CallPut(c, o) \/ CallEvict(c, o)
Runs(c) == Resume(c) \/ Method(c) \/ MethodThrows(c) \/ EvictReturns(c)
Answers(c) ==
  \/ CacheAnswers(c) \/ LookupFails(c) \/ Store(c) \/ StoreFails(c)
  \/ \E k \in dels[c] : Delete(c, k) \/ DeleteFails(c, k)

Next ==
  \/ \E c \in Calls : Invoke(c) \/ Runs(c) \/ Answers(c)
  \/ \E k \in Keys : Expire(k)

(* A method and every request to the cache come to an end, and an entry    *)
(* with a ttl expires.  Nobody has to call.                                *)
Fairness ==
  /\ \A c \in Calls : WF_vars(Runs(c)) /\ WF_vars(Answers(c))
  /\ \A k \in Keys : WF_vars(Expire(k))

Spec == Init /\ [][Next]_vars /\ Fairness

-----------------------------------------------------------------------------
(* The types of the variables; a lookup is awaited by calls of its key. *)
TypeOK ==
  /\ op \in [Calls -> Ops \cup {NoOp}]
  /\ \A c \in Calls : op[c] = NoOp <=> stage[c] = "idle"
  /\ stage \in [Calls -> {"idle", "lookup", "evicting", "method", "storing", "done", "failed"}]
  /\ result \in [Calls -> Value] /\ answer \in [Calls -> Value]
  /\ awaits \in [Calls -> Calls \cup {Nobody}]
  /\ lookup \in [Calls -> {"none", "asked", "answered", "failed"}]
  /\ pending \in [Keys -> Calls \cup {Nobody}]
  /\ dels \in [Calls -> SUBSET Keys]
  /\ cache \in [Keys -> Value] /\ mortal \in SUBSET Keys
  /\ data \in [Records -> Value]
  /\ faults \in Nat
  /\ clean \in SUBSET Calls
  /\ floor \in [Keys -> [Records -> Nat]] /\ seen \in [Calls -> [Records -> Nat]]
  /\ \A c \in Calls : stage[c] = "lookup" => awaits[c] \in Calls

(* What is registered in pendingCacheMap is the lookup of a call that      *)
(* still waits for it: a lookup that is over, whose answer would be given  *)
(* to every later call of the key, is never found there, whichever calls   *)
(* share it and in whatever order they continue.                           *)
PendingIsLive ==
  \A k \in Keys : pending[k] # Nobody =>
    LET c == pending[k] IN
    stage[c] = "lookup" /\ awaits[c] = c /\ KindOf(op[c]) = "cacheable" /\ Key(op[c]) = k

(* A call answers with a value of the record it is about, not with one     *)
(* that another key, another namespace or a shared lookup brought in.      *)
OwnValue == \A c \in Calls : stage[c] = "done" => result[c].of = Subject[op[c]]

(* A cacheable call sees at least the version of every put and eviction of *)
(* its key that was over when it started, whose requests succeeded and     *)
(* that ran without other calls of the key: neither the cache nor a lookup *)
(* shared with an earlier call takes it back.                              *)
ReadsSeeWrites ==
  \A c \in Calls : stage[c] = "done" /\ KindOf(op[c]) = "cacheable" =>
    result[c].version >= seen[c][result[c].of]

(* Overlapping calls, failed requests and lost evictions leave old values  *)
(* in the cache; with a ttl on every key none stays for good.              *)
Stale(k) == cache[k].there /\ cache[k].version < data[cache[k].of].version
StaleEntriesGo == <>[](\A k \in Keys : ~Stale(k))

(* Every call settles, also when its keys cannot be computed, when the     *)
(* cache fails or when it shares the lookup of another call.               *)
CallsSettle == <>[](\A c \in Calls : ~Active(c))
=============================================================================
