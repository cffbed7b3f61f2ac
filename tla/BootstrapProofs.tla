--------------------------- MODULE BootstrapProofs ---------------------------
(***************************************************************************)
(* Theorems of Bootstrap and Routing: what is declared is in effect, once, *)
(* in every application of a process, and the writes of a transactional    *)
(* method join its transaction, however deep the calls.  The engine, the   *)
(* registry and the wrappers of a call are folds, so the first part is     *)
(* what a fold over a sequence computes.                                   *)
(***************************************************************************)
EXTENDS Routing, TLAPS, FiniteSetTheorems, SequenceTheorems, WellFoundedInduction

Less == {ss \in Nat \X Nat : ss[1] < ss[2]}
LEMMA LessIsWellFounded == IsWellFoundedOn(Less, Nat)
  BY NatLessThanWellFounded DEF OpToRel, Less

(* A set of numbers that is not empty has a least one.                     *)
LEMMA Least ==
  ASSUME NEW T \in SUBSET Nat, T # {}
  PROVE  \E x \in T : \A y \in T : x <= y
<1>1. PICK x \in T : \A y \in T : ~(<<y, x>> \in Less)
  BY LessIsWellFounded, WFMin
<1>2. \A y \in T : <<y, x>> \in Nat \X Nat /\ y \in Nat /\ x \in Nat
  OBVIOUS
<1>3. \A y \in T : ~(y < x)
  BY <1>1, <1>2 DEF Less
<1> QED
  BY <1>2, <1>3

(* Induction over a set of numbers.                                        *)
LEMMA Induction ==
  ASSUME NEW N \in Nat, NEW T \in SUBSET (0 .. N), 0 \in T,
         \A n \in 0 .. N - 1 : n \in T => n + 1 \in T
  PROVE  T = 0 .. N
<1> SUFFICES ASSUME (0 .. N) \ T # {} PROVE FALSE
  OBVIOUS
<1>1. PICK x \in (0 .. N) \ T : \A y \in (0 .. N) \ T : x <= y
  BY Least, (0 .. N) \ T \in SUBSET Nat
<1>2. x - 1 \in 0 .. N - 1 /\ x - 1 + 1 = x
  BY <1>1
<1> QED
  BY <1>1, <1>2
-----------------------------------------------------------------------------
(* Folds over a sequence.                                                  *)

(* Max picks the largest of a set of indexes, which is how FoldLeft goes   *)
(* from the first to the last.                                             *)
LEMMA LargestOfPrefix ==
  ASSUME NEW n \in Nat
  PROVE  Max(1 .. n + 1) = n + 1
  BY DEF Max

LEMMA LargestOf ==
  ASSUME NEW N \in Nat, NEW s \in SUBSET (1 .. N), s # {}
  PROVE  Max(s) \in s /\ \A m \in s : m <= Max(s)
<1> DEFINE bounds == {b \in 0 .. N : \A m \in s : m <= b}
<1>1. N \in bounds /\ bounds \in SUBSET Nat
  OBVIOUS
<1>2. PICK b \in bounds : \A c \in bounds : b <= c
  BY <1>1, Least
<1>3. b \in s
  <2> SUFFICES ASSUME b \notin s PROVE FALSE
    OBVIOUS
  <2>0. PICK m \in s : TRUE
    OBVIOUS
  <2>1. b \in 1 .. N
    BY <1>2, <2>0
  <2>2. b - 1 \in bounds
    BY <1>2, <2>1
  <2> QED
    BY <1>2, <2>1, <2>2
<1>4. \E x \in s : \A m \in s : m <= x
  BY <1>2, <1>3
<1>5. Max(s) = CHOOSE x \in s : \A m \in s : x >= m
  BY DEF Max
<1> QED
  BY <1>4, <1>5
IsFold(iter, N, base, Step) ==
  iter = [s \in SUBSET (1 .. N) |->
            IF s = {} THEN base ELSE Step[<<Max(s), iter[s \ {Max(s)}]>>]]
(* The recursive function of a fold exists, for every step function on a   *)
(* set: by induction over the prefixes of the sequence.                    *)
LEMMA FoldExists ==
  ASSUME NEW N \in Nat, NEW V, NEW base \in V, NEW Step \in [(1 .. N) \X V -> V]
  PROVE  \E iter \in [SUBSET (1 .. N) -> V] : IsFold(iter, N, base, Step)
<1> DEFINE Folds(n, iter) ==
             \A s \in SUBSET (1 .. n) :
               iter[s] = IF s = {} THEN base ELSE Step[<<Max(s), iter[s \ {Max(s)}]>>]
           Exists(n) == \E iter \in [SUBSET (1 .. n) -> V] : Folds(n, iter)
           T == {n \in 0 .. N : Exists(n)}
<1>1. 0 \in T
  <2>1. [s \in SUBSET (1 .. 0) |-> base] \in [SUBSET (1 .. 0) -> V]
    OBVIOUS
  <2>2. Folds(0, [s \in SUBSET (1 .. 0) |-> base])
    OBVIOUS
  <2>3. Exists(0)
    BY <2>1, <2>2
  <2> HIDE DEF Exists
  <2> QED
    BY <2>3
<1>2. ASSUME NEW n \in 0 .. N - 1, n \in T PROVE n + 1 \in T
  <2>1. PICK iter \in [SUBSET (1 .. n) -> V] : Folds(n, iter)
    BY <1>2
  <2>2. ASSUME NEW s \in SUBSET (1 .. n + 1), n + 1 \in s
        PROVE  s \ {n + 1} \in SUBSET (1 .. n) /\ Max(s) = n + 1
    <3>1. n + 1 \in Nat /\ \A m \in 1 .. n + 1 : m # n + 1 => m \in 1 .. n
      OBVIOUS
    <3>2. Max(s) \in s /\ n + 1 <= Max(s)
      BY <2>2, <3>1, LargestOf
    <3>3. Max(s) \in 1 .. n + 1
      BY <3>2
    <3> QED
      BY <3>1, <3>2, <3>3
  <2>3. ASSUME NEW s \in SUBSET (1 .. n + 1), n + 1 \notin s
        PROVE  s \in SUBSET (1 .. n)
    <3>1. \A m \in 1 .. n + 1 : m # n + 1 => m \in 1 .. n
      OBVIOUS
    <3> QED
      BY <2>3, <3>1
  <2> DEFINE iter2 == [s \in SUBSET (1 .. n + 1) |->
                         IF n + 1 \in s THEN Step[<<n + 1, iter[s \ {n + 1}]>>] ELSE iter[s]]
  <2>4. ASSUME NEW s \in SUBSET (1 .. n + 1) PROVE iter2[s] \in V
    <3>1. CASE n + 1 \in s
      <4>1. iter[s \ {n + 1}] \in V
        BY <2>2, <3>1
      <4>2. <<n + 1, iter[s \ {n + 1}]>> \in (1 .. N) \X V
        BY <4>1
      <4> QED
        BY <3>1, <4>2
    <3> QED
      BY <3>1, <2>3
  <2>5. ASSUME NEW s \in SUBSET (1 .. n + 1)
        PROVE  iter2[s] = IF s = {} THEN base ELSE Step[<<Max(s), iter2[s \ {Max(s)}]>>]
    <3>1. CASE n + 1 \in s
      <4>1. s \ {n + 1} \in SUBSET (1 .. n + 1)
        OBVIOUS
      <4>2. iter2[s \ {n + 1}] = iter[s \ {n + 1}]
        BY <4>1
      <4> QED
        BY <3>1, <4>2, <2>2
    <3>2. CASE n + 1 \notin s
      <4>1. s \in SUBSET (1 .. n)
        BY <3>2, <2>3
      <4>2. CASE s # {}
        <5>1. Max(s) \in s
          BY <4>1, <4>2, LargestOf, n \in Nat
        <5>2. s \ {Max(s)} \in SUBSET (1 .. n + 1) /\ n + 1 \notin s \ {Max(s)}
          BY <5>1, <3>2
        <5>3. iter2[s \ {Max(s)}] = iter[s \ {Max(s)}] /\ iter2[s] = iter[s]
          BY <5>2, <3>2
        <5> QED
          BY <5>3, <4>2, <4>1, <2>1
      <4> QED
        BY <4>1, <4>2, <3>2, <2>1
    <3> QED
      BY <3>1, <3>2
  <2>6. iter2 \in [SUBSET (1 .. n + 1) -> V]
    BY <2>4
  <2>7. Folds(n + 1, iter2)
    BY <2>5
  <2> HIDE DEF iter2, Folds
  <2>8. n + 1 \in 0 .. N
    OBVIOUS
  <2> QED
    BY <2>6, <2>7, <2>8
<1>3. T = 0 .. N
  <2> HIDE DEF T
  <2>1. T \in SUBSET (0 .. N)
    BY DEF T
  <2> QED
    BY <1>1, <1>2, <2>1, Induction
<1>4. PICK iter \in [SUBSET (1 .. N) -> V] : Folds(N, iter)
  <2>1. N \in T
    <3> HIDE DEF T
    <3> QED
      BY <1>3
  <2> HIDE DEF Folds
  <2> QED
    BY <2>1
<1> QED
  BY <1>4 DEF IsFold

LEMMA UpToN ==
  ASSUME NEW N \in Nat, NEW n \in 1 .. N
  PROVE  /\ Max(1 .. n) = n /\ 1 .. n # {} /\ (1 .. n) \ {n} = 1 .. n - 1
         /\ 1 .. n \in SUBSET (1 .. N) /\ 1 .. n - 1 \in SUBSET (1 .. N)
<1>1. Max(1 .. n) = n
  BY LargestOfPrefix, n - 1 \in Nat, n - 1 + 1 = n
<1> QED
  BY <1>1

-----------------------------------------------------------------------------
(* What the explorers make of a method.                                    *)
Wraps(rule, w, slot, ref) ==
  LET metadata == MetadataOf(MethodAt(slot).decorators, ref) IN
  \/ /\ Is(rule, "CacheableMetadataExplorer")
     /\ \E key \in {"CACHE_EVICT", "CACHE_PUT", "CACHEABLE"} : Has(metadata, key)
  \/ Is(rule, "DistributionLockMetadataExplorer") /\ Has(metadata, "LOCK") /\ ServicesOf(rule) # <<>>
  \/ /\ Is(rule, "TransactionalMetadataExplorer") /\ ~Has(metadata, "NO_TRANSACTIONAL")
     /\ IF Has(metadata, "TRANSACTIONAL") \/ OfClass(rule, w) # <<>>
        THEN ServicesOf(rule) # <<>> ELSE Has(metadata, "EVENT")

(* A method has options when it or its class has some.                     *)
LEMMA NoOptions ==
  ASSUME NEW ofClass, NEW metadata
  PROVE  ResolvedOptions(ofClass, metadata) # <<>>
           <=> Has(metadata, "TRANSACTIONAL") \/ ofClass # <<>>
  BY DEF ResolvedOptions

(* An explorer either leaves what the explorers before it have made, or    *)
(* makes its own wrapper of the function it was given, whatever they made. *)
LEMMA OneWrapper ==
  ASSUME NEW rule, NEW w, NEW slot, NEW ref
  PROVE  /\ ~Wraps(rule, w, slot, ref) => \A now : OnMethod(rule, w, slot, ref, now) = now
         /\ Wraps(rule, w, slot, ref) =>
              \A now : OnMethod(rule, w, slot, ref, now) = OnMethod(rule, w, slot, ref, ref)
<1> DEFINE metadata == MetadataOf(MethodAt(slot).decorators, ref)
<1>1. CASE Is(rule, "CacheableMetadataExplorer")
  <2>1. \A now : OnMethod(rule, w, slot, ref, now) = CacheableOnMethod(metadata, ref, now)
    BY <1>1 DEF OnMethod, Is
  <2>2. Wraps(rule, w, slot, ref) <=> \E key \in {"CACHE_EVICT", "CACHE_PUT", "CACHEABLE"} : Has(metadata, key)
    BY <1>1 DEF Wraps, Is
  <2> HIDE DEF metadata
  <2> QED
    BY <2>1, <2>2 DEF CacheableOnMethod
<1>2. CASE Is(rule, "DistributionLockMetadataExplorer")
  <2>1. \A now : OnMethod(rule, w, slot, ref, now) = LockOnMethod(ServicesOf(rule), metadata, ref, now)
    BY <1>2 DEF OnMethod, Is
  <2>2. Wraps(rule, w, slot, ref) <=> Has(metadata, "LOCK") /\ ServicesOf(rule) # <<>>
    BY <1>2 DEF Wraps, Is
  <2> HIDE DEF metadata
  <2> QED
    BY <2>1, <2>2 DEF LockOnMethod
<1>3. CASE Is(rule, "TransactionalMetadataExplorer")
  <2>1. \A now : OnMethod(rule, w, slot, ref, now)
                   = TransactionalOnMethod(ServicesOf(rule), OfClass(rule, w), metadata, ref, now)
    BY <1>3 DEF OnMethod, Is
  <2>2. Wraps(rule, w, slot, ref) <=>
          /\ ~Has(metadata, "NO_TRANSACTIONAL")
          /\ IF ResolvedOptions(OfClass(rule, w), metadata) # <<>>
             THEN ServicesOf(rule) # <<>> ELSE Has(metadata, "EVENT")
    BY <1>3, NoOptions DEF Wraps, Is
  <2> HIDE DEF metadata
  <2> QED
    BY <2>1, <2>2 DEF TransactionalOnMethod
<1>4. CASE container.class[rule].name \notin {"CacheableMetadataExplorer",
             "DistributionLockMetadataExplorer", "TransactionalMetadataExplorer"}
  BY <1>4 DEF OnMethod, Wraps, Is
<1> QED
  BY <1>1, <1>2, <1>3, <1>4 DEF Is

IsDecoration(iter, w, slot, ref) ==
  iter = [s \in SUBSET DOMAIN rules |->
            IF s = {} THEN ref
            ELSE OnMethod(rules[Max(s)], w, slot, ref, iter[s \ {Max(s)}])]
(* The fold over the explorers is defined.                                 *)
LEMMA DecorationExists ==
  ASSUME rules \in Seq(Range(rules)), NEW w, NEW slot, NEW ref
  PROVE  \E iter : IsDecoration(iter, w, slot, ref)
<1> DEFINE N == Len(rules)
           V == {ref} \cup {OnMethod(rules[i], w, slot, ref, ref) : i \in 1 .. N}
           Step == [p \in (1 .. N) \X V |-> OnMethod(rules[p[1]], w, slot, ref, p[2])]
<1>1. N \in Nat /\ DOMAIN rules = 1 .. N
  OBVIOUS
<1>2. Step \in [(1 .. N) \X V -> V]
  <2>1. ASSUME NEW i \in 1 .. N, NEW now \in V PROVE OnMethod(rules[i], w, slot, ref, now) \in V
    BY OneWrapper
  <2> HIDE DEF V
  <2> QED
    BY <2>1
<1>3. \A i \in 1 .. N, now \in V : Step[<<i, now>>] = OnMethod(rules[i], w, slot, ref, now)
  <2> HIDE DEF V
  <2> QED
    OBVIOUS
<1>4. ref \in V
  OBVIOUS
<1> HIDE DEF N, V, Step
<1>5. PICK iter \in [SUBSET (1 .. N) -> V] : IsFold(iter, N, ref, Step)
  BY <1>1, <1>2, <1>4, FoldExists
<1>6. ASSUME NEW s \in SUBSET (1 .. N), s # {}
      PROVE  Step[<<Max(s), iter[s \ {Max(s)}]>>]
               = OnMethod(rules[Max(s)], w, slot, ref, iter[s \ {Max(s)}])
  <2>1. Max(s) \in 1 .. N /\ s \ {Max(s)} \in SUBSET (1 .. N)
    BY <1>1, <1>6, LargestOf
  <2>2. iter[s \ {Max(s)}] \in V
    BY <2>1
  <2> QED
    BY <2>1, <2>2, <1>3
<1>7. iter = [s \in SUBSET (1 .. N) |->
                IF s = {} THEN ref
                ELSE OnMethod(rules[Max(s)], w, slot, ref, iter[s \ {Max(s)}])]
  BY <1>5, <1>6 DEF IsFold
<1>8. IsDecoration(iter, w, slot, ref)
  BY <1>1, <1>7 DEF IsDecoration
<1> QED
  BY <1>8

(* The last explorer that has a wrapper for a method wins.                 *)
LEMMA Decoration ==
  ASSUME rules \in Seq(Range(rules)), NEW w, NEW slot, NEW ref
  PROVE  \/ /\ Decorated(w, slot, ref) = ref
            /\ \A rule \in Range(rules) : ~Wraps(rule, w, slot, ref)
         \/ \E rule \in Range(rules) :
              /\ Wraps(rule, w, slot, ref)
              /\ Decorated(w, slot, ref) = OnMethod(rule, w, slot, ref, ref)
<1> DEFINE N == Len(rules)
           iter == CHOOSE it : IsDecoration(it, w, slot, ref)
           Done(n) == \/ iter[1 .. n] = ref /\ \A i \in 1 .. n : ~Wraps(rules[i], w, slot, ref)
                      \/ \E i \in 1 .. n : /\ Wraps(rules[i], w, slot, ref)
                                           /\ iter[1 .. n] = OnMethod(rules[i], w, slot, ref, ref)
           T == {n \in 0 .. N : Done(n)}
<1>1. N \in Nat /\ DOMAIN rules = 1 .. N
  OBVIOUS
<1>2. IsDecoration(iter, w, slot, ref)
  BY DecorationExists
<1>3. Decorated(w, slot, ref) = iter[1 .. N]
  BY <1>1 DEF Decorated, FoldLeft, MapThenFoldSet, IsDecoration
<1> HIDE DEF iter
<1>4. \A s \in SUBSET (1 .. N) :
        iter[s] = IF s = {} THEN ref
                  ELSE OnMethod(rules[Max(s)], w, slot, ref, iter[s \ {Max(s)}])
  BY <1>1, <1>2 DEF IsDecoration
<1> HIDE DEF N
<1>5. Done(0)
  <2>1. 1 .. 0 = {} /\ {} \in SUBSET (1 .. N)
    OBVIOUS
  <2> QED
    BY <2>1, <1>4
<1>6. ASSUME NEW n \in 0 .. N - 1, Done(n) PROVE Done(n + 1)
  <2>1. n + 1 \in 1 .. N /\ n + 1 - 1 = n
    BY <1>1
  <2>2. iter[1 .. n + 1] = OnMethod(rules[n + 1], w, slot, ref, iter[1 .. n])
    <3>1. /\ Max(1 .. n + 1) = n + 1 /\ 1 .. n + 1 # {} /\ (1 .. n + 1) \ {n + 1} = 1 .. n
          /\ 1 .. n + 1 \in SUBSET (1 .. N)
      BY <2>1, <1>1, UpToN
    <3> QED
      BY <3>1, <1>4
  <2>3. \A i \in 1 .. n + 1 : i \in 1 .. n \/ i = n + 1
    OBVIOUS
  <2>4. n + 1 \in 1 .. n + 1 /\ \A i \in 1 .. n : i \in 1 .. n + 1
    OBVIOUS
  <2>5. CASE Wraps(rules[n + 1], w, slot, ref)
    BY <2>2, <2>4, <2>5, OneWrapper
  <2>6. CASE ~Wraps(rules[n + 1], w, slot, ref)
    BY <2>2, <2>3, <2>4, <2>6, <1>6, OneWrapper
  <2> QED
    BY <2>5, <2>6
<1> HIDE DEF Done
<1>7. N \in T
  <2>1. T \in SUBSET (0 .. N) /\ 0 \in T /\ \A n \in 0 .. N - 1 : n \in T => n + 1 \in T
    BY <1>1, <1>5, <1>6
  <2> HIDE DEF T
  <2>2. T = 0 .. N
    BY <1>1, <2>1, Induction
  <2> QED
    BY <2>2, <1>1
<1>8. Done(N)
  BY <1>7
<1>9. Range(rules) = {rules[i] : i \in 1 .. N}
  BY <1>1 DEF Range
<1> QED
  BY <1>3, <1>8, <1>9 DEF Done

-----------------------------------------------------------------------------
(* The explorers that the registry collects.                               *)
IsCollection(iter) ==
  iter = [s \in SUBSET DOMAIN container.providers |->
            IF s = {} THEN <<>>
            ELSE Collected(iter[s \ {Max(s)}], container.providers[Max(s)])]
LEMMA CollectedIn ==
  ASSUME NEW S, NEW explorers \in Seq(S), NEW w, w.object \in S
  PROVE  Collected(explorers, w) \in Seq(S)
<1>1. Append(explorers, w.object) \in Seq(S)
  OBVIOUS
<1> QED
  BY <1>1 DEF Collected

(* The fold over the providers is defined.                                 *)
LEMMA CollectionExists ==
  ASSUME IsApplication(container)
  PROVE  \E iter \in [SUBSET DOMAIN container.providers -> Seq(DOMAIN container.class)] : IsCollection(iter)
<1> DEFINE N == Len(container.providers)
           V == Seq(DOMAIN container.class)
           Step == [p \in (1 .. N) \X V |-> Collected(p[2], container.providers[p[1]])]
<1>1. N \in Nat /\ DOMAIN container.providers = 1 .. N
  BY DEF IsApplication
<1>2. \A i \in 1 .. N : container.providers[i].object \in DOMAIN container.class
  BY <1>1 DEF IsApplication, Range
<1>3. Step \in [(1 .. N) \X V -> V]
  <2>1. ASSUME NEW i \in 1 .. N, NEW now \in V PROVE Collected(now, container.providers[i]) \in V
    BY <1>2, CollectedIn
  <2> HIDE DEF V
  <2> QED
    BY <2>1
<1>4. \A i \in 1 .. N, now \in V : Step[<<i, now>>] = Collected(now, container.providers[i])
  <2> HIDE DEF V
  <2> QED
    OBVIOUS
<1>5. <<>> \in V
  OBVIOUS
<1> HIDE DEF N, V, Step
<1>6. PICK iter \in [SUBSET (1 .. N) -> V] : IsFold(iter, N, <<>>, Step)
  BY <1>1, <1>3, <1>5, FoldExists
<1>7. ASSUME NEW s \in SUBSET (1 .. N), s # {}
      PROVE  Step[<<Max(s), iter[s \ {Max(s)}]>>]
               = Collected(iter[s \ {Max(s)}], container.providers[Max(s)])
  <2>1. Max(s) \in 1 .. N /\ s \ {Max(s)} \in SUBSET (1 .. N)
    BY <1>1, <1>7, LargestOf
  <2>2. iter[s \ {Max(s)}] \in V
    BY <2>1
  <2> QED
    BY <2>1, <2>2, <1>4
<1>8. iter = [s \in SUBSET (1 .. N) |->
                IF s = {} THEN <<>>
                ELSE Collected(iter[s \ {Max(s)}], container.providers[Max(s)])]
  BY <1>6, <1>7 DEF IsFold
<1>9. IsCollection(iter)
  BY <1>1, <1>8 DEF IsCollection
<1> QED
  BY <1>1, <1>9 DEF V

(* What the registry collects are objects of the application.              *)
LEMMA Collection ==
  ASSUME IsApplication(container)
  PROVE  FoldLeft(Collected, <<>>, container.providers) \in Seq(DOMAIN container.class)
<1> DEFINE N == Len(container.providers)
           iter == CHOOSE it : IsCollection(it)
           T == {n \in 0 .. N : iter[1 .. n] \in Seq(DOMAIN container.class)}
<1>1. N \in Nat /\ DOMAIN container.providers = 1 .. N
  BY DEF IsApplication
<1>2. IsCollection(iter)
  BY CollectionExists
<1>3. FoldLeft(Collected, <<>>, container.providers) = iter[1 .. N]
  BY <1>1 DEF FoldLeft, MapThenFoldSet, IsCollection
<1> HIDE DEF iter
<1>4. \A s \in SUBSET (1 .. N) :
        iter[s] = IF s = {} THEN <<>>
                  ELSE Collected(iter[s \ {Max(s)}], container.providers[Max(s)])
  BY <1>1, <1>2 DEF IsCollection
<1>5. \A i \in 1 .. N : container.providers[i].object \in DOMAIN container.class
  BY <1>1 DEF IsApplication, Range
<1> HIDE DEF N
<1>6. iter[1 .. 0] \in Seq(DOMAIN container.class)
  <2>1. 1 .. 0 = {} /\ {} \in SUBSET (1 .. N)
    OBVIOUS
  <2>2. iter[1 .. 0] = <<>>
    BY <2>1, <1>4
  <2> QED
    BY <2>2
<1>7. ASSUME NEW n \in 0 .. N - 1, iter[1 .. n] \in Seq(DOMAIN container.class)
      PROVE  iter[1 .. n + 1] \in Seq(DOMAIN container.class)
  <2>1. n + 1 \in 1 .. N /\ n + 1 - 1 = n
    BY <1>1
  <2>2. /\ Max(1 .. n + 1) = n + 1 /\ 1 .. n + 1 # {} /\ (1 .. n + 1) \ {n + 1} = 1 .. n
        /\ 1 .. n + 1 \in SUBSET (1 .. N)
    BY <2>1, <1>1, UpToN
  <2>3. iter[1 .. n + 1] = Collected(iter[1 .. n], container.providers[n + 1])
    BY <2>2, <1>4
  <2> QED
    BY <2>1, <2>3, <1>5, <1>7, CollectedIn
<1>8. T \in SUBSET (0 .. N) /\ 0 \in T /\ \A n \in 0 .. N - 1 : n \in T => n + 1 \in T
  BY <1>1, <1>6, <1>7
<1>9. N \in T
  <2> HIDE DEF T
  <2>1. T = 0 .. N
    BY <1>1, <1>8, Induction
  <2> QED
    BY <2>1, <1>1
<1> QED
  BY <1>3, <1>9

-----------------------------------------------------------------------------
(* The wrappers of a method.                                               *)
IsSequence(s) == s \in Seq(Range(s))
(* Sequences: a first element, none, one, a last one.                      *)
LEMMA Prepend ==
  ASSUME NEW x, NEW s, IsSequence(s)
  PROVE  /\ IsSequence(<<x>> \o s) /\ Len(<<x>> \o s) = Len(s) + 1
         /\ (<<x>> \o s)[1] = x /\ Len(s) \in Nat
         /\ \A i \in 1 .. Len(s) : (<<x>> \o s)[i + 1] = s[i]
         /\ DOMAIN (<<x>> \o s) = 1 .. Len(s) + 1 /\ DOMAIN s = 1 .. Len(s)
<1> DEFINE S == Range(s) \cup {x}
           t == <<x>> \o s
<1>1. s \in Seq(S) /\ <<x>> \in Seq(S)
  BY SeqMonotonic DEF IsSequence
<1>2. t \in Seq(S) /\ Len(t) = Len(s) + 1 /\ t[1] = x /\ Len(s) \in Nat
        /\ \A i \in 1 .. Len(s) : t[i + 1] = s[i]
  <2> HIDE DEF S
  <2> QED
    BY <1>1
<1>3. DOMAIN t = 1 .. Len(s) + 1 /\ DOMAIN s = 1 .. Len(s)
  <2> HIDE DEF S, t
  <2> QED
    BY <1>1, <1>2
<1>4. t \in Seq(Range(t))
  <2> HIDE DEF S, t
  <2>1. \A i \in 1 .. Len(t) : t[i] \in Range(t)
    BY <1>2, <1>3 DEF Range
  <2>2. t = [i \in 1 .. Len(t) |-> t[i]] /\ Len(t) \in Nat
    BY <1>2, <1>3
  <2> QED
    BY <2>1, <2>2, <1>2
<1> QED
  BY <1>2, <1>3, <1>4 DEF IsSequence

LEMMA Bottom == IsSequence(<<>>) /\ Len(<<>>) = 0 /\ DOMAIN <<>> = {}
  BY DEF IsSequence

LEMMA Single ==
  ASSUME NEW x
  PROVE  <<x>> \o <<>> = <<x>> /\ IsSequence(<<x>>) /\ Len(<<x>>) = 1 /\ DOMAIN <<x>> = {1}
<1>1. <<x>> \in Seq({x}) /\ DOMAIN <<x>> = {1}
  OBVIOUS
<1>2. Range(<<x>>) = {x}
  BY <1>1 DEF Range
<1> QED
  BY <1>1, <1>2 DEF IsSequence

LEMMA NoneOrSome ==
  ASSUME NEW s, IsSequence(s), s # <<>>
  PROVE  Len(s) \in Nat \ {0} /\ DOMAIN s = 1 .. Len(s) /\ 1 \in DOMAIN s
<1>1. s \in Seq(Range(s))
  BY DEF IsSequence
<1>2. Len(s) \in Nat /\ Len(s) # 0
  BY <1>1
<1> QED
  BY <1>1, <1>2

(* A name stands for one of the services that are there.                   *)
LEMMA NamedIsThere ==
  ASSUME NEW services, IsSequence(services), services # <<>>, NEW options, NEW field
  PROVE  \E i \in DOMAIN services : Named(services, options, field) = services[i][2]
<1> DEFINE name == IF field \in DOMAIN options THEN options[field] ELSE "default"
           same == {i \in DOMAIN services : services[i][1] = name}
<1>1. 1 \in DOMAIN services /\ same \in SUBSET Nat
  BY NoneOrSome
<1>2. CASE same = {}
  BY <1>1, <1>2 DEF Named
<1>3. CASE same # {}
  <2>1. \E i \in same : \A j \in same : i <= j
    BY <1>1, <1>3, Least
  <2>2. (CHOOSE i \in same : \A j \in same : i <= j) \in same
    BY <2>1
  <2> QED
    BY <2>2, <1>3 DEF Named
<1> QED
  BY <1>2, <1>3

(* The wrapper of an explorer, and the metadata that asked for it.          *)
WrappedBy(rule, w, ref, metadata, x) ==
  \/ /\ Is(rule, "CacheableMetadataExplorer")
     /\ \E options :
          \/ Has(metadata, "CACHE_EVICT") /\ x = Wrapper("evict", options) \o ref
          \/ Has(metadata, "CACHE_PUT") /\ x = Wrapper("put", options) \o ref
          \/ Has(metadata, "CACHEABLE") /\ x = Wrapper("cacheable", options) \o ref
  \/ /\ Is(rule, "DistributionLockMetadataExplorer")
     /\ Has(metadata, "LOCK") /\ ServicesOf(rule) # <<>>
     /\ \E options : x = Wrapper("lock", options) \o ref
  \/ /\ Is(rule, "TransactionalMetadataExplorer") /\ ~Has(metadata, "NO_TRANSACTIONAL")
     /\ ~Has(metadata, "TRANSACTIONAL") /\ OfClass(rule, w) = <<>> /\ Has(metadata, "EVENT")
     /\ \E options : x = Wrapper("event", options) \o ref
  \/ /\ Is(rule, "TransactionalMetadataExplorer") /\ ~Has(metadata, "NO_TRANSACTIONAL")
     /\ Has(metadata, "TRANSACTIONAL") \/ OfClass(rule, w) # <<>>
     /\ ServicesOf(rule) # <<>>
     /\ \E options, event :
          /\ \E i \in DOMAIN ServicesOf(rule) : options.service = ServicesOf(rule)[i][2]
          /\ ~event.bound
          /\ x = Wrapper("transaction", options)
                   \o (IF Has(metadata, "EVENT") THEN Wrapper("event", event) \o ref ELSE ref)
(* An explorer that wraps a method makes the wrapper of its feature,       *)
(* because the metadata it reads asks for it.                              *)
LEMMA WrapperCases ==
  ASSUME IsApplication(container), NEW rule \in DOMAIN container.class,
         NEW w, NEW slot, NEW ref, Wraps(rule, w, slot, ref),
         NEW x, x = OnMethod(rule, w, slot, ref, ref),
         NEW metadata, metadata = MetadataOf(MethodAt(slot).decorators, ref)
  PROVE  WrappedBy(rule, w, ref, metadata, x)
<1>1. CASE Is(rule, "CacheableMetadataExplorer")
  <2>1. x = CacheableOnMethod(metadata, ref, ref)
    BY <1>1 DEF OnMethod, Is
  <2>2. \E key \in {"CACHE_EVICT", "CACHE_PUT", "CACHEABLE"} : Has(metadata, key)
    BY <1>1 DEF Wraps, Is
  <2>3. \E options :
          \/ Has(metadata, "CACHE_EVICT") /\ x = Wrapper("evict", options) \o ref
          \/ Has(metadata, "CACHE_PUT") /\ x = Wrapper("put", options) \o ref
          \/ Has(metadata, "CACHEABLE") /\ x = Wrapper("cacheable", options) \o ref
    BY <2>1, <2>2 DEF CacheableOnMethod
  <2> QED
    BY <1>1, <2>3 DEF WrappedBy
<1>2. CASE Is(rule, "DistributionLockMetadataExplorer")
  <2>1. x = LockOnMethod(ServicesOf(rule), metadata, ref, ref)
    BY <1>2 DEF OnMethod, Is
  <2>2. Has(metadata, "LOCK") /\ ServicesOf(rule) # <<>>
    BY <1>2 DEF Wraps, Is
  <2>3. \E options : x = Wrapper("lock", options) \o ref
    BY <2>1, <2>2 DEF LockOnMethod
  <2> QED
    BY <1>2, <2>2, <2>3 DEF WrappedBy
<1>3. CASE Is(rule, "TransactionalMetadataExplorer")
  <2> DEFINE services == ServicesOf(rule)
             resolved == ResolvedOptions(OfClass(rule, w), metadata)
  <2>1. x = TransactionalOnMethod(services, OfClass(rule, w), metadata, ref, ref)
    BY <1>3 DEF OnMethod, Is
  <2>2. /\ ~Has(metadata, "NO_TRANSACTIONAL")
        /\ IF Has(metadata, "TRANSACTIONAL") \/ OfClass(rule, w) # <<>>
           THEN services # <<>> ELSE Has(metadata, "EVENT")
    BY <1>3 DEF Wraps, Is
  <2>3. resolved # <<>> <=> Has(metadata, "TRANSACTIONAL") \/ OfClass(rule, w) # <<>>
    BY NoOptions
  <2>4. IsSequence(services)
    BY <1>3 DEF IsApplication, ServicesOf, IsSequence, Is
  <2> HIDE DEF services, resolved
  <2>5. CASE resolved = <<>>
    <3>1. \E options : x = Wrapper("event", options) \o ref
      BY <2>1, <2>2, <2>3, <2>5 DEF TransactionalOnMethod, PublishesEvent, resolved
    <3> QED
      BY <1>3, <2>2, <2>3, <2>5, <3>1 DEF services, WrappedBy
  <2>6. CASE resolved # <<>>
    <3> DEFINE event == [event |-> metadata["EVENT"], bound |-> FALSE]
               options == With(Named(services, resolved[1], "adapter"), resolved[1])
    <3>1. options.service = Named(services, resolved[1], "adapter")
      BY DEF With
    <3>2. \E i \in DOMAIN services : options.service = services[i][2]
      BY <3>1, <2>2, <2>3, <2>4, <2>6, NamedIsThere
    <3>3. x = Wrapper("transaction", options)
                \o (IF Has(metadata, "EVENT") THEN Wrapper("event", event) \o ref ELSE ref)
      BY <2>1, <2>2, <2>3, <2>6 DEF TransactionalOnMethod, PublishesEvent, InTransaction, resolved
    <3>4. ~event.bound
      OBVIOUS
    <3> HIDE DEF event, options
    <3> QED
      BY <1>3, <2>2, <2>3, <2>6, <3>2, <3>3, <3>4 DEF services, WrappedBy
  <2> QED
    BY <2>5, <2>6
<1>4. \/ Is(rule, "CacheableMetadataExplorer") \/ Is(rule, "DistributionLockMetadataExplorer")
      \/ Is(rule, "TransactionalMetadataExplorer")
  BY DEF Wraps
<1> QED
  BY <1>1, <1>2, <1>3, <1>4

-----------------------------------------------------------------------------
(* The inductive invariant                                                 *)
AllSlots == UNION {SlotsOf(o) : o \in DOMAIN container.class}
WrapperNames == {"cacheable", "put", "evict", "lock", "transaction", "event", "fetch"}

(* The ways to an object that the engine has gone so far.                  *)
Visited(o) == {i \in EntriesOf(o) : i < next}

(* An object the engine meets through an alias before it meets its class,  *)
(* which has options of transactions.                                      *)
LateClass(slot) == AliasFirst(slot[1]) /\ ClassDeclares(slot, "TRANSACTIONAL")

OneFeature(slot) == \A x, y \in Wanted(slot) : x = y
(* The ways that lead to what a method wants: a request needs the class.   *)
Needs(slot) == IF <<"fetch">> \in Wanted(slot) THEN ByClass(slot[1]) ELSE EntriesOf(slot[1])
Settled(slot) ==
  /\ impl[slot] # <<>> => Order(impl[slot]) \in Wanted(slot)
  /\ Wanted(slot) # {} /\ Visited(slot[1]) \cap Needs(slot) # {} => impl[slot] # <<>>

(* At most a transaction around one other wrapper.                         *)
Tidy(wrappers) ==
  \/ Len(wrappers) <= 1
  \/ /\ Len(wrappers) = 2 /\ wrappers[1].by = "transaction"
     /\ wrappers[2].by = "fetch" \/ (wrappers[2].by = "event" /\ ~wrappers[2].options.bound)

ControlInv ==
  /\ process \in Processes /\ app \in DOMAIN process /\ container = Apps[process[app]]
  /\ initialized \in BOOLEAN
  /\ phase \in {"creating", "refused", "registering", "registered", "exploring", "ready"}
  /\ next \in 1 .. Len(container.providers) + 1
  /\ phase \notin {"exploring", "ready"} => next = 1
  /\ phase = "ready" => next = 1 \/ next > Len(container.providers)
  /\ rules \in Seq(DOMAIN container.class)
  /\ DOMAIN impl = IF phase \in {"creating", "refused"} THEN {} ELSE AllSlots
  /\ \A seen \in classLevel : Has(Metadata(seen[2].decorators), "TRANSACTIONAL")
  /\ phase \in {"creating", "registering", "registered"} => listeners = Nobody
WrappersOk(slot, wrappers) ==
  /\ IsSequence(wrappers)
  /\ \A i \in DOMAIN wrappers :
       /\ wrappers[i].by \in WrapperNames
       /\ wrappers[i].by = "transaction" => wrappers[i].options.service \in Adapters
  /\ Visited(slot[1]) = {} => wrappers = <<>>
  /\ LateClass(slot) \/ Tidy(wrappers)
MethodsInv ==
  \A slot \in DOMAIN impl :
    /\ WrappersOk(slot, impl[slot])
    /\ ~Excepted(slot) /\ OneFeature(slot) => Settled(slot)
Times(listener) == IF BagIn(listener, listeners) THEN listeners[listener] ELSE 0
ListenersInv ==
  /\ IsABag(listeners)
  /\ \A r \in Registered("TransactionalMetadataExplorer"), slot \in DOMAIN impl :
       /\ Times(<<r, slot>>) <= Cardinality(Visited(slot[1]))
       /\ Times(<<r, slot>>) > 0 => Declares(slot, "LISTENER")
       /\ Declares(slot, "LISTENER") /\ Visited(slot[1]) # {} /\ <<"fetch">> \notin Wanted(slot)
            => Times(<<r, slot>>) > 0
InterceptorsInv ==
  \A i \in DOMAIN interceptors :
    /\ interceptors[i] = 1
    /\ \E j \in Visited(i[2]) : ~Bare(container.providers[j].metatype)
BootstrapInv == ControlInv /\ MethodsInv /\ ListenersInv /\ InterceptorsInv

-----------------------------------------------------------------------------
(* The explorers and the application are what the assumption says.         *)
LEMMA RulesAreThere ==
  ASSUME ControlInv
  PROVE  IsSequence(rules) /\ Range(rules) \subseteq DOMAIN container.class
<1>1. rules \in Seq(DOMAIN container.class)
  BY DEF ControlInv
<1>2. rules \in [1 .. Len(rules) -> DOMAIN container.class] /\ Len(rules) \in Nat
  BY <1>1
<1>3. Range(rules) = {rules[i] : i \in 1 .. Len(rules)}
  BY <1>2 DEF Range
<1>4. rules \in Seq(Range(rules))
  BY <1>2, <1>3
<1> QED
  BY <1>2, <1>3, <1>4 DEF IsSequence

LEMMA AnApplication == ASSUME ControlInv PROVE IsApplication(container)
<1>1. process \in Seq(DOMAIN Apps) /\ app \in DOMAIN process
  BY AppsAssumption DEF AppsAssumption, ControlInv
<1>2. process[app] \in DOMAIN Apps
  BY <1>1
<1> QED
  BY <1>2, AppsAssumption DEF AppsAssumption, ControlInv

OptionsOfClass(w) == Has(Metadata(w.metatype.decorators), "TRANSACTIONAL")
(* Options of a class are known to the explorer when the class declares    *)
(* them: it has been shown the class just before.                          *)
LEMMA ClassOptionsKnown ==
  ASSUME NEW w
  PROVE  ClassOptions(w) # Nothing <=> OptionsOfClass(w)
<1> DEFINE metadata == Metadata(w.metatype.decorators)
           fields == {f \in {"class"} : Has(metadata, "TRANSACTIONAL")}
<1>1. ClassOptions(w) = [field \in fields |-> metadata["TRANSACTIONAL"]]
  BY DEF ClassOptions, Pick
<1>2. CASE OptionsOfClass(w)
  <2>1. fields = {"class"}
    BY <1>2 DEF OptionsOfClass
  <2>2. "class" \in DOMAIN ClassOptions(w) /\ DOMAIN Nothing = {}
    BY <1>1, <2>1 DEF Nothing
  <2> QED
    BY <1>2, <2>2
<1>3. CASE ~OptionsOfClass(w)
  <2>1. fields = {}
    BY <1>3 DEF OptionsOfClass
  <2>2. [field \in {} |-> metadata["TRANSACTIONAL"]] = <<>>
    OBVIOUS
  <2> QED
    BY <1>1, <1>3, <2>1, <2>2 DEF Nothing
<1> QED
  BY <1>2, <1>3

LEMMA OfClassKnown ==
  ASSUME ControlInv, NEW rule \in Registered("TransactionalMetadataExplorer"), NEW w
  PROVE  OfClass(rule, w) # <<>> <=> OptionsOfClass(w)
<1>1. <<rule, w.metatype>> \in ClassSeen(w) <=> OptionsOfClass(w)
  BY ClassOptionsKnown DEF ClassSeen
<1>2. <<rule, w.metatype>> \in classLevel => OptionsOfClass(w)
  BY DEF ControlInv, OptionsOfClass
<1> QED
  BY <1>1, <1>2 DEF OfClass

(* A wrapper hides the metadata of its method.                             *)
LEMMA NoMetadata ==
  ASSUME NEW slot, NEW ref
  PROVE  /\ ref = <<>> => MetadataOf(MethodAt(slot).decorators, ref) = Metadata(MethodAt(slot).decorators)
         /\ ref # <<>> => \A key : ~Has(MetadataOf(MethodAt(slot).decorators, ref), key)
  BY DEF MetadataOf, Has, Nothing

(* What the explorers make of a method, and what asked for it.             *)
Outcomes(w, slot, ref, now) ==
  \/ now = ref /\ \A rule \in Range(rules) : ~Wraps(rule, w, slot, ref)
  \/ /\ ref # <<>> /\ OptionsOfClass(w) /\ Adapted
     /\ \E options : options.service \in Adapters /\ now = Wrapper("transaction", options) \o ref
  \/ /\ ref = <<>> /\ Registered("CacheableMetadataExplorer") # {}
     /\ \E by \in {"evict", "put", "cacheable"} : \E options :
          <<by>> \in Caching(slot) /\ now = Wrapper(by, options) \o <<>>
  \/ /\ ref = <<>> /\ Declares(slot, "LOCK")
     /\ \E r \in Registered("DistributionLockMetadataExplorer") : ServicesOf(r) # <<>>
     /\ \E options : now = Wrapper("lock", options) \o <<>>
  \/ /\ ref = <<>> /\ Registered("TransactionalMetadataExplorer") # {}
     /\ ~OptionsOfClass(w) /\ ~Declares(slot, "TRANSACTIONAL") /\ Publishing(slot)
     /\ \E options : now = Wrapper("event", options) \o <<>>
  \/ /\ ref = <<>> /\ Adapted
     /\ OptionsOfClass(w) \/ Declares(slot, "TRANSACTIONAL")
     /\ ~Declares(slot, "NO_TRANSACTIONAL")
     /\ \E options, event :
          /\ options.service \in Adapters /\ ~event.bound
          /\ now = Wrapper("transaction", options)
                     \o (IF Publishing(slot) THEN Wrapper("event", event) \o <<>> ELSE <<>>)
(* One exploration of one method, by the metadata that decides it.         *)
LEMMA Outcome ==
  ASSUME ControlInv, NEW w, NEW slot, NEW ref, NEW now, now = Decorated(w, slot, ref)
  PROVE  Outcomes(w, slot, ref, now)
<1>1. SUFFICES ASSUME NEW rule \in Range(rules), Wraps(rule, w, slot, ref),
                      now = OnMethod(rule, w, slot, ref, ref)
               PROVE  Outcomes(w, slot, ref, now)
  <2>1. rules \in Seq(Range(rules))
    BY RulesAreThere DEF IsSequence
  <2>2. \/ now = ref /\ \A rule \in Range(rules) : ~Wraps(rule, w, slot, ref)
        \/ \E rule \in Range(rules) :
             Wraps(rule, w, slot, ref) /\ now = OnMethod(rule, w, slot, ref, ref)
    BY <2>1, Decoration
  <2> QED
    BY <2>2 DEF Outcomes
<1> DEFINE metadata == MetadataOf(MethodAt(slot).decorators, ref)
<1>2. IsApplication(container) /\ rule \in DOMAIN container.class
  BY AnApplication, RulesAreThere
<1>3. /\ ref = <<>> => \A key : Has(metadata, key) <=> Declares(slot, key)
      /\ ref # <<>> => \A key : ~Has(metadata, key)
  BY NoMetadata DEF Declares
<1>4. \A name : Is(rule, name) => rule \in Registered(name)
  BY DEF Registered
<1>5. Is(rule, "TransactionalMetadataExplorer") => (OfClass(rule, w) # <<>> <=> OptionsOfClass(w))
  BY <1>4, OfClassKnown
<1> DEFINE ByCache ==
             /\ Is(rule, "CacheableMetadataExplorer")
             /\ \E options :
                  \/ Has(metadata, "CACHE_EVICT") /\ now = Wrapper("evict", options) \o ref
                  \/ Has(metadata, "CACHE_PUT") /\ now = Wrapper("put", options) \o ref
                  \/ Has(metadata, "CACHEABLE") /\ now = Wrapper("cacheable", options) \o ref
           ByLock ==
             /\ Is(rule, "DistributionLockMetadataExplorer")
             /\ Has(metadata, "LOCK") /\ ServicesOf(rule) # <<>>
             /\ \E options : now = Wrapper("lock", options) \o ref
           ByEvent ==
             /\ Is(rule, "TransactionalMetadataExplorer") /\ ~Has(metadata, "NO_TRANSACTIONAL")
             /\ ~Has(metadata, "TRANSACTIONAL") /\ OfClass(rule, w) = <<>> /\ Has(metadata, "EVENT")
             /\ \E options : now = Wrapper("event", options) \o ref
           ByTransaction ==
             /\ Is(rule, "TransactionalMetadataExplorer") /\ ~Has(metadata, "NO_TRANSACTIONAL")
             /\ Has(metadata, "TRANSACTIONAL") \/ OfClass(rule, w) # <<>>
             /\ ServicesOf(rule) # <<>>
             /\ \E options, event :
                  /\ \E i \in DOMAIN ServicesOf(rule) : options.service = ServicesOf(rule)[i][2]
                  /\ ~event.bound
                  /\ now = Wrapper("transaction", options)
                             \o (IF Has(metadata, "EVENT") THEN Wrapper("event", event) \o ref ELSE ref)
<1>6. CASE ByCache
  <2>1. ref = <<>>
    BY <1>3, <1>6
  <2>2. /\ Declares(slot, "CACHE_EVICT") => <<"evict">> \in Caching(slot)
        /\ Declares(slot, "CACHE_PUT") => <<"put">> \in Caching(slot)
        /\ Declares(slot, "CACHEABLE") => <<"cacheable">> \in Caching(slot)
    BY DEF Caching
  <2>3. \E by \in {"evict", "put", "cacheable"} : \E options :
          <<by>> \in Caching(slot) /\ now = Wrapper(by, options) \o <<>>
    BY <2>1, <2>2, <1>3, <1>6
  <2> QED
    BY <2>1, <2>3, <1>4, <1>6 DEF Outcomes
<1>7. CASE ByLock
  BY <1>3, <1>4, <1>7 DEF Outcomes
<1>8. CASE ByEvent
  BY <1>3, <1>4, <1>5, <1>8 DEF Publishing, Outcomes
<1>9. CASE ByTransaction
  <2>1. rule \in Registered("TransactionalMetadataExplorer") /\ Adapted
    BY <1>4, <1>9 DEF Adapted
  <2>2. \A i \in DOMAIN ServicesOf(rule) : ServicesOf(rule)[i][2] \in Adapters
    BY <2>1 DEF Adapters, Range
  <2>3. PICK options, event :
          /\ options.service \in Adapters /\ ~event.bound
          /\ now = Wrapper("transaction", options)
                     \o (IF Has(metadata, "EVENT") THEN Wrapper("event", event) \o ref ELSE ref)
    BY <1>9, <2>2
  <2>4. CASE ref # <<>>
    <3>1. OptionsOfClass(w)
      BY <1>3, <1>5, <1>9, <2>4
    <3>2. now = Wrapper("transaction", options) \o ref
      BY <1>3, <2>3, <2>4
    <3> QED
      BY <2>1, <2>3, <2>4, <3>1, <3>2 DEF Outcomes
  <2>5. CASE ref = <<>>
    <3>1. OptionsOfClass(w) \/ Declares(slot, "TRANSACTIONAL")
      BY <1>3, <1>5, <1>9, <2>5
    <3>2. ~Declares(slot, "NO_TRANSACTIONAL") /\ (Has(metadata, "EVENT") <=> Publishing(slot))
      BY <1>3, <1>9, <2>5 DEF Publishing
    <3>3. now = Wrapper("transaction", options)
                  \o (IF Publishing(slot) THEN Wrapper("event", event) \o <<>> ELSE <<>>)
      BY <2>3, <2>5, <3>2
    <3> QED
      BY <2>1, <2>3, <2>5, <3>1, <3>2, <3>3 DEF Outcomes
  <2> QED
    BY <2>4, <2>5
<1>10. ByCache \/ ByLock \/ ByEvent \/ ByTransaction
  <2> HIDE DEF metadata
  <2>1. metadata = MetadataOf(MethodAt(slot).decorators, ref)
    BY DEF metadata
  <2>2. WrappedBy(rule, w, ref, metadata, now)
    BY <1>1, <1>2, <2>1, WrapperCases
  <2> QED
    BY <1>1, <1>2, <2>1, <2>2 DEF WrappedBy
<1> HIDE DEF metadata, ByCache, ByLock, ByEvent, ByTransaction
<1> QED
  BY <1>6, <1>7, <1>8, <1>9, <1>10

-----------------------------------------------------------------------------
(* The order of wrappers, and what a method wants.                         *)
LEMMA OrderOfOne ==
  ASSUME NEW by, NEW options
  PROVE  LET s == Wrapper(by, options) \o <<>>
         IN /\ Order(s) = <<by>> /\ s # <<>> /\ IsSequence(s) /\ Len(s) = 1 /\ DOMAIN s = {1}
            /\ s[1] = [by |-> by, options |-> options]
<1> DEFINE x == [by |-> by, options |-> options]
<1>1. Wrapper(by, options) \o <<>> = <<x>>
  BY Single DEF Wrapper
<1>2. Order(<<x>>) = <<by>>
  <2>1. Order(<<x>>) = [i \in {1} |-> <<x>>[i].by]
    BY Single DEF Order
  <2>2. \A i \in {1} : <<x>>[i].by = by
    OBVIOUS
  <2>3. Order(<<x>>) = [i \in {1} |-> by]
    BY <2>1, <2>2
  <2>4. <<by>> = [i \in {1} |-> by]
    OBVIOUS
  <2> QED
    BY <2>3, <2>4
<1>3. <<x>>[1] = x /\ <<x>> # <<>>
  OBVIOUS
<1> QED
  BY <1>1, <1>2, <1>3, Single

LEMMA Pair == ASSUME NEW x, NEW y PROVE <<x>> \o <<y>> = <<x, y>>
<1> DEFINE S == {x, y}
           s == <<x>> \o <<y>>
<1>1. <<x>> \in Seq(S) /\ <<y>> \in Seq(S) /\ <<x, y>> \in Seq(S)
  OBVIOUS
<1>2. Len(<<x>>) = 1 /\ Len(<<y>>) = 1 /\ Len(<<x, y>>) = 2 /\ <<x, y>>[1] = x /\ <<x, y>>[2] = y
  OBVIOUS
<1>3. s \in Seq(S) /\ Len(s) = 2 /\ s[1] = x /\ s[2] = y
  <2> HIDE DEF S
  <2> QED
    BY <1>1, <1>2, ConcatProperties
<1>4. \A i \in 1 .. 2 : s[i] = <<x, y>>[i]
  BY <1>2, <1>3
<1> HIDE DEF S, s
<1>5. s = <<x, y>>
  BY <1>1, <1>2, <1>3, <1>4, SeqEqual
<1> QED
  BY <1>5 DEF s

LEMMA OrderOfTwo ==
  ASSUME NEW options, NEW event
  PROVE  LET s == Wrapper("transaction", options) \o (Wrapper("event", event) \o <<>>)
         IN /\ Order(s) = <<"transaction", "event">> /\ s # <<>>
            /\ IsSequence(s) /\ Len(s) = 2 /\ DOMAIN s = {1, 2}
            /\ s[1] = [by |-> "transaction", options |-> options] /\ s[2] = [by |-> "event", options |-> event]
<1> DEFINE t == [by |-> "transaction", options |-> options]
           e == [by |-> "event", options |-> event]
           s == <<t, e>>
<1>1. Wrapper("transaction", options) \o (Wrapper("event", event) \o <<>>) = s
  <2>1. Wrapper("event", event) \o <<>> = <<e>>
    BY Single DEF Wrapper
  <2>2. <<t>> \o <<e>> = <<t, e>>
    BY Pair
  <2> QED
    BY <2>1, <2>2 DEF Wrapper
<1>2. DOMAIN s = {1, 2} /\ s[1] = t /\ s[2] = e /\ s # <<>> /\ Len(s) = 2
  OBVIOUS
<1>3. IsSequence(s)
  <2>1. Range(s) = {t, e}
    BY <1>2 DEF Range
  <2>2. s \in Seq({t, e})
    OBVIOUS
  <2> QED
    BY <2>1, <2>2 DEF IsSequence
<1>4. Order(s) = <<"transaction", "event">>
  <2>1. Order(s) = [i \in {1, 2} |-> IF i = 1 THEN "transaction" ELSE "event"]
    BY <1>2 DEF Order
  <2>2. <<"transaction", "event">> = [i \in {1, 2} |-> IF i = 1 THEN "transaction" ELSE "event"]
    OBVIOUS
  <2> QED
    BY <2>1, <2>2
<1>5. /\ Order(s) = <<"transaction", "event">> /\ s # <<>>
      /\ IsSequence(s) /\ Len(s) = 2 /\ DOMAIN s = {1, 2}
      /\ s[1] = [by |-> "transaction", options |-> options] /\ s[2] = [by |-> "event", options |-> event]
  BY <1>2, <1>3, <1>4
<1> HIDE DEF s
<1> QED
  BY <1>1, <1>5

LEMMA WantedParts ==
  ASSUME NEW slot
  PROVE  \A s : s \in Wanted(slot) <=>
           \/ Registered("CacheableMetadataExplorer") # {} /\ s \in Caching(slot)
           \/ /\ \E r \in Registered("DistributionLockMetadataExplorer") : ServicesOf(r) # <<>>
              /\ s = <<"lock">> /\ Declares(slot, "LOCK")
           \/ Registered("TransactionalMetadataExplorer") # {} /\ s \in InTransactions(slot)
           \/ Registered("FeignMetadataExplorer") # {} /\ s \in Fetching(slot)
  BY DEF Wanted, Guarding

LEMMA AdaptedIsRegistered == Adapted => Registered("TransactionalMetadataExplorer") # {}
  BY DEF Adapted

LEMMA TransactionsWanted ==
  ASSUME NEW slot
  PROVE  /\ DeclaredTransactional(slot) /\ Adapted =>
              InTransactions(slot) = {IF Publishing(slot) THEN <<"transaction", "event">> ELSE <<"transaction">>}
         /\ DeclaredTransactional(slot) /\ ~Adapted => InTransactions(slot) = {}
         /\ ~DeclaredTransactional(slot) /\ Publishing(slot) => InTransactions(slot) = {<<"event">>}
         /\ ~DeclaredTransactional(slot) /\ ~Publishing(slot) => InTransactions(slot) = {}
  BY DEF InTransactions

LEMMA FetchWanted ==
  ASSUME NEW slot
  PROVE  /\ \A s \in Fetching(slot) : s = <<"fetch">>
         /\ Fetching(slot) # {} <=> /\ Declares(slot, "FEIGN_METHOD")
                                    /\ ClassDeclares(slot, "FEIGN_CLIENT") /\ ByClass(slot[1]) # {}
         /\ Fetching(slot) # {} => <<"fetch">> \in Fetching(slot)
  BY DEF Fetching

LEMMA Differ ==
  /\ <<"fetch">> # <<"lock">> /\ <<"fetch">> # <<"event">> /\ <<"fetch">> # <<"transaction">>
  /\ <<"fetch">> # <<"transaction", "event">>
  /\ \A by \in {"cacheable", "put", "evict"} : <<"fetch">> # <<by>>
<1>1. <<"transaction", "event">>[1] = "transaction" /\ <<"fetch">>[1] = "fetch"
  OBVIOUS
<1> QED
  BY <1>1

LEMMA NoFetchElsewhere ==
  ASSUME NEW slot
  PROVE  /\ <<"fetch">> \notin Caching(slot) /\ <<"fetch">> \notin InTransactions(slot)
         /\ <<"fetch">> \in Wanted(slot) <=>
              Registered("FeignMetadataExplorer") # {} /\ Fetching(slot) # {}
<1>1. <<"fetch">> \notin Caching(slot)
  BY Differ DEF Caching
<1>2. <<"fetch">> \notin InTransactions(slot)
  BY Differ, TransactionsWanted
<1> QED
  BY <1>1, <1>2, WantedParts, FetchWanted, Differ

(* The class of an object and the ways to it.                              *)
LEMMA ClassMet ==
  ASSUME IsApplication(container), NEW i \in DOMAIN container.providers,
         NEW w, w = container.providers[i], w.explored, ~Bare(w.metatype)
  PROVE  /\ i \in ByClass(w.object) /\ w.metatype = container.class[w.object]
         /\ \A j \in ByClass(w.object) : j = i
<1>1. w \in Range(container.providers)
  BY DEF Range
<1>2. w.metatype = container.class[w.object]
  BY <1>1 DEF IsApplication
<1>3. i \in ByClass(w.object)
  BY <1>2 DEF ByClass, EntriesOf
<1>4. ASSUME NEW j \in ByClass(w.object) PROVE j = i
  <2>1. /\ container.providers[j].object = w.object /\ j \in DOMAIN container.providers
        /\ container.providers[j].metatype = w.metatype
    BY <1>2 DEF ByClass, EntriesOf
  <2> QED
    BY <2>1 DEF IsApplication
<1> QED
  BY <1>2, <1>3, <1>4

LEMMA NotBare ==
  ASSUME NEW metatype, NEW key, Has(Metadata(metatype.decorators), key)
  PROVE  ~Bare(metatype)
  BY DEF Has, Bare

(* The declarative client, by the metadata that decides it.                *)
LEMMA FetchCases ==
  ASSUME NEW w, NEW slot, NEW ref
  PROVE  LET now == FetchOnProvider(w, slot, ref)
             fetches == /\ Registered("FeignMetadataExplorer") # {} /\ Declares(slot, "FEIGN_METHOD")
                        /\ Has(Metadata(w.metatype.decorators), "FEIGN_CLIENT")
         IN /\ now = ref \/ \E options : now = Wrapper("fetch", options) \o <<>>
            /\ ref # <<>> \/ ~fetches => now = ref
            /\ ref = <<>> /\ fetches => \E options : now = Wrapper("fetch", options) \o <<>>
<1>1. /\ ref = <<>> => \A key : Has(MetadataOf(MethodAt(slot).decorators, ref), key) <=> Declares(slot, key)
      /\ ref # <<>> => \A key : ~Has(MetadataOf(MethodAt(slot).decorators, ref), key)
  BY NoMetadata DEF Declares
<1> QED
  BY <1>1 DEF FetchOnProvider

-----------------------------------------------------------------------------
(* One more way to an object: what becomes of one of its methods.          *)
ExploredBy(w) == ControlInv /\ next \in DOMAIN container.providers
                   /\ w = container.providers[next] /\ w.explored
LEMMA TheWay ==
  ASSUME NEW w, ExploredBy(w)
  PROVE  /\ IsApplication(container) /\ next \in EntriesOf(w.object) /\ next \notin Visited(w.object)
         /\ ~Bare(w.metatype) => /\ next \in ByClass(w.object) /\ w.metatype = container.class[w.object]
                                 /\ \A j \in ByClass(w.object) : j = next
         /\ \A i \in EntriesOf(w.object) : i < next => i \in Visited(w.object)
<1>1. IsApplication(container) /\ next \in Nat
  BY AnApplication DEF ExploredBy, ControlInv
<1>2. ~Bare(w.metatype) => /\ next \in ByClass(w.object) /\ w.metatype = container.class[w.object]
                           /\ \A j \in ByClass(w.object) : j = next
  BY <1>1, ClassMet DEF ExploredBy
<1> QED
  BY <1>1, <1>2 DEF ExploredBy, EntriesOf, Visited

(* A class with options of transactions is met after an alias.             *)
LEMMA ClassAfterAlias ==
  ASSUME NEW w, ExploredBy(w), OptionsOfClass(w), NEW slot, slot[1] = w.object,
         Visited(slot[1]) # {}
  PROVE  LateClass(slot) /\ Excepted(slot)
<1>1. ~Bare(w.metatype)
  BY NotBare DEF OptionsOfClass
<1>2. PICK i \in EntriesOf(w.object) : i < next /\ i # next
  <2>1. next \in Nat /\ \A i \in EntriesOf(w.object) : i \in Nat
    BY AnApplication DEF ExploredBy, ControlInv, EntriesOf, IsApplication
  <2>2. PICK i \in EntriesOf(w.object) : i < next
    BY DEF Visited
  <2> QED
    BY <2>1, <2>2
<1>3. i \notin ByClass(w.object) /\ next \in ByClass(w.object)
  BY <1>1, <1>2, TheWay
<1>4. AliasFirst(slot[1])
  BY <1>2, <1>3 DEF AliasFirst
<1>5. ClassDeclares(slot, "TRANSACTIONAL")
  BY <1>1, TheWay DEF OptionsOfClass, ClassDeclares
<1> QED
  BY <1>4, <1>5 DEF LateClass, Excepted

(* A method that is settled is so after one more way to its object: this is*)
(* where the exceptions of Excepted() are needed.                          *)
LEMMA SettledStep ==
  ASSUME NEW w, ExploredBy(w), NEW slot, slot[1] = w.object,
         ~Excepted(slot), OneFeature(slot), Settled(slot),
         Visited(slot[1]) = {} => impl[slot] = <<>>,
         NEW now, now = Decorated(w, slot, FetchOnProvider(w, slot, impl[slot]))
  PROVE  /\ now # <<>> => Order(now) \in Wanted(slot)
         /\ Wanted(slot) # {} /\ (Visited(slot[1]) \cup {next}) \cap Needs(slot) # {} => now # <<>>
<1> DEFINE ref == FetchOnProvider(w, slot, impl[slot])
<1>1. ControlInv
  BY DEF ExploredBy
<1>2. CASE impl[slot] # <<>>
  <2>1. ref = impl[slot]
    BY <1>2, FetchCases
  <2>2. ~OptionsOfClass(w)
    BY <1>2, ClassAfterAlias
  <2> HIDE DEF ref
  <2>3. now = ref
    <3>1. Outcomes(w, slot, ref, now)
      BY <1>1, Outcome DEF ref
    <3> QED
      BY <1>2, <2>1, <2>2, <3>1 DEF Outcomes
  <2> QED
    BY <1>2, <2>1, <2>3 DEF Settled
<1>3. CASE impl[slot] = <<>> /\ ref # <<>>
  <2>1. /\ Registered("FeignMetadataExplorer") # {} /\ Declares(slot, "FEIGN_METHOD")
        /\ Has(Metadata(w.metatype.decorators), "FEIGN_CLIENT")
    BY <1>3, FetchCases
  <2>2. PICK options : ref = Wrapper("fetch", options) \o <<>>
    BY <1>3, <2>1, FetchCases
  <2>3. ~Bare(w.metatype)
    BY <2>1, NotBare
  <2>4. Fetching(slot) # {} /\ <<"fetch">> \in Wanted(slot)
    BY <2>1, <2>3, TheWay, FetchWanted, NoFetchElsewhere DEF ClassDeclares
  <2>5. ~(OptionsOfClass(w) /\ Adapted)
    <3> SUFFICES ASSUME OptionsOfClass(w), Adapted PROVE FALSE
      OBVIOUS
    <3>1. ClassDeclares(slot, "TRANSACTIONAL") /\ ByClass(slot[1]) # {}
      BY <2>3, TheWay DEF OptionsOfClass, ClassDeclares
    <3>2. ~Declares(slot, "NO_TRANSACTIONAL")
      BY <2>4, <3>1 DEF Excepted
    <3>3. DeclaredTransactional(slot)
      BY <3>1, <3>2 DEF DeclaredTransactional
    <3>4. InTransactions(slot) # {}
      BY <3>3, TransactionsWanted
    <3>5. PICK s \in InTransactions(slot) : s # <<"fetch">>
      BY <3>4, NoFetchElsewhere
    <3>6. s \in Wanted(slot)
      BY <3>5, WantedParts, AdaptedIsRegistered
    <3> QED
      BY <2>4, <3>5, <3>6 DEF OneFeature
  <2>6. now = ref
    <3>1. Outcomes(w, slot, ref, now)
      BY <1>1, Outcome
    <3> HIDE DEF ref
    <3> QED
      BY <1>3, <2>5, <3>1 DEF Outcomes
  <2>7. Order(ref) = <<"fetch">>
    BY <2>2, OrderOfOne
  <2> QED
    BY <1>3, <2>4, <2>6, <2>7
<1>4. CASE impl[slot] = <<>> /\ ref = <<>>
  <2> DEFINE fetches == /\ Registered("FeignMetadataExplorer") # {} /\ Declares(slot, "FEIGN_METHOD")
                        /\ Has(Metadata(w.metatype.decorators), "FEIGN_CLIENT")
  <2>1. ~fetches
    <3> SUFFICES ASSUME fetches PROVE FALSE
      OBVIOUS
    <3>1. PICK options : ref = Wrapper("fetch", options) \o <<>>
      BY <1>4, FetchCases
    <3>2. Wrapper("fetch", options) \o <<>> # <<>>
      BY OrderOfOne
    <3> QED
      BY <1>4, <3>1, <3>2
  (* A class with options of transactions comes first, or not at all.      *)
  <2>2. ASSUME ClassDeclares(slot, "TRANSACTIONAL"), ByClass(slot[1]) # {}, ~OptionsOfClass(w)
        PROVE  /\ Adapted /\ Visited(slot[1]) \cap Needs(slot) # {}
               /\ Visited(slot[1]) \cap EntriesOf(slot[1]) # {}
    <3>1. next \notin ByClass(slot[1])
      BY <2>2 DEF ExploredBy, ByClass, ClassDeclares, OptionsOfClass
    <3>2. Adapted /\ ~AliasFirst(slot[1])
      BY <2>2, <3>1, TheWay DEF Excepted
    <3>3. PICK j \in ByClass(slot[1]) : TRUE
      BY <2>2
    <3>4. j \in EntriesOf(slot[1]) /\ j \in Nat /\ next \in Nat /\ next \in EntriesOf(slot[1])
      <4>1. j \in EntriesOf(slot[1]) /\ next \in EntriesOf(slot[1])
        BY TheWay DEF ByClass
      <4>2. \A i \in EntriesOf(slot[1]) : i \in Nat
        BY <1>1, AnApplication DEF EntriesOf, IsApplication
      <4> QED
        BY <4>1, <4>2
    <3>5. j < next
      BY <3>1, <3>2, <3>4 DEF AliasFirst
    <3>6. j \in Visited(slot[1])
      BY <3>4, <3>5 DEF Visited
    <3> QED
      BY <3>2, <3>4, <3>6 DEF Needs
  <2>3. OptionsOfClass(w) => ClassDeclares(slot, "TRANSACTIONAL") /\ ByClass(slot[1]) # {}
    BY TheWay, NotBare DEF OptionsOfClass, ClassDeclares
  <2>4. Wanted(slot) = {} \/ Visited(slot[1]) \cap Needs(slot) = {}
    BY <1>4 DEF Settled
  <2>5. CASE now = <<>> /\ \A rule \in Range(rules) : ~Wraps(rule, w, slot, <<>>)
    <3> SUFFICES ASSUME NEW s \in Wanted(slot), (Visited(slot[1]) \cup {next}) \cap Needs(slot) # {}
                 PROVE  FALSE
      BY <2>5
    <3>1. next \in Needs(slot)
      BY <2>4
    <3>2. <<"fetch">> \notin Wanted(slot)
      <4> SUFFICES ASSUME <<"fetch">> \in Wanted(slot) PROVE FALSE
        OBVIOUS
      <4>1. next \in ByClass(slot[1])
        BY <3>1 DEF Needs
      <4>2. Registered("FeignMetadataExplorer") # {} /\ Fetching(slot) # {}
        BY NoFetchElsewhere
      <4> QED
        BY <2>1, <4>1, <4>2, FetchWanted DEF ByClass, ClassDeclares, ExploredBy
    <3>3. \A key : Has(MetadataOf(MethodAt(slot).decorators, <<>>), key) <=> Declares(slot, key)
      BY NoMetadata DEF Declares
    <3>4. \A name : \A rule \in Registered(name) :
            rule \in Range(rules) /\ Is(rule, name) /\ ~Wraps(rule, w, slot, <<>>)
      BY <2>5 DEF Registered
    <3>5. CASE Registered("CacheableMetadataExplorer") # {} /\ s \in Caching(slot)
      <4>1. \E key \in {"CACHE_EVICT", "CACHE_PUT", "CACHEABLE"} : Declares(slot, key)
        BY <3>5 DEF Caching
      <4> QED
        BY <3>3, <3>4, <3>5, <4>1 DEF Wraps
    <3>6. CASE /\ \E r \in Registered("DistributionLockMetadataExplorer") : ServicesOf(r) # <<>>
               /\ Declares(slot, "LOCK")
      BY <3>3, <3>4, <3>6 DEF Wraps
    <3>7. CASE Registered("TransactionalMetadataExplorer") # {} /\ s \in InTransactions(slot)
      <4>1. CASE DeclaredTransactional(slot)
        <5>1. Adapted
          BY <3>7, <4>1, TransactionsWanted
        <5>2. PICK rule \in Registered("TransactionalMetadataExplorer") : ServicesOf(rule) # <<>>
          BY <5>1 DEF Adapted
        <5>3. OfClass(rule, w) # <<>> <=> OptionsOfClass(w)
          BY <1>1, OfClassKnown
        <5>4. ~Declares(slot, "TRANSACTIONAL") /\ ~OptionsOfClass(w)
          BY <3>3, <3>4, <4>1, <5>2, <5>3 DEF Wraps, DeclaredTransactional
        <5>5. Visited(slot[1]) \cap Needs(slot) # {}
          BY <2>2, <4>1, <5>4 DEF DeclaredTransactional
        <5> QED
          BY <2>4, <5>5
      <4>2. CASE ~DeclaredTransactional(slot)
        <5>1. Publishing(slot)
          BY <3>7, <4>2, TransactionsWanted
        <5>2. ~Declares(slot, "TRANSACTIONAL") /\ ~OptionsOfClass(w)
          BY <2>3, <4>2, <5>1 DEF DeclaredTransactional, Publishing
        <5>3. PICK rule \in Registered("TransactionalMetadataExplorer") : TRUE
          BY <3>7
        <5>4. OfClass(rule, w) = <<>>
          BY <1>1, <5>2, OfClassKnown
        <5> QED
          BY <3>3, <3>4, <5>1, <5>2, <5>4 DEF Wraps, Publishing
      <4> QED
        BY <4>1, <4>2
    <3>8. CASE Registered("FeignMetadataExplorer") # {} /\ s \in Fetching(slot)
      BY <3>2, <3>8, FetchWanted, NoFetchElsewhere
    <3> QED
      BY <3>5, <3>6, <3>7, <3>8, WantedParts
  <2>6. CASE /\ Registered("CacheableMetadataExplorer") # {}
             /\ \E by \in {"evict", "put", "cacheable"} : \E options :
                  <<by>> \in Caching(slot) /\ now = Wrapper(by, options) \o <<>>
    <3>1. PICK by \in {"evict", "put", "cacheable"} : \E options :
            <<by>> \in Caching(slot) /\ now = Wrapper(by, options) \o <<>>
      BY <2>6
    <3>2. PICK options : now = Wrapper(by, options) \o <<>>
      BY <3>1
    <3>3. <<by>> \in Wanted(slot)
      BY <2>6, <3>1, WantedParts
    <3> DEFINE x == Wrapper(by, options) \o <<>>
    <3>4. Order(x) = <<by>> /\ x # <<>>
      BY OrderOfOne
    <3> HIDE DEF x
    <3>5. now = x
      BY <3>2 DEF x
    <3> QED
      BY <3>3, <3>4, <3>5
  <2>7. CASE /\ \E r \in Registered("DistributionLockMetadataExplorer") : ServicesOf(r) # <<>>
             /\ Declares(slot, "LOCK")
             /\ \E options : now = Wrapper("lock", options) \o <<>>
    <3>1. PICK options : now = Wrapper("lock", options) \o <<>>
      BY <2>7
    <3>2. Order(now) = <<"lock">> /\ now # <<>>
      <4> DEFINE x == Wrapper("lock", options) \o <<>>
      <4>1. Order(x) = <<"lock">> /\ x # <<>>
        BY OrderOfOne
      <4> QED
        BY <3>1, <4>1
    <3> QED
      BY <2>7, <3>2, WantedParts
  <2>8. CASE /\ Registered("TransactionalMetadataExplorer") # {}
             /\ ~OptionsOfClass(w) /\ ~Declares(slot, "TRANSACTIONAL") /\ Publishing(slot)
             /\ \E options : now = Wrapper("event", options) \o <<>>
    <3>1. ~DeclaredTransactional(slot)
      <4> SUFFICES ASSUME DeclaredTransactional(slot) PROVE FALSE
        OBVIOUS
      <4>1. Adapted /\ Visited(slot[1]) \cap Needs(slot) # {}
        BY <2>2, <2>8 DEF DeclaredTransactional
      <4>2. InTransactions(slot) # {}
        BY <4>1, TransactionsWanted
      <4>3. Wanted(slot) # {}
        BY <4>2, <2>8, WantedParts
      <4> QED
        BY <2>4, <4>1, <4>3
    <3>2. <<"event">> \in Wanted(slot)
      BY <2>8, <3>1, TransactionsWanted, WantedParts
    <3>3. PICK options : now = Wrapper("event", options) \o <<>>
      BY <2>8
    <3>4. Order(now) = <<"event">> /\ now # <<>>
      <4> DEFINE x == Wrapper("event", options) \o <<>>
      <4>1. Order(x) = <<"event">> /\ x # <<>>
        BY OrderOfOne
      <4> QED
        BY <3>3, <4>1
    <3> QED
      BY <3>2, <3>4
  <2>9. CASE /\ Adapted
             /\ OptionsOfClass(w) \/ Declares(slot, "TRANSACTIONAL")
             /\ ~Declares(slot, "NO_TRANSACTIONAL")
             /\ \E options, event :
                  now = Wrapper("transaction", options)
                          \o (IF Publishing(slot) THEN Wrapper("event", event) \o <<>> ELSE <<>>)
    <3>1. DeclaredTransactional(slot)
      BY <2>3, <2>9 DEF DeclaredTransactional
    <3>2. \A s \in InTransactions(slot) : s \in Wanted(slot)
      BY <2>9, WantedParts, AdaptedIsRegistered
    <3>3. PICK options, event :
            now = Wrapper("transaction", options)
                    \o (IF Publishing(slot) THEN Wrapper("event", event) \o <<>> ELSE <<>>)
      BY <2>9
    <3>4. CASE Publishing(slot)
      <4>0. now = Wrapper("transaction", options) \o (Wrapper("event", event) \o <<>>)
        BY <3>3, <3>4
      <4>1. Order(now) = <<"transaction", "event">> /\ now # <<>>
        <5> HIDE DEF ref, fetches
        <5> DEFINE x == Wrapper("transaction", options) \o (Wrapper("event", event) \o <<>>)
        <5>1. Order(x) = <<"transaction", "event">> /\ x # <<>>
          BY OrderOfTwo
        <5> QED
          BY <4>0, <5>1
      <4>2. <<"transaction", "event">> \in InTransactions(slot)
        BY <2>9, <3>1, <3>4, TransactionsWanted
      <4> QED
        BY <3>2, <4>1, <4>2
    <3>5. CASE ~Publishing(slot)
      <4>0. now = Wrapper("transaction", options) \o <<>>
        BY <3>3, <3>5
      <4>1. Order(now) = <<"transaction">> /\ now # <<>>
        <5> DEFINE x == Wrapper("transaction", options) \o <<>>
        <5>1. Order(x) = <<"transaction">> /\ x # <<>>
          BY OrderOfOne
        <5> QED
          BY <4>0, <5>1
      <4>2. <<"transaction">> \in InTransactions(slot)
        BY <2>9, <3>1, <3>5, TransactionsWanted
      <4> QED
        BY <3>2, <4>1, <4>2
    <3> QED
      BY <3>4, <3>5
  <2>10. Outcomes(w, slot, <<>>, now)
    BY <1>1, <1>4, Outcome
  <2> HIDE DEF ref, fetches
  <2> QED
    BY <2>5, <2>6, <2>7, <2>8, <2>9, <2>10 DEF Outcomes
<1> QED
  BY <1>2, <1>3, <1>4

(* The shape of the wrappers stays.                                        *)
LEMMA WrappersStep ==
  ASSUME NEW w, ExploredBy(w), NEW slot, slot[1] = w.object, WrappersOk(slot, impl[slot]),
         NEW now, now = Decorated(w, slot, FetchOnProvider(w, slot, impl[slot]))
  PROVE  /\ IsSequence(now)
         /\ \A i \in DOMAIN now :
              /\ now[i].by \in WrapperNames
              /\ now[i].by = "transaction" => now[i].options.service \in Adapters
         /\ LateClass(slot) \/ Tidy(now)
<1> DEFINE ref == FetchOnProvider(w, slot, impl[slot])
           Typed(x) == \A i \in DOMAIN x :
                         /\ x[i].by \in WrapperNames
                         /\ x[i].by = "transaction" => x[i].options.service \in Adapters
<1>1. ControlInv /\ Outcomes(w, slot, ref, now)
  BY Outcome DEF ExploredBy
<1>2. /\ IsSequence(ref) /\ Typed(ref)
      /\ LateClass(slot) \/ Tidy(ref)
      /\ ref = impl[slot] \/ (Len(ref) = 1 /\ ref[1].by = "fetch")
  <2>1. CASE ref = impl[slot]
    BY <2>1 DEF WrappersOk
  <2>2. CASE \E options : ref = Wrapper("fetch", options) \o <<>>
    <3>1. PICK options : ref = Wrapper("fetch", options) \o <<>>
      BY <2>2
    <3> HIDE DEF ref
    <3>2. /\ IsSequence(ref) /\ Len(ref) = 1 /\ DOMAIN ref = {1}
          /\ ref[1] = [by |-> "fetch", options |-> options]
      BY <3>1, OrderOfOne
    <3> QED
      BY <3>2 DEF Tidy, WrapperNames
  <2> QED
    BY <2>1, <2>2, FetchCases
<1>3. OptionsOfClass(w) /\ ~LateClass(slot) /\ ref # <<>> => Len(ref) = 1 /\ ref[1].by = "fetch"
  BY <1>2, ClassAfterAlias DEF WrappersOk
<1> HIDE DEF ref
<1>4. CASE now = ref
  BY <1>2, <1>4
<1>5. CASE /\ ref # <<>> /\ OptionsOfClass(w)
           /\ \E options : options.service \in Adapters /\ now = Wrapper("transaction", options) \o ref
  <2>1. PICK options : options.service \in Adapters /\ now = Wrapper("transaction", options) \o ref
    BY <1>5
  <2> DEFINE x == [by |-> "transaction", options |-> options]
  <2>2. /\ IsSequence(now) /\ Len(now) = Len(ref) + 1 /\ Len(ref) \in Nat
        /\ now[1] = x /\ \A i \in 1 .. Len(ref) : now[i + 1] = ref[i]
        /\ DOMAIN now = 1 .. Len(ref) + 1 /\ DOMAIN ref = 1 .. Len(ref)
    BY <2>1, <1>2, Prepend DEF Wrapper
  <2>3. Typed(now)
    <3> SUFFICES ASSUME NEW i \in DOMAIN now
                 PROVE  /\ now[i].by \in WrapperNames
                        /\ now[i].by = "transaction" => now[i].options.service \in Adapters
      OBVIOUS
    <3>1. CASE i = 1
      BY <2>1, <2>2, <3>1 DEF WrapperNames
    <3>2. CASE i # 1
      <4>1. i - 1 \in 1 .. Len(ref) /\ now[i - 1 + 1] = ref[i - 1] /\ i - 1 + 1 = i
        BY <2>2, <3>2
      <4> QED
        BY <4>1, <1>2, <2>2
    <3> QED
      BY <3>1, <3>2
  <2>4. LateClass(slot) \/ Tidy(now)
    <3> SUFFICES ASSUME ~LateClass(slot) PROVE Tidy(now)
      OBVIOUS
    <3>1. Len(ref) = 1 /\ ref[1].by = "fetch"
      BY <1>3, <1>5
    <3>2. Len(now) = 2 /\ now[1].by = "transaction" /\ now[2] = ref[1]
      <4>1. 1 \in 1 .. Len(ref) /\ 1 + 1 = 2
        BY <3>1
      <4> QED
        BY <2>2, <3>1, <4>1
    <3> QED
      BY <3>1, <3>2 DEF Tidy
  <2> QED
    BY <2>2, <2>3, <2>4
<1>6. CASE \E by \in {"cacheable", "put", "evict", "lock", "event"} :
             \E options : now = Wrapper(by, options) \o <<>>
  <2>0. PICK by \in {"cacheable", "put", "evict", "lock", "event"} :
          \E options : now = Wrapper(by, options) \o <<>>
    BY <1>6
  <2>1. PICK options : now = Wrapper(by, options) \o <<>>
    BY <2>0
  <2>2. IsSequence(now) /\ Len(now) = 1 /\ DOMAIN now = {1} /\ now[1] = [by |-> by, options |-> options]
    BY <2>1, OrderOfOne
  <2> QED
    BY <2>2 DEF Tidy, WrapperNames
<1>7. CASE \E options, event :
             /\ options.service \in Adapters /\ ~event.bound
             /\ now = Wrapper("transaction", options)
                        \o (IF Publishing(slot) THEN Wrapper("event", event) \o <<>> ELSE <<>>)
  <2>1. PICK options, event :
          /\ options.service \in Adapters /\ ~event.bound
          /\ now = Wrapper("transaction", options)
                     \o (IF Publishing(slot) THEN Wrapper("event", event) \o <<>> ELSE <<>>)
    BY <1>7
  <2>2. CASE Publishing(slot)
    <3>1. now = Wrapper("transaction", options) \o (Wrapper("event", event) \o <<>>)
      BY <2>1, <2>2
    <3>2. /\ IsSequence(now) /\ Len(now) = 2 /\ DOMAIN now = {1, 2}
          /\ now[1] = [by |-> "transaction", options |-> options] /\ now[2] = [by |-> "event", options |-> event]
      <4> DEFINE x == Wrapper("transaction", options) \o (Wrapper("event", event) \o <<>>)
      <4>1. /\ IsSequence(x) /\ Len(x) = 2 /\ DOMAIN x = {1, 2}
            /\ x[1] = [by |-> "transaction", options |-> options] /\ x[2] = [by |-> "event", options |-> event]
        BY OrderOfTwo
      <4> QED
        BY <3>1, <4>1
    <3> QED
      BY <2>1, <3>2 DEF Tidy, WrapperNames
  <2>3. CASE ~Publishing(slot)
    <3>1. now = Wrapper("transaction", options) \o <<>>
      BY <2>1, <2>3
    <3>2. /\ IsSequence(now) /\ Len(now) = 1 /\ DOMAIN now = {1}
          /\ now[1] = [by |-> "transaction", options |-> options]
      BY <3>1, OrderOfOne
    <3> QED
      BY <2>1, <3>2 DEF Tidy, WrapperNames
  <2> QED
    BY <2>2, <2>3
<1> QED
  BY <1>1, <1>4, <1>5, <1>6, <1>7 DEF Outcomes

-----------------------------------------------------------------------------
(* What the engine leaves alone: an application and its explorers.          *)
LEMMA Kept ==
  ASSUME container' = container, rules' = rules
  PROVE  /\ \A name : Registered(name)' = Registered(name)
         /\ \A rule : ServicesOf(rule)' = ServicesOf(rule)
         /\ \A o : EntriesOf(o)' = EntriesOf(o) /\ ByClass(o)' = ByClass(o) /\ SlotsOf(o)' = SlotsOf(o)
         /\ \A slot, key : /\ Declares(slot, key)' <=> Declares(slot, key)
                           /\ ClassDeclares(slot, key)' <=> ClassDeclares(slot, key)
         /\ (Adapted' <=> Adapted) /\ Adapters' = Adapters /\ AllSlots' = AllSlots
<1>1. \A name : Registered(name)' = Registered(name)
  BY DEF Registered, Is
<1>2. \A rule : ServicesOf(rule)' = ServicesOf(rule)
  BY DEF ServicesOf
<1>3. \A o : EntriesOf(o)' = EntriesOf(o) /\ ByClass(o)' = ByClass(o) /\ SlotsOf(o)' = SlotsOf(o)
  BY DEF EntriesOf, ByClass, SlotsOf
<1>4. \A slot, key : /\ Declares(slot, key)' <=> Declares(slot, key)
                     /\ ClassDeclares(slot, key)' <=> ClassDeclares(slot, key)
  BY DEF Declares, ClassDeclares, MethodAt
<1>5. (Adapted' <=> Adapted) /\ Adapters' = Adapters
  BY <1>1, <1>2 DEF Adapted, Adapters
<1>6. AllSlots' = AllSlots
  BY DEF AllSlots, SlotsOf
<1> QED
  BY <1>1, <1>2, <1>3, <1>4, <1>5, <1>6

LEMMA StillWanted ==
  ASSUME container' = container, rules' = rules, NEW slot
  PROVE  /\ Wanted(slot)' = Wanted(slot) /\ Needs(slot)' = Needs(slot)
         /\ (Excepted(slot)' <=> Excepted(slot)) /\ (LateClass(slot)' <=> LateClass(slot))
         /\ (OneFeature(slot)' <=> OneFeature(slot))
<1>1. AliasFirst(slot[1])' <=> AliasFirst(slot[1])
  BY Kept DEF AliasFirst
<1>2. Fetching(slot)' = Fetching(slot)
  BY Kept DEF Fetching
<1>3. Caching(slot)' = Caching(slot) /\ Guarding(slot)' = Guarding(slot)
  BY Kept DEF Caching, Guarding
<1>4. InTransactions(slot)' = InTransactions(slot)
  <2>1. /\ DeclaredTransactional(slot)' <=> DeclaredTransactional(slot)
        /\ Publishing(slot)' <=> Publishing(slot)
    BY Kept DEF DeclaredTransactional, Publishing
  <2> QED
    BY <2>1, Kept DEF InTransactions
<1>5. Wanted(slot)' = Wanted(slot)
  BY <1>2, <1>3, <1>4, Kept DEF Wanted
<1>6. Excepted(slot)' <=> Excepted(slot)
  BY <1>1, <1>2, Kept DEF Excepted
<1> QED
  BY <1>1, <1>5, <1>6, Kept DEF Needs, LateClass, OneFeature

FoundInv == MethodsInv /\ ListenersInv /\ InterceptorsInv
(* A step that adds no way to an object, and nothing to what was found.    *)
LEMMA FoundKept ==
  ASSUME FoundInv, container' = container, rules' = rules, found' = found,
         \A o : Visited(o)' = Visited(o)
  PROVE  FoundInv'
<1>0. impl' = impl /\ listeners' = listeners /\ interceptors' = interceptors
  BY DEF found
<1>1. MethodsInv'
  <2> SUFFICES ASSUME NEW slot \in DOMAIN impl
               PROVE  /\ WrappersOk(slot, impl[slot])'
                      /\ (~Excepted(slot) /\ OneFeature(slot) => Settled(slot))'
    BY <1>0 DEF MethodsInv
  <2>1. WrappersOk(slot, impl[slot]) /\ (~Excepted(slot) /\ OneFeature(slot) => Settled(slot))
    BY DEF FoundInv, MethodsInv
  <2>2. WrappersOk(slot, impl[slot])'
    BY <2>1, <1>0, Kept, StillWanted DEF WrappersOk
  <2>3. (~Excepted(slot) /\ OneFeature(slot) => Settled(slot))'
    BY <2>1, <1>0, Kept, StillWanted DEF Settled
  <2> QED
    BY <2>2, <2>3
<1>2. ListenersInv'
  BY <1>0, Kept, StillWanted DEF FoundInv, ListenersInv, Times
<1>3. InterceptorsInv'
  BY <1>0 DEF FoundInv, InterceptorsInv
<1> QED
  BY <1>1, <1>2, <1>3 DEF FoundInv

(* Before the engine explores, nothing is found.                           *)
LEMMA NothingVisited == ASSUME ControlInv, next = 1 PROVE \A o : Visited(o) = {}
<1>1. DOMAIN container.providers = 1 .. Len(container.providers) /\ Len(container.providers) \in Nat
  BY AnApplication DEF IsApplication
<1>2. \A o : \A i \in EntriesOf(o) : i \in Nat /\ i >= 1
  BY <1>1 DEF EntriesOf
<1> QED
  BY <1>2 DEF Visited

LEMMA VisitedIsFinite ==
  ASSUME ControlInv, NEW o
  PROVE  IsFiniteSet(EntriesOf(o)) /\ IsFiniteSet(Visited(o))
         /\ Cardinality(EntriesOf(o)) \in Nat /\ Cardinality(Visited(o)) \in Nat
<1>1. DOMAIN container.providers = 1 .. Len(container.providers) /\ Len(container.providers) \in Nat
  BY AnApplication DEF IsApplication
<1>2. IsFiniteSet(1 .. Len(container.providers))
  BY <1>1, FS_Interval
<1>3. EntriesOf(o) \subseteq 1 .. Len(container.providers)
  BY <1>1 DEF EntriesOf
<1>4. IsFiniteSet(EntriesOf(o))
  BY <1>2, <1>3, FS_Subset
<1>5. Visited(o) \subseteq EntriesOf(o)
  BY DEF Visited
<1> QED
  BY <1>4, <1>5, FS_Subset, FS_CardinalityType
NothingFound ==
  /\ ControlInv /\ next = 1
  /\ \A slot \in DOMAIN impl : impl[slot] = <<>>
  /\ listeners = Nobody /\ interceptors = Nobody
LEMMA BeforeExploring == NothingFound => FoundInv
<1> SUFFICES ASSUME NothingFound PROVE FoundInv
  OBVIOUS
<1>1. \A o : Visited(o) = {}
  BY NothingVisited DEF NothingFound
<1>2. MethodsInv
  <2>1. \A slot \in DOMAIN impl : impl[slot] = <<>>
    BY DEF NothingFound
  <2>2. \A slot : WrappersOk(slot, <<>>)
    BY Bottom DEF WrappersOk, Tidy
  <2>3. \A slot \in DOMAIN impl : Settled(slot)
    BY <1>1, <2>1 DEF Settled
  <2> QED
    BY <2>1, <2>2, <2>3 DEF MethodsInv
<1>3. ListenersInv
  <2>1. DOMAIN listeners = {} /\ IsABag(listeners)
    BY DEF NothingFound, Nobody, EmptyBag, SetToBag, IsABag
  <2>2. \A x : Times(x) = 0
    BY <2>1 DEF Times, BagIn, BagToSet
  <2>3. Cardinality({}) = 0
    BY FS_EmptySet
  <2> QED
    BY <1>1, <2>1, <2>2, <2>3 DEF ListenersInv
<1>4. InterceptorsInv
  <2>1. DOMAIN interceptors = {}
    BY DEF NothingFound, Nobody, EmptyBag, SetToBag
  <2> QED
    BY <2>1 DEF InterceptorsInv
<1> QED
  BY <1>2, <1>3, <1>4 DEF FoundInv

LEMMA BeforeExploringNext == NothingFound' => FoundInv'
  BY BeforeExploring, PTL

(* An exploration is one more way to its object, and to no other.          *)
Explores(w) == ExploredBy(w) /\ Explore
LEMMA ExploreIs ==
  ASSUME BootstrapInv, Explore
  PROVE  /\ Explores(container.providers[next])
         /\ container' = container /\ rules' = rules /\ DOMAIN impl = AllSlots
<1>1. ControlInv /\ phase = "exploring" /\ next <= Len(container.providers)
  BY DEF BootstrapInv, Explore, Advance
<1>2. DOMAIN container.providers = 1 .. Len(container.providers) /\ Len(container.providers) \in Nat
  BY <1>1, AnApplication DEF IsApplication
<1>3. next \in DOMAIN container.providers
  BY <1>1, <1>2 DEF ControlInv
<1>4. container.providers[next].explored /\ container' = container /\ rules' = rules
  BY DEF Explore, Advance
<1> QED
  BY <1>1, <1>3, <1>4 DEF Explores, ExploredBy, ControlInv

LEMMA OneMoreWay ==
  ASSUME NEW w, Explores(w), NEW o
  PROVE  /\ o = w.object => Visited(o)' = Visited(o) \cup {next}
         /\ o # w.object => Visited(o)' = Visited(o)
<1>1. /\ next \in DOMAIN container.providers /\ w = container.providers[next] /\ w.explored
      /\ next' = next + 1 /\ container' = container /\ rules' = rules /\ ControlInv
  BY DEF Explores, ExploredBy, Explore, Advance
<1>2. DOMAIN container.providers \in SUBSET Nat
  BY <1>1, AnApplication DEF IsApplication
<1>3. EntriesOf(o)' = EntriesOf(o) /\ EntriesOf(o) \in SUBSET Nat /\ next \in Nat
  BY <1>1, <1>2, Kept DEF EntriesOf
<1>4. next \in EntriesOf(o) <=> o = w.object
  BY <1>1 DEF EntriesOf
<1>5. \A i \in Nat : i < next + 1 <=> i < next \/ i = next
  BY <1>3
<1> QED
  BY <1>1, <1>3, <1>4, <1>5 DEF Visited

LEMMA WhatBecomes ==
  ASSUME BootstrapInv, NEW w, w = container.providers[next], Explore, NEW slot \in DOMAIN impl'
  PROVE  /\ slot \in DOMAIN impl
         /\ slot[1] = w.object =>
              impl'[slot] = Decorated(w, slot, FetchOnProvider(w, slot, impl[slot]))
         /\ slot[1] # w.object => impl'[slot] = impl[slot]
<1> DEFINE own == SlotsOf(w.object)
           refs == [s \in own |-> FetchOnProvider(w, s, impl[s])]
<1>1. impl' = [s \in DOMAIN impl |-> IF s \in own THEN Decorated(w, s, refs[s]) ELSE impl[s]]
  BY DEF Explore
<1>2. DOMAIN impl = AllSlots
  BY ExploreIs
<1>3. slot \in own <=> slot[1] = w.object
  <2>1. slot \in AllSlots
    BY <1>1, <1>2
  <2> QED
    BY <2>1 DEF AllSlots, SlotsOf
<1>4. slot \in own => refs[slot] = FetchOnProvider(w, slot, impl[slot])
  OBVIOUS
<1> HIDE DEF own, refs
<1> QED
  BY <1>1, <1>3, <1>4

(* Explore keeps each part of the invariant.                               *)
LEMMA ExploreMethods ==
  ASSUME BootstrapInv, Explore
  PROVE  MethodsInv'
<1> DEFINE w == container.providers[next]
<1>1. Explores(w) /\ ExploredBy(w) /\ container' = container /\ rules' = rules /\ MethodsInv
  BY ExploreIs DEF Explores, BootstrapInv
<1>2. SUFFICES ASSUME NEW slot \in DOMAIN impl'
               PROVE  /\ WrappersOk(slot, impl[slot])'
                      /\ (~Excepted(slot) /\ OneFeature(slot) => Settled(slot))'
  BY DEF MethodsInv
<1>3. /\ slot \in DOMAIN impl /\ WrappersOk(slot, impl[slot])
      /\ ~Excepted(slot) /\ OneFeature(slot) => Settled(slot)
  BY <1>1, WhatBecomes DEF MethodsInv
<1> DEFINE now == impl'[slot]
<1>4. CASE slot[1] # w.object
  <2>1. now = impl[slot] /\ Visited(slot[1])' = Visited(slot[1])
    BY <1>1, <1>4, OneMoreWay, WhatBecomes
  <2>2. WrappersOk(slot, impl[slot])'
    BY <2>1, <1>1, <1>3, Kept, StillWanted DEF WrappersOk
  <2>3. (~Excepted(slot) /\ OneFeature(slot) => Settled(slot))'
    BY <2>1, <1>1, <1>3, Kept, StillWanted DEF Settled
  <2> QED
    BY <2>2, <2>3
<1>5. CASE slot[1] = w.object
  <2>1. now = Decorated(w, slot, FetchOnProvider(w, slot, impl[slot]))
    BY <1>5, WhatBecomes
  <2>2. Visited(slot[1])' = Visited(slot[1]) \cup {next}
    BY <1>1, <1>5, OneMoreWay
  <2> HIDE DEF w
  <2>3. /\ IsSequence(now)
        /\ \A i \in DOMAIN now :
             /\ now[i].by \in WrapperNames
             /\ now[i].by = "transaction" => now[i].options.service \in Adapters
        /\ LateClass(slot) \/ Tidy(now)
    BY <2>1, <1>1, <1>3, <1>5, WrappersStep
  <2>4. WrappersOk(slot, impl[slot])'
    <3>1. Visited(slot[1])' # {}
      BY <2>2
    <3>2. Adapters' = Adapters /\ (LateClass(slot)' <=> LateClass(slot))
      BY <1>1, Kept, StillWanted
    <3> HIDE DEF now
    <3>3. now = impl'[slot]
      BY DEF now
    <3> QED
      BY <2>3, <3>1, <3>2, <3>3 DEF WrappersOk
  <2>5. (~Excepted(slot) /\ OneFeature(slot) => Settled(slot))'
    <3>1. SUFFICES ASSUME ~Excepted(slot), OneFeature(slot) PROVE Settled(slot)'
      BY <1>1, StillWanted
    <3>2. /\ now # <<>> => Order(now) \in Wanted(slot)
          /\ Wanted(slot) # {} /\ (Visited(slot[1]) \cup {next}) \cap Needs(slot) # {} => now # <<>>
      BY <2>1, <1>1, <1>3, <1>5, <3>1, SettledStep DEF WrappersOk
    <3> QED
      BY <3>2, <2>2, <1>1, StillWanted DEF Settled
  <2> QED
    BY <2>4, <2>5
<1> QED
  BY <1>4, <1>5

LEMMA OneMore ==
  ASSUME IsABag(listeners), NEW S, listeners' = listeners (+) SetToBag(S)
  PROVE  /\ IsABag(listeners)'
         /\ \A x : Times(x)' = Times(x) + (IF x \in S THEN 1 ELSE 0) /\ Times(x) \in Nat
<1>1. /\ DOMAIN listeners' = DOMAIN listeners \cup S
      /\ \A x \in DOMAIN listeners \cup S :
           listeners'[x] = (IF x \in DOMAIN listeners THEN listeners[x] ELSE 0) + (IF x \in S THEN 1 ELSE 0)
      /\ listeners' = [x \in DOMAIN listeners \cup S |-> listeners'[x]]
  BY DEF (+), SetToBag
<1>2. \A x \in DOMAIN listeners : listeners[x] \in Nat /\ listeners[x] > 0
  BY DEF IsABag
<1>3. \A x \in DOMAIN listeners' : listeners'[x] \in Nat /\ listeners'[x] > 0
  BY <1>1, <1>2
<1>4. IsABag(listeners)'
  BY <1>1, <1>3 DEF IsABag
<1>5. \A x : Times(x)' = Times(x) + (IF x \in S THEN 1 ELSE 0) /\ Times(x) \in Nat
  BY <1>1, <1>2 DEF Times, BagIn, BagToSet
<1> QED
  BY <1>4, <1>5

LEMMA ExploreListeners ==
  ASSUME BootstrapInv, Explore
  PROVE  ListenersInv'
<1> DEFINE w == container.providers[next]
           own == SlotsOf(w.object)
           refs == [s \in own |-> FetchOnProvider(w, s, impl[s])]
<1>1. /\ Explores(w) /\ ExploredBy(w) /\ ControlInv /\ container' = container /\ rules' = rules
      /\ MethodsInv /\ ListenersInv /\ DOMAIN impl = AllSlots
  BY ExploreIs DEF Explores, BootstrapInv
<1>2. listeners' = listeners (+) SetToBag(ListenersOf(w, refs))
  BY DEF Explore
<1>3. /\ IsABag(listeners)'
      /\ \A x : Times(x)' = Times(x) + (IF x \in ListenersOf(w, refs) THEN 1 ELSE 0) /\ Times(x) \in Nat
  BY <1>1, <1>2, OneMore DEF ListenersInv
<1>4. SUFFICES ASSUME NEW r \in Registered("TransactionalMetadataExplorer"), NEW slot \in DOMAIN impl
               PROVE  /\ Times(<<r, slot>>)' <= Cardinality(Visited(slot[1])')
                      /\ Times(<<r, slot>>)' > 0 => Declares(slot, "LISTENER")
                      /\ Declares(slot, "LISTENER") /\ Visited(slot[1])' # {} /\ <<"fetch">> \notin Wanted(slot)
                           => Times(<<r, slot>>)' > 0
  <2>1. DOMAIN impl' = DOMAIN impl
    BY DEF Explore
  <2> HIDE DEF w, own, refs
  <2> QED
    BY <2>1, <1>1, <1>3, <1>4, Kept, StillWanted DEF ListenersInv
<1>5. /\ Times(<<r, slot>>) <= Cardinality(Visited(slot[1])) /\ Times(<<r, slot>>) \in Nat
      /\ Times(<<r, slot>>) > 0 => Declares(slot, "LISTENER")
      /\ Declares(slot, "LISTENER") /\ Visited(slot[1]) # {} /\ <<"fetch">> \notin Wanted(slot)
           => Times(<<r, slot>>) > 0
  BY <1>1, <1>3 DEF ListenersInv
<1>6. <<r, slot>> \in ListenersOf(w, refs) <=>
        slot \in own /\ Has(MetadataOf(MethodAt(slot).decorators, refs[slot]), "LISTENER")
  <2> HIDE DEF refs
  <2> QED
    BY DEF ListenersOf
<1>7. slot \in own <=> slot[1] = w.object
  BY <1>1 DEF AllSlots, SlotsOf
<1>8. CASE slot[1] # w.object
  <2>1. Visited(slot[1])' = Visited(slot[1])
    BY <1>1, <1>8, OneMoreWay
  <2>2. Times(<<r, slot>>)' = Times(<<r, slot>>)
    BY <1>3, <1>5, <1>6, <1>7, <1>8
  <2> QED
    BY <2>1, <2>2, <1>5
<1>9. CASE slot[1] = w.object
  <2> DEFINE ref == FetchOnProvider(w, slot, impl[slot])
             added == IF <<r, slot>> \in ListenersOf(w, refs) THEN 1 ELSE 0
  <2>1. refs[slot] = ref
    BY <1>7, <1>9
  <2>2. added \in {0, 1} /\ Times(<<r, slot>>)' = Times(<<r, slot>>) + added
    BY <1>3
  <2>3. added = 1 <=> Has(MetadataOf(MethodAt(slot).decorators, ref), "LISTENER")
    BY <2>1, <1>6, <1>7, <1>9
  <2>4. added = 1 => Declares(slot, "LISTENER")
    BY <2>3, NoMetadata DEF Declares
  <2>5. ref = <<>> /\ Declares(slot, "LISTENER") => added = 1
    BY <2>3, NoMetadata DEF Declares
  <2>6. Visited(slot[1]) = {} /\ <<"fetch">> \notin Wanted(slot) => ref = <<>>
    <3> SUFFICES ASSUME Visited(slot[1]) = {}, <<"fetch">> \notin Wanted(slot) PROVE ref = <<>>
      OBVIOUS
    <3>1. impl[slot] = <<>>
      BY <1>1 DEF MethodsInv, WrappersOk
    <3>2. ~ /\ Registered("FeignMetadataExplorer") # {} /\ Declares(slot, "FEIGN_METHOD")
            /\ Has(Metadata(w.metatype.decorators), "FEIGN_CLIENT")
      <4> SUFFICES ASSUME Registered("FeignMetadataExplorer") # {}, Declares(slot, "FEIGN_METHOD"),
                          Has(Metadata(w.metatype.decorators), "FEIGN_CLIENT")
                   PROVE  FALSE
        OBVIOUS
      <4> HIDE DEF w
      <4>1. ~Bare(w.metatype)
        BY NotBare
      <4>2. ClassDeclares(slot, "FEIGN_CLIENT") /\ ByClass(slot[1]) # {}
        BY <4>1, <1>1, <1>9, TheWay DEF ClassDeclares
      <4> QED
        BY <4>2, FetchWanted, NoFetchElsewhere
    <3> QED
      BY <3>1, <3>2, FetchCases
  <2>7. Cardinality(Visited(slot[1])') = Cardinality(Visited(slot[1])) + 1
        /\ Cardinality(Visited(slot[1])) \in Nat /\ Visited(slot[1])' # {}
    <3>1. next \notin Visited(slot[1]) /\ IsFiniteSet(Visited(slot[1]))
      BY <1>1, <1>9, TheWay, VisitedIsFinite
    <3>2. Visited(slot[1])' = Visited(slot[1]) \cup {next}
      BY <1>1, <1>9, OneMoreWay
    <3> QED
      BY <3>1, <3>2, FS_AddElement, FS_CardinalityType
  <2> HIDE DEF added, ref, w, own, refs
  <2>8. Times(<<r, slot>>)' <= Cardinality(Visited(slot[1])')
    BY <2>2, <2>7, <1>5
  <2>9. Times(<<r, slot>>)' > 0 => Declares(slot, "LISTENER")
    BY <2>2, <2>4, <1>5
  <2>10. ASSUME Declares(slot, "LISTENER"), <<"fetch">> \notin Wanted(slot) PROVE Times(<<r, slot>>)' > 0
    <3>1. CASE Visited(slot[1]) = {}
      <4>1. added = 1
        BY <2>5, <2>6, <2>10, <3>1
      <4> QED
        BY <2>2, <1>5, <4>1
    <3>2. CASE Visited(slot[1]) # {}
      <4>1. Times(<<r, slot>>) > 0
        BY <1>5, <2>10, <3>2
      <4> QED
        BY <2>2, <1>5, <4>1
    <3> QED
      BY <3>1, <3>2
  <2> QED
    BY <2>8, <2>9, <2>10
<1> QED
  BY <1>8, <1>9

LEMMA ExploreInterceptors ==
  ASSUME BootstrapInv, Explore
  PROVE  InterceptorsInv'
<1> DEFINE w == container.providers[next]
           more == InterceptorsOf(w)
<1>1. /\ Explores(w) /\ ExploredBy(w) /\ ControlInv /\ container' = container /\ rules' = rules
      /\ InterceptorsInv
  BY ExploreIs DEF Explores, BootstrapInv
<1>2. interceptors' = interceptors (+) SetToBag(more)
  BY DEF Explore
<1>3. /\ DOMAIN interceptors' = DOMAIN interceptors \cup more
      /\ \A i \in DOMAIN interceptors' :
           interceptors'[i] = (IF i \in DOMAIN interceptors THEN interceptors[i] ELSE 0)
                                + (IF i \in more THEN 1 ELSE 0)
  <2> HIDE DEF more
  <2> QED
    BY <1>2 DEF (+), SetToBag
<1>4. ASSUME NEW i \in more
      PROVE  i[2] = w.object /\ ~Bare(w.metatype) /\ i \notin DOMAIN interceptors
  <2>1. i[2] = w.object /\ ~Bare(w.metatype)
    <3>1. PICK r \in Registered("FetchInterceptorExplorer"),
               kind \in DOMAIN Metadata(w.metatype.decorators) : i = <<r, w.object, kind>>
      BY DEF InterceptorsOf
    <3> QED
      BY <3>1 DEF Bare
  <2>2. ASSUME i \in DOMAIN interceptors PROVE FALSE
    <3>1. PICK j \in Visited(w.object) : ~Bare(container.providers[j].metatype)
      BY <2>1, <2>2, <1>1 DEF InterceptorsInv
    <3>2. j \in ByClass(w.object)
      <4>1. /\ j \in DOMAIN container.providers /\ container.providers[j].explored
            /\ container.providers[j].object = w.object
        BY DEF Visited, EntriesOf
      <4> HIDE DEF w
      <4> QED
        BY <3>1, <4>1, <1>1, TheWay, ClassMet
    <3> HIDE DEF w
    <3>3. j = next /\ next \notin Visited(w.object)
      BY <2>1, <3>2, <1>1, TheWay
    <3> QED
      BY <3>1, <3>3
  <2> QED
    BY <2>1, <2>2
<1>5. ASSUME NEW i \in DOMAIN interceptors'
      PROVE  interceptors'[i] = 1
  <2> HIDE DEF more
  <2> QED
    BY <1>1, <1>3, <1>4 DEF InterceptorsInv
<1>6. ASSUME NEW i \in DOMAIN interceptors'
      PROVE  \E j \in Visited(i[2])' : ~Bare(container'.providers[j].metatype)
  <2>1. CASE i \in more
    <3>1. next \in Visited(i[2])'
      BY <2>1, <1>1, <1>4, OneMoreWay
    <3> QED
      BY <2>1, <3>1, <1>1, <1>4
  <2>2. CASE i \notin more
    <3>1. PICK j \in Visited(i[2]) : ~Bare(container.providers[j].metatype)
      BY <2>2, <1>1, <1>3 DEF InterceptorsInv
    <3>2. j \in Visited(i[2])'
      BY <1>1, OneMoreWay
    <3> QED
      BY <3>1, <3>2, <1>1
  <2> QED
    BY <2>1, <2>2
<1> QED
  BY <1>5, <1>6 DEF InterceptorsInv

-----------------------------------------------------------------------------
(* The invariant is inductive.                                             *)
LEMMA Started == Init => BootstrapInv
<1> SUFFICES ASSUME Init PROVE BootstrapInv
  OBVIOUS
<1>1. process \in Seq(DOMAIN Apps) /\ process # <<>> /\ process \in Processes
  BY AppsAssumption DEF AppsAssumption, Init
<1>2. app \in DOMAIN process /\ container = Apps[process[app]] /\ container \in Range(Apps)
  BY <1>1 DEF Init, Range
<1>3. IsApplication(container)
  BY <1>1, <1>2, AppsAssumption DEF AppsAssumption
<1>4. Len(container.providers) \in Nat
  BY <1>3 DEF IsApplication
<1>5. ControlInv
  <2>1. DOMAIN impl = {} /\ next \in 1 .. Len(container.providers) + 1 /\ rules \in Seq(DOMAIN container.class)
    BY <1>4 DEF Init, Nothing
  <2> QED
    BY <1>1, <1>2, <2>1 DEF Init, ControlInv
<1>6. NothingFound
  BY <1>5 DEF Init, NothingFound, Nothing
<1> QED
  BY <1>5, <1>6, BeforeExploring DEF BootstrapInv, FoundInv

(* An action that leaves the application as it is, and what was found.     *)
LEMMA OnlyControl ==
  ASSUME BootstrapInv, ControlInv', container' = container, rules' = rules, next' = next, found' = found
  PROVE  BootstrapInv'
<1>1. \A o : Visited(o)' = Visited(o)
  BY Kept DEF Visited
<1>2. FoundInv'
  BY <1>1, FoundKept DEF BootstrapInv, FoundInv
<1> QED
  BY <1>2 DEF BootstrapInv, FoundInv

LEMMA NoListeners ==
  ASSUME ListenersInv, listeners' = listeners, DOMAIN listeners = {}, \A o : Visited(o)' = {}
  PROVE  ListenersInv'
<1>1. \A x : Times(x)' = 0
  BY DEF Times, BagIn, BagToSet
<1>2. IsABag(listeners)'
  BY DEF ListenersInv, IsABag
<1>3. \A o : Cardinality(Visited(o))' = 0
  BY FS_EmptySet
<1> QED
  BY <1>1, <1>2, <1>3 DEF ListenersInv

LEMMA BootstrapStep ==
  ASSUME BootstrapInv, [Next]_vars
  PROVE  BootstrapInv'
<1>0. ControlInv /\ FoundInv /\ IsApplication(container)
      /\ Len(container.providers) \in Nat /\ next \in Nat
  BY AnApplication DEF BootstrapInv, FoundInv, ControlInv, IsApplication
<1>1. CASE Refuse
  <2>1. ControlInv'
    BY <1>0, <1>1 DEF Refuse, ControlInv, found
  <2> QED
    BY <1>1, <2>1, OnlyControl DEF Refuse
<1>2. CASE Compose
  <2>1. next = 1 /\ listeners = Nobody /\ DOMAIN interceptors = {} /\ container' = container /\ rules' = rules
    <3>1. next = 1 /\ listeners = Nobody
      BY <1>0, <1>2 DEF Compose, ControlInv
    <3>2. \A o : Visited(o) = {}
      BY <3>1, <1>0, NothingVisited
    <3> QED
      BY <3>1, <3>2, <1>0, <1>2 DEF FoundInv, InterceptorsInv, Compose
  <2>2. DOMAIN impl' = AllSlots' /\ \A slot \in DOMAIN impl' : impl'[slot] = <<>>
    BY <1>2 DEF Compose, AllSlots, SlotsOf
  <2>3. phase' \in {"registering", "ready"}
    BY <1>2 DEF Compose
  <2>4. ControlInv'
    BY <1>0, <1>2, <2>1, <2>2, <2>3 DEF Compose, ControlInv
  <2>5. \A o : Visited(o)' = {}
    <3>1. \A o : Visited(o) = {}
      BY <2>1, <1>0, NothingVisited
    <3> QED
      BY <3>1, <2>1, <1>2, Kept DEF Visited, Compose
  <2>6. MethodsInv'
    BY <2>2, <2>5, Bottom DEF MethodsInv, WrappersOk, Tidy, Settled
  <2>7. ListenersInv'
    <3>1. listeners' = listeners /\ DOMAIN listeners = {}
      BY <1>2, <2>1 DEF Compose, Nobody, EmptyBag, SetToBag
    <3> QED
      BY <3>1, <2>5, NoListeners DEF BootstrapInv
  <2>8. InterceptorsInv'
    BY <1>2, <2>1 DEF InterceptorsInv, Compose
  <2> QED
    BY <2>4, <2>6, <2>7, <2>8 DEF BootstrapInv
<1>3. CASE RegistryInit
  <2>1. rules' \in Seq(DOMAIN container.class)
    BY <1>0, <1>3, Collection DEF RegistryInit
  <2>2. ControlInv'
    BY <1>0, <1>3, <2>1 DEF RegistryInit, ControlInv, found, AllSlots, SlotsOf
  <2>3. next = 1 /\ listeners = Nobody /\ DOMAIN interceptors = {}
        /\ \A slot \in DOMAIN impl : impl[slot] = <<>>
    <3>1. next = 1 /\ listeners = Nobody
      BY <1>0, <1>3 DEF RegistryInit, ControlInv
    <3>2. \A o : Visited(o) = {}
      BY <3>1, <1>0, NothingVisited
    <3> QED
      BY <3>1, <3>2, <1>0 DEF FoundInv, InterceptorsInv, MethodsInv, WrappersOk
  <2>4. \A o : Visited(o)' = {}
    <3>1. \A o : Visited(o) = {}
      BY <2>3, <1>0, NothingVisited
    <3> QED
      BY <3>1, <1>3 DEF Visited, RegistryInit, EntriesOf
  <2>5. MethodsInv'
    BY <1>3, <2>3, <2>4, Bottom DEF MethodsInv, WrappersOk, Tidy, Settled, RegistryInit, found
  <2>6. ListenersInv'
    <3>1. listeners' = listeners /\ DOMAIN listeners = {}
      BY <1>3, <2>3 DEF RegistryInit, found, Nobody, EmptyBag, SetToBag
    <3> QED
      BY <3>1, <2>4, NoListeners DEF BootstrapInv
  <2>7. InterceptorsInv'
    BY <1>3, <2>3 DEF InterceptorsInv, RegistryInit, found
  <2> QED
    BY <2>2, <2>5, <2>6, <2>7 DEF BootstrapInv
<1>4. CASE EngineInit
  <2>1. ControlInv'
    BY <1>0, <1>4 DEF EngineInit, ControlInv, found, AllSlots, SlotsOf
  <2> QED
    BY <1>4, <2>1, OnlyControl DEF EngineInit
<1>5. CASE EngineSkips
  <2>1. ControlInv'
    BY <1>0, <1>5 DEF EngineSkips, ControlInv, found, AllSlots, SlotsOf
  <2> QED
    BY <1>5, <2>1, OnlyControl DEF EngineSkips
<1>6. CASE PassOver
  <2>1. ControlInv'
    BY <1>0, <1>6 DEF PassOver, Advance, ControlInv, found, AllSlots, SlotsOf
  <2>2. ASSUME NEW o PROVE Visited(o)' = Visited(o)
    <3>1. EntriesOf(o)' = EntriesOf(o) /\ next' = next + 1 /\ next \notin EntriesOf(o)
      BY <1>6 DEF PassOver, Advance, EntriesOf
    <3>2. \A i \in EntriesOf(o) : i \in Nat
      BY <1>0 DEF EntriesOf, IsApplication
    <3>3. \A i \in EntriesOf(o) : i < next + 1 <=> i < next
      BY <3>1, <3>2, <1>0
    <3> QED
      BY <3>1, <3>3 DEF Visited
  <2>3. FoundInv'
    BY <1>0, <1>6, <2>2, FoundKept DEF PassOver, Advance
  <2> QED
    BY <2>1, <2>3 DEF BootstrapInv, FoundInv
<1>7. CASE Explore
  <2>1. ControlInv'
    <3>1. DOMAIN impl' = DOMAIN impl
      BY <1>7 DEF Explore
    <3>2. \A seen \in classLevel' : Has(Metadata(seen[2].decorators), "TRANSACTIONAL")
      <4> DEFINE w == container.providers[next]
      <4>1. classLevel' = classLevel \cup ClassSeen(w)
        BY <1>7 DEF Explore
      <4>2. \A seen \in ClassSeen(w) : Has(Metadata(seen[2].decorators), "TRANSACTIONAL")
        BY ClassOptionsKnown DEF ClassSeen, OptionsOfClass
      <4> QED
        BY <4>1, <4>2, <1>0 DEF ControlInv
    <3>3. /\ next' = next + 1 /\ next <= Len(container.providers) /\ phase = "exploring"
          /\ UNCHANGED <<process, app, container, phase, rules, initialized>>
      BY <1>7 DEF Explore, Advance
    <3>4. AllSlots' = AllSlots
      BY <3>3, Kept
    <3> QED
      BY <3>1, <3>2, <3>3, <3>4, <1>0 DEF ControlInv
  <2> QED
    BY <1>7, <2>1, ExploreMethods, ExploreListeners, ExploreInterceptors DEF BootstrapInv
<1>8. CASE Finish
  <2>1. ControlInv'
    BY <1>0, <1>8 DEF Finish, ControlInv, found, AllSlots, SlotsOf
  <2> QED
    BY <1>8, <2>1, OnlyControl DEF Finish
<1>9. CASE NextApp
  <2>1. process \in Seq(DOMAIN Apps) /\ process \in Processes
    BY <1>0, AppsAssumption DEF AppsAssumption, ControlInv
  <2>2. app' \in DOMAIN process' /\ container' = Apps[process'[app']] /\ process' = process
    BY <1>0, <1>9, <2>1 DEF NextApp, ControlInv
  <2>3. IsApplication(container')
    BY <2>1, <2>2, AppsAssumption DEF AppsAssumption
  <2>4. next' \in 1 .. Len(container'.providers) + 1
    BY <1>9, <2>3 DEF NextApp, IsApplication
  <2>5. ControlInv'
    <3>1. DOMAIN impl' = {} /\ rules' \in Seq(DOMAIN container'.class)
      BY <1>9 DEF NextApp, Nothing
    <3> QED
      BY <1>0, <1>9, <2>1, <2>2, <2>4, <3>1 DEF NextApp, ControlInv
  <2>6. NothingFound'
    BY <2>5, <1>9 DEF NextApp, NothingFound, Nothing
  <2> QED
    BY <2>5, <2>6, BeforeExploringNext DEF BootstrapInv, FoundInv
<1>10. CASE UNCHANGED vars
  <2>1. ControlInv'
    BY <1>0, <1>10 DEF vars, ControlInv, found, AllSlots, SlotsOf
  <2> QED
    BY <1>10, <2>1, OnlyControl DEF vars
<1> QED
  BY <1>1, <1>2, <1>3, <1>4, <1>5, <1>6, <1>7, <1>8, <1>9, <1>10 DEF Next

(* Every application a process composes keeps the inductive invariant:     *)
(* whatever the modules, the explorers among their providers and the order *)
(* NestJS shows them in.                                                   *)
THEOREM Bootstraps == Spec => []BootstrapInv
  BY Started, BootstrapStep, PTL DEF Spec

LEMMA StateIsTyped == BootstrapInv => TypeOK
<1> SUFFICES ASSUME BootstrapInv PROVE TypeOK
  OBVIOUS
<1>1. ControlInv /\ MethodsInv
  BY DEF BootstrapInv
<1>2. Range(rules) \subseteq DOMAIN container.class
  BY <1>1, RulesAreThere
<1>3. ASSUME NEW slot \in DOMAIN impl
      PROVE  Range(Order(impl[slot])) \subseteq WrapperNames
  <2>1. \A i \in DOMAIN impl[slot] : impl[slot][i].by \in WrapperNames
    BY <1>1 DEF MethodsInv, WrappersOk
  <2>2. /\ DOMAIN Order(impl[slot]) = DOMAIN impl[slot]
        /\ \A i \in DOMAIN impl[slot] : Order(impl[slot])[i] = impl[slot][i].by
    BY DEF Order
  <2> QED
    BY <2>1, <2>2 DEF Range
<1>4. phase \in {"creating", "registering", "registered"} => next = 1 /\ listeners = Nobody
  BY <1>1 DEF ControlInv
<1>5. /\ app \in DOMAIN process /\ initialized \in BOOLEAN
      /\ phase \in {"creating", "refused", "registering", "registered", "exploring", "ready"}
      /\ next \in 1 .. Len(container.providers) + 1
  BY <1>1 DEF ControlInv
<1> QED
  BY <1>2, <1>3, <1>4, <1>5 DEF TypeOK, WrapperNames

(* The state is typed, and a new application starts with nothing left of   *)
(* the one before but the static field of the engine.                      *)
THEOREM BootstrapIsTyped == Spec => []TypeOK
  BY Bootstraps, StateIsTyped, PTL

LEMMA WantedIsFinite == ASSUME NEW slot PROVE IsFiniteSet(Wanted(slot))
<1>1. IsFiniteSet(Caching(slot))
  <2>1. IsFiniteSet({<<"cacheable">>} \cup {<<"put">>} \cup {<<"evict">>})
    BY FS_Singleton, FS_Union
  <2>2. Caching(slot) \subseteq {<<"cacheable">>} \cup {<<"put">>} \cup {<<"evict">>}
    BY DEF Caching
  <2> QED
    BY <2>1, <2>2, FS_Subset
<1>2. IsFiniteSet({<<"lock">>})
  BY FS_Singleton
<1>3. IsFiniteSet(InTransactions(slot))
  BY TransactionsWanted, FS_Singleton, FS_EmptySet
<1>4. IsFiniteSet({<<"fetch">>})
  BY FS_Singleton
<1>5. IsFiniteSet(Caching(slot) \cup {<<"lock">>} \cup InTransactions(slot) \cup {<<"fetch">>})
  BY <1>1, <1>2, <1>3, <1>4, FS_Union
<1>6. Wanted(slot) \subseteq Caching(slot) \cup {<<"lock">>} \cup InTransactions(slot) \cup {<<"fetch">>}
  BY WantedParts, FetchWanted
<1> QED
  BY <1>5, <1>6, FS_Subset

LEMMA FeaturesCounted ==
  ASSUME NEW slot, ~(Cardinality(Wanted(slot)) > 1)
  PROVE  OneFeature(slot)
<1> SUFFICES ASSUME NEW x \in Wanted(slot), NEW y \in Wanted(slot), x # y PROVE FALSE
  BY DEF OneFeature
<1> DEFINE one == {x}
<1>1. IsFiniteSet(one) /\ Cardinality(one) = 1 /\ y \notin one
  BY FS_Singleton
<1>2. Cardinality(one \cup {y}) = 2
  <2> HIDE DEF one
  <2>1. Cardinality(one \cup {y}) = IF y \in one THEN Cardinality(one) ELSE Cardinality(one) + 1
    BY <1>1, FS_AddElement
  <2> QED
    BY <1>1, <2>1
<1>3. {x} \cup {y} \subseteq Wanted(slot)
  OBVIOUS
<1>4. 2 <= Cardinality(Wanted(slot)) /\ Cardinality(Wanted(slot)) \in Nat
  BY <1>2, <1>3, WantedIsFinite, FS_Subset, FS_CardinalityType
<1> QED
  BY <1>4

(* When the engine is done it has gone every way there is.                 *)
LEMMA AllVisited ==
  ASSUME ControlInv, NEW o
  PROVE  Explored => Visited(o) = EntriesOf(o)
<1>1. /\ DOMAIN container.providers = 1 .. Len(container.providers) /\ Len(container.providers) \in Nat
      /\ next \in Nat
  BY AnApplication DEF IsApplication, ControlInv
<1>2. \A i \in EntriesOf(o) : i \in Nat /\ i <= Len(container.providers)
  BY <1>1 DEF EntriesOf
<1> QED
  BY <1>1, <1>2 DEF Explored, Visited

LEMMA WantedIsThere == BootstrapInv => DeclaredInEffect
<1> SUFFICES ASSUME BootstrapInv, Explored, NEW slot \in DOMAIN impl
             PROVE  IF EntriesOf(slot[1]) = {} THEN impl[slot] = <<>>
                    ELSE \/ IF Wanted(slot) = {} THEN impl[slot] = <<>> ELSE Wanted(slot) = {Order(impl[slot])}
                         \/ Cardinality(Wanted(slot)) > 1
                         \/ Excepted(slot)
  BY DEF DeclaredInEffect
<1>1. /\ ControlInv
      /\ Visited(slot[1]) = {} => impl[slot] = <<>>
      /\ ~Excepted(slot) /\ OneFeature(slot) => Settled(slot)
  BY DEF BootstrapInv, MethodsInv, WrappersOk
<1>2. CASE EntriesOf(slot[1]) = {}
  BY <1>1, <1>2, AllVisited
<1>3. CASE EntriesOf(slot[1]) # {}
  <2> SUFFICES ASSUME ~(Cardinality(Wanted(slot)) > 1), ~Excepted(slot)
               PROVE  IF Wanted(slot) = {} THEN impl[slot] = <<>> ELSE Wanted(slot) = {Order(impl[slot])}
    BY <1>3
  <2>1. OneFeature(slot) /\ Settled(slot)
    BY <1>1, FeaturesCounted
  <2>2. Visited(slot[1]) = EntriesOf(slot[1])
    BY <1>1, <1>3, AllVisited
  <2>3. Visited(slot[1]) \cap Needs(slot) # {}
    <3>1. CASE <<"fetch">> \in Wanted(slot)
      BY <2>2, <3>1, NoFetchElsewhere, FetchWanted DEF Needs, ByClass
    <3>2. CASE <<"fetch">> \notin Wanted(slot)
      BY <2>2, <1>3, <3>2 DEF Needs
    <3> QED
      BY <3>1, <3>2
  <2> QED
    BY <2>1, <2>3 DEF Settled, OneFeature
<1> QED
  BY <1>2, <1>3

(* In every application a method whose decorators ask for one feature has  *)
(* it and no other, and one that asks for none is as written, but for the  *)
(* three exceptions of Excepted(): FeatureExplorerEngine and the explorers,*)
(* through every alias and factory.                                        *)
THEOREM WhatIsDeclaredIsInEffect == Spec => []DeclaredInEffect
  BY Bootstraps, WantedIsThere, PTL

LEMMA OnceEach == BootstrapInv => DecoratedOnce
<1> SUFFICES ASSUME BootstrapInv, Explored PROVE DecoratedOnce
  BY DEF DecoratedOnce
<1>1. ControlInv /\ MethodsInv /\ ListenersInv /\ InterceptorsInv
  BY DEF BootstrapInv
<1>2. ASSUME NEW slot \in DOMAIN impl, NEW i \in DOMAIN impl[slot], NEW j \in DOMAIN impl[slot],
             impl[slot][i].by = impl[slot][j].by
      PROVE  i = j \/ (AliasFirst(slot[1]) /\ ClassDeclares(slot, "TRANSACTIONAL"))
  <2> DEFINE wrappers == impl[slot]
  <2>1. IsSequence(wrappers) /\ (LateClass(slot) \/ Tidy(wrappers))
    BY <1>1 DEF MethodsInv, WrappersOk
  <2>2. CASE LateClass(slot)
    BY <2>2 DEF LateClass
  <2>3. CASE Tidy(wrappers)
    <3>1. DOMAIN wrappers = 1 .. Len(wrappers) /\ Len(wrappers) \in Nat
      BY <2>1, NoneOrSome, Bottom
    <3> HIDE DEF wrappers
    <3>2. wrappers[i].by = wrappers[j].by /\ i \in 1 .. Len(wrappers) /\ j \in 1 .. Len(wrappers)
      BY <1>2, <3>1 DEF wrappers
    <3>3. CASE Len(wrappers) <= 1
      BY <3>1, <3>2, <3>3
    <3>4. CASE Len(wrappers) = 2 /\ wrappers[1].by # wrappers[2].by
      BY <3>1, <3>2, <3>4
    <3> QED
      BY <2>3, <3>3, <3>4 DEF Tidy
  <2> QED
    BY <2>1, <2>2, <2>3
<1>3. ASSUME NEW r \in Registered("TransactionalMetadataExplorer"), NEW slot \in DOMAIN impl
      PROVE  LET times == IF BagIn(<<r, slot>>, listeners) THEN listeners[<<r, slot>>] ELSE 0
             IN /\ times <= Cardinality(EntriesOf(slot[1]))
                /\ times > 0 => Declares(slot, "LISTENER")
                /\ Declares(slot, "LISTENER") /\ EntriesOf(slot[1]) # {} /\ <<"fetch">> \notin Wanted(slot)
                     => times > 0
  <2>1. Visited(slot[1]) = EntriesOf(slot[1])
    BY <1>1, AllVisited
  <2> QED
    BY <2>1, <1>1 DEF ListenersInv, Times
<1>4. \A i \in BagToSet(interceptors) : interceptors[i] = 1
  BY <1>1 DEF InterceptorsInv, BagToSet
<1> QED
  BY <1>2, <1>3, <1>4 DEF DecoratedOnce

(* In every application no feature wraps a method twice, a listener is     *)
(* registered at most once for each way to its object and at least once,   *)
(* and an interceptor exactly once.                                        *)
THEOREM NothingIsDecoratedTwice == Spec => []DecoratedOnce
  BY Bootstraps, OnceEach, PTL

-----------------------------------------------------------------------------
(* Calls of decorated methods                                              *)
Call(this, context) == [this |-> this, context |-> context]
IsPassage(iter, wrappers, call) ==
  iter = [s \in SUBSET DOMAIN wrappers |->
            IF s = {} THEN call ELSE Through(wrappers[Max(s)], iter[s \ {Max(s)}])]
(* The fold over the wrappers of a call is defined.                        *)
LEMMA PassageExists ==
  ASSUME NEW wrappers, IsSequence(wrappers), NEW this, NEW context
  PROVE  \E iter : IsPassage(iter, wrappers, Call(this, context))
<1> DEFINE N == Len(wrappers)
           services == {wrappers[i].options.service : i \in 1 .. N}
           V == [this : {this, Raw} \cup services, context : {context} \cup services]
           Step == [p \in (1 .. N) \X V |-> Through(wrappers[p[1]], p[2])]
<1>1. N \in Nat /\ DOMAIN wrappers = 1 .. N
  BY DEF IsSequence
<1>2. ASSUME NEW i \in 1 .. N, NEW call \in V PROVE Through(wrappers[i], call) \in V
  <2>1. wrappers[i].options.service \in services
    OBVIOUS
  <2> HIDE DEF services
  <2>2. CASE wrappers[i].by = "transaction"
    <3>1. Enters(wrappers[i].options, call.context) \in {context} \cup services
      BY <2>1 DEF Enters
    <3>2. Through(wrappers[i], call)
            = [this |-> wrappers[i].options.service, context |-> Enters(wrappers[i].options, call.context)]
      BY <2>2 DEF Through
    <3> QED
      BY <3>1, <3>2, <2>1
  <2>3. CASE wrappers[i].by # "transaction"
    BY <2>3 DEF Through
  <2> QED
    BY <2>2, <2>3
<1>3. Step \in [(1 .. N) \X V -> V]
  <2> HIDE DEF V
  <2> QED
    BY <1>2
<1>4. \A i \in 1 .. N, call \in V : Step[<<i, call>>] = Through(wrappers[i], call)
  <2> HIDE DEF V
  <2> QED
    OBVIOUS
<1>5. Call(this, context) \in V
  BY DEF Call
<1> HIDE DEF N, V, Step, services
<1>6. PICK iter \in [SUBSET (1 .. N) -> V] : IsFold(iter, N, Call(this, context), Step)
  BY <1>1, <1>3, <1>5, FoldExists
<1>7. ASSUME NEW s \in SUBSET (1 .. N), s # {}
      PROVE  Step[<<Max(s), iter[s \ {Max(s)}]>>] = Through(wrappers[Max(s)], iter[s \ {Max(s)}])
  <2>1. Max(s) \in 1 .. N /\ s \ {Max(s)} \in SUBSET (1 .. N)
    BY <1>1, <1>7, LargestOf
  <2>2. iter[s \ {Max(s)}] \in V
    BY <2>1
  <2> QED
    BY <2>1, <2>2, <1>4
<1>8. iter = [s \in SUBSET (1 .. N) |->
                IF s = {} THEN Call(this, context) ELSE Through(wrappers[Max(s)], iter[s \ {Max(s)}])]
  BY <1>6, <1>7 DEF IsFold
<1>9. IsPassage(iter, wrappers, Call(this, context))
  BY <1>1, <1>8 DEF IsPassage
<1> QED
  BY <1>9

(* A call passes the wrappers one after the other.                         *)
LEMMA Passage ==
  ASSUME NEW wrappers, IsSequence(wrappers), NEW this, NEW context,
         NEW call, call = Call(this, context)
  PROVE  /\ wrappers = <<>> => Within(wrappers, call) = call
         /\ Len(wrappers) = 1 => Within(wrappers, call) = Through(wrappers[1], call)
         /\ Len(wrappers) = 2 =>
              Within(wrappers, call) = Through(wrappers[2], Through(wrappers[1], call))
<1> DEFINE N == Len(wrappers)
           iter == CHOOSE it : IsPassage(it, wrappers, call)
<1>1. N \in Nat /\ DOMAIN wrappers = 1 .. N
  BY DEF IsSequence
<1>2. IsPassage(iter, wrappers, call)
  BY PassageExists
<1>3. Within(wrappers, call) = iter[1 .. N]
  BY <1>1 DEF Within, FoldLeft, MapThenFoldSet, IsPassage
<1> HIDE DEF iter
<1>4. \A s \in SUBSET (1 .. N) :
        iter[s] = IF s = {} THEN call ELSE Through(wrappers[Max(s)], iter[s \ {Max(s)}])
  BY <1>1, <1>2 DEF IsPassage
<1> HIDE DEF N
<1>5. iter[{}] = call /\ 1 .. 0 = {}
  <2>1. {} \in SUBSET (1 .. N) /\ 1 .. 0 = {}
    OBVIOUS
  <2> QED
    BY <2>1, <1>4
<1>6. ASSUME NEW n \in 1 .. N PROVE iter[1 .. n] = Through(wrappers[n], iter[1 .. n - 1])
  <2>1. /\ Max(1 .. n) = n /\ 1 .. n # {} /\ (1 .. n) \ {n} = 1 .. n - 1
        /\ 1 .. n \in SUBSET (1 .. N)
    BY <1>1, UpToN
  <2> QED
    BY <2>1, <1>4
<1>7. wrappers = <<>> => N = 0
  BY DEF N
<1>8. N = 1 => iter[1 .. 1] = Through(wrappers[1], call)
  <2> SUFFICES ASSUME N = 1 PROVE iter[1 .. 1] = Through(wrappers[1], call)
    OBVIOUS
  <2>1. 1 \in 1 .. N /\ 1 - 1 = 0
    OBVIOUS
  <2> QED
    BY <2>1, <1>5, <1>6
<1>9. N = 2 => iter[1 .. 2] = Through(wrappers[2], Through(wrappers[1], call))
  <2> SUFFICES ASSUME N = 2 PROVE iter[1 .. 2] = Through(wrappers[2], Through(wrappers[1], call))
    OBVIOUS
  <2>1. 1 \in 1 .. N /\ 1 - 1 = 0 /\ 2 \in 1 .. N /\ 2 - 1 = 1
    OBVIOUS
  <2>2. iter[1 .. 1] = Through(wrappers[1], call)
    BY <2>1, <1>5, <1>6
  <2> QED
    BY <2>1, <2>2, <1>6
<1> QED
  BY <1>3, <1>5, <1>7, <1>8, <1>9 DEF N

(* A method that is transactional runs with the one adapter there is, and  *)
(* whoever runs with it takes it along.                                    *)
LEMMA OneAdapter ==
  ASSUME BootstrapInv, Explored, NEW slot \in DOMAIN impl, ~Excepted(slot), OnlyTransactional(slot),
         NEW adapter, Adapters = {adapter}
  PROVE  /\ EntriesOf(slot[1]) # {} /\ DeclaredTransactional(slot) => impl[slot] # <<>>
         /\ \/ impl[slot] = <<>>
            \/ /\ impl[slot][1].by = "transaction" /\ impl[slot][1].options.service = adapter
               /\ \/ Len(impl[slot]) = 1
                  \/ Len(impl[slot]) = 2 /\ impl[slot][2].by = "event" /\ ~impl[slot][2].options.bound
<1> DEFINE wrappers == impl[slot]
<1>1. /\ ControlInv /\ WrappersOk(slot, wrappers)
      /\ ~Excepted(slot) /\ OneFeature(slot) => Settled(slot)
  BY DEF BootstrapInv, MethodsInv
<1>2. Adapted
  <2>1. PICK r \in Registered("TransactionalMetadataExplorer") : \E service \in Range(ServicesOf(r)) : TRUE
    BY DEF Adapters
  <2>2. ServicesOf(r) # <<>>
    BY <2>1, Bottom DEF Range
  <2> QED
    BY <2>2 DEF Adapted
<1>3. \A s \in Wanted(slot) : s \in InTransactions(slot)
  <2> SUFFICES ASSUME NEW s \in Wanted(slot), s \in {<<"transaction">>, <<"transaction", "event">>}
               PROVE  s \in InTransactions(slot)
    BY DEF OnlyTransactional
  <2>1. s[1] = "transaction"
    OBVIOUS
  <2>2. \A by \in {"cacheable", "put", "evict", "lock", "fetch"} : s # <<by>>
    BY <2>1
  <2>3. s \notin Caching(slot) /\ s # <<"lock">> /\ s \notin Fetching(slot)
    BY <2>2, FetchWanted DEF Caching
  <2> QED
    BY <2>3, WantedParts
<1>4. OneFeature(slot)
  BY <1>3, TransactionsWanted DEF OneFeature
<1>5. Settled(slot)
  BY <1>1, <1>4
<1>6. EntriesOf(slot[1]) # {} /\ DeclaredTransactional(slot) => impl[slot] # <<>>
  <2> SUFFICES ASSUME EntriesOf(slot[1]) # {}, DeclaredTransactional(slot) PROVE impl[slot] # <<>>
    OBVIOUS
  <2>1. Wanted(slot) # {}
    BY <1>2, TransactionsWanted, WantedParts, AdaptedIsRegistered
  <2>2. Visited(slot[1]) = EntriesOf(slot[1])
    BY <1>1, AllVisited
  <2>3. <<"fetch">> \notin Wanted(slot)
    BY <1>3, NoFetchElsewhere
  <2> QED
    BY <2>1, <2>2, <2>3, <1>5 DEF Settled, Needs
<1>7. ASSUME impl[slot] # <<>>
      PROVE  /\ wrappers[1].by = "transaction" /\ wrappers[1].options.service = adapter
             /\ \/ Len(wrappers) = 1
                \/ Len(wrappers) = 2 /\ wrappers[2].by = "event" /\ ~wrappers[2].options.bound
  <2>1. Order(wrappers) \in {<<"transaction">>, <<"transaction", "event">>}
    BY <1>5, <1>7 DEF Settled, OnlyTransactional
  <2>2. /\ DOMAIN wrappers = 1 .. Len(wrappers) /\ Len(wrappers) \in Nat \ {0} /\ 1 \in DOMAIN wrappers
    BY <1>1, <1>7, NoneOrSome DEF WrappersOk
  <2>3. ~LateClass(slot)
    BY DEF LateClass, Excepted
  <2>4. Tidy(wrappers)
    BY <1>1, <2>3 DEF WrappersOk
  <2>5. \A i \in DOMAIN wrappers : wrappers[i].by = "transaction" => wrappers[i].options.service = adapter
    BY <1>1 DEF WrappersOk
  <2> HIDE DEF wrappers
  <2>6. DOMAIN Order(wrappers) = DOMAIN wrappers /\ \A i \in DOMAIN wrappers : Order(wrappers)[i] = wrappers[i].by
    BY DEF Order
  <2>7. wrappers[1].by = "transaction"
    <3>1. \A s \in {<<"transaction">>, <<"transaction", "event">>} : s[1] = "transaction"
      OBVIOUS
    <3> QED
      BY <3>1, <2>1, <2>2, <2>6
  <2>8. CASE Len(wrappers) <= 1
    BY <2>2, <2>5, <2>7, <2>8
  <2>9. CASE Len(wrappers) = 2
    <3>1. 2 \in DOMAIN wrappers
      BY <2>2, <2>9
    <3>2. wrappers[2].by = "event"
      <4>1. DOMAIN <<"transaction">> = {1} /\ <<"transaction", "event">>[2] = "event"
        OBVIOUS
      <4> QED
        BY <3>1, <4>1, <2>1, <2>6
    <3>3. ~wrappers[2].options.bound
      BY <2>4, <2>9, <3>2 DEF Tidy
    <3> QED
      BY <2>2, <2>5, <2>7, <2>9, <3>2, <3>3
  <2> QED
    BY <2>4, <2>8, <2>9 DEF Tidy
<1> QED
  BY <1>6, <1>7

LEMMA Carried ==
  ASSUME BootstrapInv, Explored, NEW slot \in DOMAIN impl, ~Excepted(slot), OnlyTransactional(slot),
         NEW adapter, Adapters = {adapter}, NEW this, NEW context,
         \/ this = adapter /\ context = adapter
         \/ context = None /\ EntriesOf(slot[1]) # {} /\ DeclaredTransactional(slot)
  PROVE  Within(impl[slot], Call(this, context)) = Call(adapter, adapter)
<1> DEFINE wrappers == impl[slot]
           call == Call(this, context)
<1>1. IsSequence(wrappers)
  BY DEF BootstrapInv, MethodsInv, WrappersOk
<1>2. CASE wrappers = <<>>
  <2>1. this = adapter /\ context = adapter
    BY <1>2, OneAdapter
  <2> QED
    BY <1>1, <1>2, <2>1, Passage
<1>3. CASE wrappers # <<>>
  <2>1. /\ wrappers[1].by = "transaction" /\ wrappers[1].options.service = adapter
        /\ \/ Len(wrappers) = 1
           \/ Len(wrappers) = 2 /\ wrappers[2].by = "event" /\ ~wrappers[2].options.bound
    BY <1>3, OneAdapter
  <2> HIDE DEF wrappers
  <2>2. Through(wrappers[1], call) = Call(adapter, adapter)
    BY <2>1 DEF Through, Enters, Call
  <2>3. CASE Len(wrappers) = 1
    BY <1>1, <2>2, <2>3, Passage DEF wrappers
  <2>4. CASE Len(wrappers) = 2 /\ wrappers[2].by = "event" /\ ~wrappers[2].options.bound
    <3>1. Through(wrappers[2], Call(adapter, adapter)) = Call(adapter, adapter)
      BY <2>4 DEF Through
    <3> QED
      BY <1>1, <2>2, <2>4, <3>1, Passage DEF wrappers
  <2> QED
    BY <2>1, <2>3, <2>4
<1> QED
  BY <1>2, <1>3

(* The methods that run: those up to the n-th are all about transactions.  *)
AllTransactional(frames, n) ==
  /\ Explored /\ EntriesOf(frames[1].slot[1]) # {} /\ DeclaredTransactional(frames[1].slot)
  /\ \A i \in 1 .. n : OnlyTransactional(frames[i].slot) /\ ~Excepted(frames[i].slot)
FramesOk(frames) ==
  /\ IsSequence(frames)
  /\ frames # <<>> => phase = "ready"
  /\ \A n \in DOMAIN frames :
       /\ frames[n].slot \in DOMAIN impl
       /\ \A adapter \in Adapters :
            Adapters = {adapter} /\ AllTransactional(frames, n) => frames[n].call = Call(adapter, adapter)
RoutingInv == BootstrapInv /\ FramesOk(stack)

LEMMA Appended ==
  ASSUME NEW s, IsSequence(s), NEW x
  PROVE  /\ IsSequence(Append(s, x)) /\ DOMAIN Append(s, x) = 1 .. Len(s) + 1 /\ Len(s) \in Nat
         /\ DOMAIN s = 1 .. Len(s) /\ Append(s, x)[Len(s) + 1] = x
         /\ \A i \in 1 .. Len(s) : Append(s, x)[i] = s[i]
<1> DEFINE S == Range(s) \cup {x}
           t == Append(s, x)
<1>1. s \in Seq(S) /\ x \in S
  BY SeqMonotonic DEF IsSequence
<1>2. t \in Seq(S) /\ Len(t) = Len(s) + 1 /\ t[Len(s) + 1] = x /\ Len(s) \in Nat
      /\ \A i \in 1 .. Len(s) : t[i] = s[i]
  <2> HIDE DEF S
  <2> QED
    BY <1>1
<1>3. DOMAIN t = 1 .. Len(s) + 1 /\ DOMAIN s = 1 .. Len(s)
  <2> HIDE DEF S, t
  <2> QED
    BY <1>1, <1>2
<1>4. t \in Seq(Range(t))
  <2> HIDE DEF S, t
  <2>1. \A i \in 1 .. Len(t) : t[i] \in Range(t)
    BY <1>2, <1>3 DEF Range
  <2>2. t = [i \in 1 .. Len(t) |-> t[i]] /\ Len(t) \in Nat
    BY <1>2, <1>3
  <2> QED
    BY <2>1, <2>2, <1>2
<1> QED
  BY <1>2, <1>3, <1>4 DEF IsSequence

LEMMA WithoutTheLast ==
  ASSUME NEW s, IsSequence(s), s # <<>>
  PROVE  /\ IsSequence(Front(s)) /\ DOMAIN Front(s) = 1 .. Len(s) - 1 /\ Len(s) \in Nat \ {0}
         /\ DOMAIN s = 1 .. Len(s) /\ \A i \in 1 .. Len(s) - 1 : Front(s)[i] = s[i]
<1>1. s \in Seq(Range(s)) /\ Len(s) \in Nat \ {0} /\ DOMAIN s = 1 .. Len(s)
  BY NoneOrSome DEF IsSequence
<1>2. Front(s) = [i \in 1 .. Len(s) - 1 |-> s[i]]
  BY <1>1 DEF Front, SubSeq
<1> DEFINE f == [i \in 1 .. Len(s) - 1 |-> s[i]]
<1>3. f \in Seq(Range(f))
  <2>1. \A i \in 1 .. Len(s) - 1 : f[i] \in Range(f)
    BY DEF Range
  <2>2. Len(s) - 1 \in Nat /\ DOMAIN f = 1 .. Len(s) - 1
    BY <1>1
  <2>3. f \in [1 .. Len(s) - 1 -> Range(f)]
    BY <2>1, <2>2
  <2> HIDE DEF f
  <2> QED
    BY <2>2, <2>3
<1> QED
  BY <1>1, <1>2, <1>3 DEF IsSequence

(* What a call, a call from inside, and a return leave on the stack.       *)
LEMMA Invoked ==
  ASSUME BootstrapInv, phase = "ready", NEW slot \in DOMAIN impl,
         NEW frames, frames = <<Frame(slot, [this |-> Raw, context |-> None])>>
  PROVE  FramesOk(frames)
<1> DEFINE frame == Frame(slot, [this |-> Raw, context |-> None])
<1>1. frames = <<frame>> /\ IsSequence(frames) /\ DOMAIN frames = {1} /\ frames[1] = frame
  BY Single
<1>2. frame.slot = slot /\ frame.call = Within(impl[slot], Call(Raw, None))
  BY DEF Frame, Call
<1> HIDE DEF frame
<1>3. ASSUME NEW adapter, Adapters = {adapter}, AllTransactional(frames, 1)
      PROVE  frame.call = Call(adapter, adapter)
  <2>1. /\ Explored /\ EntriesOf(slot[1]) # {} /\ DeclaredTransactional(slot)
        /\ OnlyTransactional(slot) /\ ~Excepted(slot)
    <3>1. 1 \in 1 .. 1
      OBVIOUS
    <3> QED
      BY <3>1, <1>1, <1>2, <1>3 DEF AllTransactional
  <2> QED
    BY <2>1, <1>2, <1>3, Carried
<1> QED
  BY <1>1, <1>2, <1>3 DEF FramesOk

LEMMA Called ==
  ASSUME BootstrapInv, NEW frames, FramesOk(frames), frames # <<>>, NEW slot \in DOMAIN impl,
         NEW frame, frame = Frame(slot, [frames[Len(frames)].call EXCEPT !.this = Receiver(@)])
  PROVE  FramesOk(Append(frames, frame))
<1> DEFINE N == Len(frames)
           more == Append(frames, frame)
<1>1. /\ IsSequence(more) /\ DOMAIN more = 1 .. N + 1 /\ N \in Nat /\ DOMAIN frames = 1 .. N
      /\ more[N + 1] = frame /\ \A i \in 1 .. N : more[i] = frames[i]
  BY Appended DEF FramesOk
<1>2. N \in Nat \ {0}
  BY NoneOrSome DEF FramesOk
<1> HIDE DEF N, more
<1>3. ASSUME NEW n \in 1 .. N, AllTransactional(more, n) PROVE AllTransactional(frames, n)
  <2>1. \A i \in 1 .. n : i \in 1 .. N
    BY <1>2
  <2>2. 1 \in 1 .. N
    BY <1>2
  <2> QED
    BY <2>1, <2>2, <1>1, <1>3 DEF AllTransactional
<1>4. ASSUME NEW n \in 1 .. N
      PROVE  /\ more[n].slot \in DOMAIN impl
             /\ \A adapter \in Adapters :
                  Adapters = {adapter} /\ AllTransactional(more, n) => more[n].call = Call(adapter, adapter)
  BY <1>1, <1>3 DEF FramesOk
<1>5. frame.slot = slot
      /\ frame.call = Within(impl[slot], [frames[N].call EXCEPT !.this = Receiver(@)])
  BY DEF Frame, N
<1>6. ASSUME NEW adapter, Adapters = {adapter}, AllTransactional(more, N + 1)
      PROVE  frame.call = Call(adapter, adapter)
  <2>1. AllTransactional(more, N)
    <3>1. \A i \in 1 .. N : i \in 1 .. N + 1
      BY <1>2
    <3> QED
      BY <3>1, <1>6 DEF AllTransactional
  <2>2. N \in 1 .. N /\ N + 1 \in 1 .. N + 1
    BY <1>2
  <2>3. frames[N].call = Call(adapter, adapter)
    BY <2>1, <2>2, <1>1, <1>4, <1>6
  <2>4. [frames[N].call EXCEPT !.this = Receiver(@)] = Call(adapter, adapter)
    BY <2>3 DEF Call, Receiver
  <2>5. Explored /\ OnlyTransactional(slot) /\ ~Excepted(slot)
    BY <2>2, <1>1, <1>5, <1>6 DEF AllTransactional
  <2>6. Within(impl[slot], Call(adapter, adapter)) = Call(adapter, adapter)
    BY <2>5, <1>6, Carried
  <2> QED
    BY <2>4, <2>6, <1>5
<1>7. phase = "ready"
  BY DEF FramesOk
<1>8. \A n \in 1 .. N + 1 : n \in 1 .. N \/ n = N + 1
  BY <1>2
<1> QED
  BY <1>1, <1>4, <1>5, <1>6, <1>7, <1>8 DEF FramesOk, more

LEMMA Returned ==
  ASSUME NEW frames, FramesOk(frames), frames # <<>>
  PROVE  FramesOk(Front(frames))
<1> DEFINE N == Len(frames)
           less == Front(frames)
<1>1. /\ IsSequence(less) /\ DOMAIN less = 1 .. N - 1 /\ N \in Nat \ {0} /\ DOMAIN frames = 1 .. N
      /\ \A i \in 1 .. N - 1 : less[i] = frames[i]
  BY WithoutTheLast DEF FramesOk
<1> HIDE DEF N, less
<1>2. \A n \in 1 .. N - 1 : n \in 1 .. N /\ 1 \in 1 .. N - 1 /\ \A i \in 1 .. n : i \in 1 .. N - 1
  BY <1>1
<1>3. ASSUME NEW n \in 1 .. N - 1, AllTransactional(less, n) PROVE AllTransactional(frames, n)
  BY <1>1, <1>2, <1>3 DEF AllTransactional
<1>4. ASSUME NEW n \in 1 .. N - 1
      PROVE  /\ less[n].slot \in DOMAIN impl
             /\ \A adapter \in Adapters :
                  Adapters = {adapter} /\ AllTransactional(less, n) => less[n].call = Call(adapter, adapter)
  BY <1>1, <1>2, <1>3 DEF FramesOk
<1>5. phase = "ready"
  BY DEF FramesOk
<1> QED
  BY <1>1, <1>4, <1>5 DEF FramesOk, less

(* What an application is does not change while its methods run.           *)
LEMMA FramesKept ==
  ASSUME vars' = vars, NEW frames, FramesOk(frames), stack' = frames
  PROVE  FramesOk(stack)'
<1>1. /\ container' = container /\ rules' = rules /\ impl' = impl /\ phase' = phase /\ next' = next
  BY DEF vars, found
<1>2. \A slot : /\ OnlyTransactional(slot)' <=> OnlyTransactional(slot)
                /\ Excepted(slot)' <=> Excepted(slot)
                /\ DeclaredTransactional(slot)' <=> DeclaredTransactional(slot)
  BY <1>1, Kept, StillWanted DEF OnlyTransactional, DeclaredTransactional
<1>3. Explored' <=> Explored
  BY <1>1 DEF Explored
<1>4. \A n : AllTransactional(stack, n)' <=> AllTransactional(frames, n)
  BY <1>1, <1>2, <1>3, Kept DEF AllTransactional
<1>5. Adapters' = Adapters
  BY <1>1, Kept
<1> QED
  BY <1>1, <1>4, <1>5 DEF FramesOk

LEMMA RoutingStarted == RoutingInit => RoutingInv
<1> SUFFICES ASSUME RoutingInit PROVE RoutingInv
  OBVIOUS
<1>1. BootstrapInv
  BY Started DEF RoutingInit
<1>2. FramesOk(stack)
  BY Bottom DEF RoutingInit, FramesOk
<1> QED
  BY <1>1, <1>2 DEF RoutingInv

LEMMA RoutingStep ==
  ASSUME RoutingInv, [RoutingNext]_routingVars
  PROVE  RoutingInv'
<1>0. BootstrapInv /\ FramesOk(stack)
  BY DEF RoutingInv
<1>1. CASE stack = <<>> /\ Next /\ UNCHANGED stack
  <2>1. BootstrapInv'
    BY <1>0, <1>1, BootstrapStep
  <2>2. FramesOk(stack)'
    BY <1>1, Bottom DEF FramesOk
  <2> QED
    BY <2>1, <2>2 DEF RoutingInv
<1>2. CASE vars' = vars /\ \E frames : stack' = frames /\ FramesOk(frames)
  <2>1. BootstrapInv'
    BY <1>0, <1>2, BootstrapStep
  <2>2. FramesOk(stack)'
    BY <1>2, FramesKept
  <2> QED
    BY <2>1, <2>2 DEF RoutingInv
<1>3. CASE Invoke
  <2>1. PICK slot \in DOMAIN impl : stack' = <<Frame(slot, [this |-> Raw, context |-> None])>>
    BY <1>3 DEF Invoke
  <2>2. FramesOk(stack')
    BY <1>0, <1>3, <2>1, Invoked DEF Invoke
  <2> QED
    BY <1>2, <1>3, <2>2 DEF Invoke
<1>4. CASE CallMethod
  <2>1. PICK slot \in DOMAIN impl :
          stack' = Append(stack, Frame(slot, [stack[Len(stack)].call EXCEPT !.this = Receiver(@)]))
    BY <1>4 DEF CallMethod, top
  <2>2. stack # <<>>
    BY <1>4 DEF CallMethod
  <2>3. FramesOk(stack')
    BY <1>0, <2>1, <2>2, Called
  <2> QED
    BY <1>2, <1>4, <2>3 DEF CallMethod
<1>5. CASE Return
  <2>1. FramesOk(stack')
    BY <1>0, <1>5, Returned DEF Return
  <2> QED
    BY <1>2, <1>5, <2>1 DEF Return
<1>6. CASE UNCHANGED routingVars
  BY <1>0, <1>2, <1>6 DEF routingVars
<1> QED
  BY <1>1, <1>3, <1>4, <1>5, <1>6 DEF RoutingNext

(* Calls, however deep, keep the inductive invariant: a method about       *)
(* transactions that is called by such methods runs with the adapter, as   *)
(* its this and in its transaction.                                        *)
THEOREM Routes == RoutingSpec => []RoutingInv
  BY RoutingStarted, RoutingStep, PTL DEF RoutingSpec

LEMMA WritesAreJoined == RoutingInv => WritesJoin
<1> SUFFICES ASSUME RoutingInv, stack # <<>>,
                    AllTransactional(stack, Len(stack)),
                    NEW adapter \in Adapters, NEW write \in Writes(top),
                    Adapters = {adapter}, Joinable(adapter, write)
             PROVE  write.outcome = "joined"
  <2>1. stack # <<>> /\ RoutingInv => DOMAIN stack = 1 .. Len(stack)
    BY NoneOrSome DEF RoutingInv, FramesOk
  <2> QED
    BY <2>1 DEF WritesJoin, AllTransactional
<1>1. Len(stack) \in DOMAIN stack
  BY NoneOrSome DEF RoutingInv, FramesOk
<1>2. top.call = Call(adapter, adapter)
  BY <1>1 DEF RoutingInv, FramesOk, top
<1>3. write.outcome = ProxyResource(adapter, write.of, write.operation, adapter)
  <2>1. top.call.this = adapter /\ top.call.context = adapter
    BY <1>2 DEF Call
  <2> QED
    BY <2>1 DEF Writes
<1>4. CASE adapter = "typeorm" /\ write.of = "repository"
  BY <1>3, <1>4 DEF ProxyResource, TypeOrmResource
<1>5. CASE adapter = "mongoose" /\ write.of = "model" /\ write.operation \in SessionOperations
  BY <1>3, <1>5 DEF ProxyResource, MongooseResource
<1> QED
  BY <1>4, <1>5 DEF Joinable

(* In every application with one adapter, what a transactional method      *)
(* writes to its resources is in a transaction, itself or through methods  *)
(* it calls, at any depth and with any propagation.                        *)
THEOREM TransactionalWritesJoin == RoutingSpec => []WritesJoin
  BY Routes, WritesAreJoined, PTL

(* A run with calls is a run of the bootstrap, so its theorems hold of it. *)
LEMMA RoutingIsABootstrap == RoutingSpec => Spec
<1>1. RoutingInit => Init
  BY DEF RoutingInit
<1>2. [RoutingNext]_routingVars => [Next]_vars
  BY DEF RoutingNext, Invoke, CallMethod, Return, routingVars
<1> QED
  BY <1>1, <1>2, PTL DEF RoutingSpec, Spec
=============================================================================
