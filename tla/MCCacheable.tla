----------------------------- MODULE MCCacheable -----------------------------
(* Records of a repository, under the keys entity:<id>, and their history:  *)
(* a method entity(id) of another class, without a key of its own, so that  *)
(* only its namespace keeps its entries apart.                              *)
EXTENDS Cacheable

MCMethods == {"find", "save", "remove", "history"}
MCArgs == {"a", "bad"}
MCRecords == {"a", "log"}
MCOps ==
  {<<"find", "a">>, <<"history", "a">>, <<"save", "a">>, <<"save", "bad">>,
   <<"remove", "a">>, <<"remove", "bad">>}

MCKind ==
  [m \in MCMethods |->
     CASE m = "save" -> "put" [] m = "remove" -> "evict" [] OTHER -> "cacheable"]

(* remove() evicts a list as well; the builders throw for a bad id. *)
MCBuilder ==
  [m \in {"find", "save", "remove"} |-> [id \in {"a"} |->
     IF m = "remove" THEN <<<<"entity", id>>, <<"list", "">>>> ELSE <<<<"entity", id>>>>]]
MCNamespace == [m \in {"history"} |-> [id \in {"a"} |-> "history"]]
MCMethodName == [m \in MCMethods |-> IF m = "history" THEN "entity" ELSE m]
MCJson == [id \in MCArgs |-> id]

MCTtl == [m \in MCMethods |-> 60]
MCSubject == [o \in MCOps |-> IF o[1] = "history" THEN "log" ELSE "a"]
MCWrites == [o \in MCOps |-> IF o[1] \in {"save", "remove"} /\ o[2] = "a" THEN {"a", "log"} ELSE {}]
MCDeletes == {<<"remove", "a">>}
=============================================================================
