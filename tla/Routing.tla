------------------------------ MODULE Routing -------------------------------
(***************************************************************************)
(* Where the writes of a decorated method go: TransactionalProxyFactory    *)
(* makes the this of a transactional method a proxy, the adapters replace  *)
(* the resources read through it, and the other wrappers call the method   *)
(* of the instance itself.                                                 *)
(***************************************************************************)
EXTENDS Bootstrap

CONSTANT MaxDepth   \* how deep methods call each other

VARIABLE stack      \* the methods that run: each has called the next
routingVars == <<vars, stack>>

(* What this is: the instance, or a proxy of an adapter.  What the current *)
(* transaction is: none, or one of an adapter.                             *)
Raw == "raw"
None == "none"

(* Operations a proxied model gives the session: arguments it completes,   *)
(* and queries, which have a session() of their own.                       *)
SessionOperations ==
  {"create", "insertMany", "bulkWrite", "new", "find", "findOne", "findByIdAndUpdate",
   "updateOne", "deleteOne"}

(* TypeOrmTransactionAdapter.proxyResource: a model is not a resource of   *)
(* this adapter but a function, and what stands for it has no statics.     *)
TypeOrmResource(is, operation, context) ==
  CASE is = "repository" /\ context = "typeorm" -> "joined"
    [] is = "repository" /\ context = "mongoose" -> "error"
    [] is = "model" /\ operation # "new" -> "error"
    [] OTHER -> "alone"

(* MongooseTransactionAdapter.proxyResource *)
MongooseResource(is, operation, context) ==
  CASE is = "model" /\ operation \in SessionOperations /\ context = "mongoose" -> "joined"
    [] is = "model" /\ operation \in SessionOperations /\ context = "typeorm" -> "error"
    [] OTHER -> "alone"

ProxyResource(this, is, operation, context) ==
  CASE this = "typeorm" -> TypeOrmResource(is, operation, context)
    [] this = "mongoose" -> MongooseResource(is, operation, context)
    [] OTHER -> "alone"

(* createProxy: objects read through a proxy are proxies, and a method of  *)
(* a proxy is called with the proxy.                                       *)
FaultyReceiver(this) == Raw
Receiver(this) == this

(* ITransactionAdapter.execute: which transaction the method runs in.      *)
Enters(options, context) ==
  IF context = None \/ ("propagation" \in DOMAIN options /\ options.propagation = "REQUIRES_NEW")
  THEN options.service ELSE context

(* One wrapper around the rest of a method.                                *)
Through(wrapper, call) ==
  CASE wrapper.by = "transaction" ->
         [this |-> wrapper.options.service, context |-> Enters(wrapper.options, call.context)]
    [] wrapper.by = "event" /\ ~wrapper.options.bound -> call
    [] OTHER -> [call EXCEPT !.this = Raw]
Within(wrappers, call) == FoldLeft(LAMBDA c, wrapper : Through(wrapper, c), call, wrappers)

Target(slot, step) == IF step.field = "this" THEN slot[1] ELSE container.fields[slot[1]][step.field]
Kind(slot, step) == container.value[Target(slot, step)].is

(* A method that has been called: what its body runs with.                 *)
Frame(slot, call) == [slot |-> slot, call |-> Within(impl[slot], call)]
top == stack[Len(stack)]

(* Its writes: the resource, the operation, and whether it joins.          *)
Writes(frame) ==
  {[of |-> Kind(frame.slot, step), operation |-> step.operation,
    outcome |-> ProxyResource(frame.call.this, Kind(frame.slot, step), step.operation, frame.call.context)] :
     step \in {t \in Range(MethodAt(frame.slot).body) : Kind(frame.slot, t) # "instance"}}

-----------------------------------------------------------------------------
RoutingInit == Init /\ stack = <<>>

(* Somebody calls a method of an application that is ready.                *)
Invoke ==
  /\ phase = "ready" /\ stack = <<>>
  /\ \E slot \in DOMAIN impl : stack' = <<Frame(slot, [this |-> Raw, context |-> None])>>
  /\ UNCHANGED vars

(* The method that runs calls one of its own object, or of one it injects. *)
CallMethod ==
  /\ stack # <<>> /\ Len(stack) < MaxDepth
  /\ \E step \in Range(MethodAt(top.slot).body) :
       LET slot == <<Target(top.slot, step), step.operation>> IN
       /\ Kind(top.slot, step) = "instance" /\ slot \in DOMAIN impl
       /\ stack' = Append(stack, Frame(slot, [top.call EXCEPT !.this = Receiver(@)]))
  /\ UNCHANGED vars

Return == stack # <<>> /\ stack' = Front(stack) /\ UNCHANGED vars

RoutingNext == (stack = <<>> /\ Next /\ UNCHANGED stack) \/ Invoke \/ CallMethod \/ Return
RoutingSpec == RoutingInit /\ [][RoutingNext]_routingVars

-----------------------------------------------------------------------------
(* A method that only decorators of transactions are about. *)
OnlyTransactional(slot) == Wanted(slot) \subseteq {<<"transaction">>, <<"transaction", "event">>}

Adapters ==
  UNION {{service[2] : service \in Range(ServicesOf(r))} : r \in Registered("TransactionalMetadataExplorer")}
Joinable(adapter, write) ==
  \/ adapter = "typeorm" /\ write.of = "repository"
  \/ adapter = "mongoose" /\ write.of = "model" /\ write.operation \in SessionOperations

(* In an application with one adapter, whatever a transactional method     *)
(* writes to a resource of the adapter is in a transaction, itself or by   *)
(* way of methods that only decorators of transactions are about: through  *)
(* this, through the services it injects and theirs, and with whatever     *)
(* propagation.  TransactionalProxyFactory, proxyResource() of the adapters. *)
WritesJoin ==
  /\ Explored /\ stack # <<>>
  /\ EntriesOf(stack[1].slot[1]) # {} /\ DeclaredTransactional(stack[1].slot)
  /\ \A i \in DOMAIN stack : OnlyTransactional(stack[i].slot) /\ ~Excepted(stack[i].slot)
  => \A adapter \in Adapters, write \in Writes(top) :
       Adapters = {adapter} /\ Joinable(adapter, write) => write.outcome = "joined"
=============================================================================
