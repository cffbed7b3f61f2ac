-------------------------------- MODULE Lease --------------------------------
(***************************************************************************)
(* What a lock service with expiring handles promises: a call is given a   *)
(* lease only when no other call holds a valid one for any of its keys,    *)
(* whatever the service does to find out.  lease[c] is the time until      *)
(* which c may act as the holder, and 0 when it holds nothing.             *)
(***************************************************************************)
EXTENDS Integers

CONSTANTS Calls, Keys, Duration
VARIABLES now, lease

Valid(c) == lease[c] >= now

Init ==
  /\ now = 1
  /\ lease = [c \in Calls |-> 0]

(* A first lease or a longer one.  One that is over when it is given need  *)
(* not be exclusive: its holder can see that.                              *)
Grant(c) ==
  /\ \E e \in 0 .. (now + Duration) :
       /\ e >= now => \A d \in Calls \ {c} : Keys[c] \intersect Keys[d] # {} => ~Valid(d)
       /\ lease' = [lease EXCEPT ![c] = e]
  /\ UNCHANGED now

Drop(c) == lease' = [lease EXCEPT ![c] = 0] /\ UNCHANGED now

Tick == now' = now + 1 /\ UNCHANGED lease

Next == Tick \/ \E c \in Calls : Grant(c) \/ Drop(c)

Spec == Init /\ [][Next]_<<now, lease>>
=============================================================================
