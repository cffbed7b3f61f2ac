------------------------------ MODULE MCRedlock ------------------------------
(***************************************************************************)
(* Small instances of Redlock for TLC.                                     *)
(***************************************************************************)
EXTENDS Redlock, TLC

CONSTANTS r1, r2

(* Every call locks the one resource. *)
OneKey == [c \in Calls |-> {r1}]

(* Calls lock both resources, the first of them only one. *)
Overlapping == [c \in Calls |-> IF c = CHOOSE d \in Calls : TRUE THEN {r1} ELSE {r1, r2}]

Symmetry == Permutations(Nodes) \union Permutations(Calls)
=============================================================================
