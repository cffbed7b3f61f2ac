------------------------- MODULE MCRedlockWithLock -------------------------
(***************************************************************************)
(* Small instances of RedlockWithLock for TLC.                             *)
(***************************************************************************)
EXTENDS RedlockWithLock, TLC

CONSTANT r1

OneKey == [c \in Calls |-> {r1}]
Symmetry == Permutations(Calls)
=============================================================================
