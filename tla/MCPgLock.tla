------------------------------- MODULE MCPgLock -------------------------------
(***************************************************************************)
(* A small instance of PgLock for TLC: three calls that lock two keys in   *)
(* different orders over two connections.                                  *)
(***************************************************************************)
EXTENDS PgLock, TLC

CONSTANTS c1, c2, c3, a, b

CrossedKeys == c1 :> <<a, b>> @@ c2 :> <<b, a>> @@ c3 :> <<a>>
=============================================================================
