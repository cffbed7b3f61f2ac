---------------------------- MODULE MCTransaction ----------------------------
(***************************************************************************)
(* Small instances of Transaction for TLC: a call outer makes the calls    *)
(* inner and other, and other may also be made by a listener of the        *)
(* transaction of outer.                                                   *)
(***************************************************************************)
EXTENDS Transaction, TLC

CONSTANTS outer, inner, other

Family == outer :> NoCall @@ inner :> outer @@ other :> outer

(* outer has a synchronization, which may throw, and a listener behind it. *)
FamilyListeners ==
  outer :> <<"hook", "AFTER_COMPLETION">>
  @@ inner :> <<"AFTER_ROLLBACK">> @@ other :> <<"AFTER_COMMIT">>

Opts(propagation, rollbackOn, during) ==
  [propagation |-> propagation, rollbackOn |-> rollbackOn, during |-> during]

(* inner is nested.  other joins the transaction of outer, or has one of   *)
(* its own, or is made by a listener; then outer never rolls back.         *)
Nested ==
  {outer :> Opts("REQUIRED", IF b[2] = "body" THEN Errors ELSE {}, "body")
   @@ inner :> Opts("NESTED", {"app", "db"}, "body")
   @@ other :> Opts(b[1], Errors, b[2]) :
     b \in {<<"REQUIRED", "body">>, <<"REQUIRES_NEW", "body">>, <<"REQUIRED", "AFTER_COMMIT">>}}

(* Both have transactions of their own, while outer keeps its connection.  *)
Independent ==
  outer :> Opts("REQUIRED", Errors, "body")
  @@ inner :> Opts("REQUIRES_NEW", {"app", "db"}, "body")
  @@ other :> Opts("REQUIRES_NEW", Errors, "body")

FamilyOptions == Nested \union {Independent}
=============================================================================
