----------------------------- MODULE MCSubflows -----------------------------
(***************************************************************************)
(* Ways of a parent's tokens: parallel branches, one with two call         *)
(* activities in a row; two tokens on one branch, whose sub-process may    *)
(* lack a binding; a token whose second sub-process may, beside a task.    *)
(***************************************************************************)
EXTENDS Subflows, TLC

CONSTANTS t1, t2

Branches == t1 :> <<"call", "call">> @@ t2 :> <<"call">>
Fragile == [t \in Token |-> <<"fragile">>]

Nested == t1 :> <<"call", "fragile">> @@ t2 :> <<"task">>

PassWays == {Branches, Fragile, Nested}
OperatorPoints == {"opFind", "cascade"}
=============================================================================
