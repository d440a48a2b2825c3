------------------------------ MODULE MCRouting ------------------------------
(* Small instances of Routing for TLC.                                     *)
EXTENDS Routing, TLC

CONSTANTS a1, a2

Aliases == {a1, a2}
Users == {1, 2}
Groups == {-1, -2}
At1(owner) == [status |-> "active", chat |-> -1, thread |-> None, version |-> 0, owner |-> owner]
OneOrTwoAliases == {a1 :> At1(1) @@ a2 :> At1(2), a1 :> At1(1) @@ a2 :> None}
SecondAdministers == {<<-1, 2>>}
FirstMigrates == -1 :> -2 @@ -2 :> None
OneScreen == {"screen"}
=============================================================================
