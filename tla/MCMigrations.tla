---------------------------- MODULE MCMigrations ----------------------------
(* Two services of a new version and one of the version before it. *)
EXTENDS Migrations

SmallAppOf == [p \in Services |-> IF p = "old" THEN "v1" ELSE "v2"]
SmallListOf == [a \in Apps |-> IF a = "v1" THEN <<"m1">> ELSE <<"m1", "m2">>]
=============================================================================
