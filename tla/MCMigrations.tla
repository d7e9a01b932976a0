---------------------------- MODULE MCMigrations ----------------------------
(***************************************************************************)
(* Two applications, one built against an older schema, and an operator    *)
(* with the newest build.                                                  *)
(***************************************************************************)
EXTENDS Migrations, TLC

CONSTANTS nestova, nestorage, operator

MCBuilt == nestova :> 1 @@ nestorage :> 2 @@ operator :> 3

=============================================================================
