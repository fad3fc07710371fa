---------------------------- MODULE MCMigrations ----------------------------
(***************************************************************************)
(* Instances start while others serve requests.                            *)
(***************************************************************************)
EXTENDS Migrations

CONSTANTS i1, i2, i3, c1
=============================================================================
