---------------------------- MODULE MCMigrations ----------------------------
(* Instance of Migrations for TLC: two runs of the script at once, which is *)
(* all it takes for one to invalidate the other's probe.                    *)
EXTENDS Migrations
=============================================================================
