---------------------------- MODULE MCMigrations ----------------------------
(* One candidate and one quarantine record on either database.               *)
EXTENDS Migrations

MCDialects == {"sqlite", "postgresql"}
MCIds == 1..2
MCTimes == 1..2
=============================================================================
