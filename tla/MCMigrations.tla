----------------------------- MODULE MCMigrations -----------------------------
(* Small instances of Migrations. *)
EXTENDS Migrations, TLC

===============================================================================
