----------------------------- MODULE MCMigrations -----------------------------
(* Instances of Migrations for TLC. *)
EXTENDS Migrations, TLC

(* Names of tables and versions of specs are interchangeable. *)
Symmetric == Permutations(TableName) \cup Permutations(Version)
===============================================================================
