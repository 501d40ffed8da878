---------------------------- MODULE MCMigration ----------------------------
(* Chunk migration, instantiated for TLC. *)
EXTENDS Migration

=============================================================================
