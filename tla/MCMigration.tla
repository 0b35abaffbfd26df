---------------------------- MODULE MCMigration -----------------------------
(* Small instances of Migration. *)
EXTENDS Migration

AnyHome == [a \in Names |-> Nodes]
=============================================================================
