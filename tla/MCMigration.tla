---------------------------- MODULE MCMigration ----------------------------
(* Instances of Migration for TLC: one file, whose datafile is on server 1. *)
EXTENDS Migration

OneFile == {1}
OnFirst == [f \in {1} |-> 1]
AllOpen == [w \in Writer |-> 1]
=============================================================================
