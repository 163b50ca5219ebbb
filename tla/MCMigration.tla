---------------------------- MODULE MCMigration ----------------------------
(* Instances of Migration: all scripts of at most four messages, or two     *)
(* commands.                                                               *)
EXTENDS Migration

UpToFour == UNION {[1..n -> Kinds] : n \in 0..4}
TwoCmds == {<<"cmd", "cmd">>}
=============================================================================
