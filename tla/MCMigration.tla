---------------------------- MODULE MCMigration ----------------------------
(***************************************************************************)
(* Small instances of Migration for TLC.                                   *)
(***************************************************************************)
EXTENDS Migration, TLC

CONSTANTS p1, r1, r2

OneProject == [r \in {r1, r2} |-> p1]

(* A run with two batches of history and a file, and one that has
   nothing to copy but its name. *)
LongAndShort ==
    [r \in {r1, r2} |-> [p \in Parts |->
        CASE p = "upserted"                                -> 1
          [] p = "history" /\ r = r1                       -> 2
          [] p = "files" /\ r = r1                         -> 1
          [] OTHER                                         -> 0]]
=============================================================================
