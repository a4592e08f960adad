----------------------------- MODULE LineReader -----------------------------
(***************************************************************************)
(* The log as its reader sees it, with no file, compaction, channel or     *)
(* timer in it: lines in order, a position, the position a restart takes,  *)
(* and the lines in the batch.  Module Wal implements this specification   *)
(* whatever fails, and module History reads its lines in this way: it is   *)
(* what the two agree on.                                                  *)
(*                                                                         *)
(* A line is read once in each life of the server, after all lines before  *)
(* it, and a restart begins at a line that had been reached when a         *)
(* position was saved, or earlier, never later.  The exception is a torn   *)
(* compaction (wal.go:441-454): after that only the lines themselves are   *)
(* safe.                                                                   *)
(***************************************************************************)
EXTENDS Naturals, Sequences

CONSTANTS
    Lines,        \* what may be appended
    Counts(_)     \* Counts(l): line l has an item for the batch

VARIABLES
    log,          \* the lines, in the order in which they were appended
    pos,          \* how many of them the reader has taken
    saved,        \* where a restart begins
    batch,        \* the lines with items in the batch
    torn          \* the saved position belongs to a file that is gone

vars == <<log, pos, saved, batch, torn>>

Init == /\ log = << >>
        /\ pos = 0
        /\ saved = 0
        /\ batch = {}
        /\ torn = FALSE

Write == /\ \E l \in Lines : log' = Append(log, l)
         /\ UNCHANGED <<pos, saved, batch, torn>>

Read == /\ pos < Len(log)
        /\ pos' = pos + 1
        /\ batch' = IF Counts(log[pos + 1]) THEN batch \cup {pos + 1} ELSE batch
        /\ UNCHANGED <<log, saved, torn>>

(* Lines leave the batch when the last of their items does, written or not. *)
Leave == /\ batch' \subseteq batch
         /\ UNCHANGED <<log, pos, saved, torn>>

Save == /\ saved' = pos
        /\ UNCHANGED <<log, pos, batch, torn>>

(* The position is overwritten, and not there until it is written. *)
Truncate == /\ saved' \in 0..saved
            /\ UNCHANGED <<log, pos, batch, torn>>

Restart == /\ saved' \in 0..saved
           /\ pos' = saved'
           /\ batch' = {}
           /\ UNCHANGED <<log, torn>>

(* A torn compaction, and whatever the reader does after one. *)
Tear == /\ torn' = TRUE
        /\ pos' \in Nat
        /\ saved' \in Nat
        /\ batch' \subseteq 1..Len(log)
        /\ UNCHANGED log

Next == \/ Write
        \/ ~torn /\ (Read \/ Leave \/ Save \/ Truncate \/ Restart)
        \/ Tear

Spec == Init /\ [][Next]_vars
=============================================================================
