------------------------------- MODULE MCWal -------------------------------
(***************************************************************************)
(* Small instances of Wal for TLC.                                         *)
(***************************************************************************)
EXTENDS Wal, TLC

CONSTANTS r1, r2, w1, w2, f1, f2, c1

Line(r, K) == [run |-> r, kinds |-> K]

(* One run with history lines, another that is forked from it, and a line
   without items (a bad one, or history that is not numeric). *)
HistoryAndFork == {Line(r1, {"scalars", "histograms"}), Line(r1, {}),
                   Line(r2, {"fork"})}

(* History of one run, console output of another. *)
TwoKinds == {Line(r1, {"scalars", "histograms"}), Line(r2, {"logs"})}

(* The same and a fork. *)
TwoKindsAndFork == TwoKinds \cup {Line(r2, {"fork"})}

(* System events: one item a line. *)
Single == {Line(r1, {"events"})}

MCRuns == {r1, r2}

Symmetry == Permutations(Writers) \cup Permutations(Flushers)
=============================================================================
