----------------------------- MODULE MCHistory -----------------------------
(***************************************************************************)
(* Small instances of History for TLC.                                     *)
(***************************************************************************)
EXTENDS History

CONSTANTS p, f, a, b

Row(r, s, scalars, histograms) ==
    [run |-> r, step |-> s, scalars |-> scalars, histograms |-> histograms, parent |-> None]

(* A run logs two steps, one of them with a histogram. *)
ParentRows == {Row(p, 0, {a}, {}), Row(p, 1, {a}, {a})}

(* One of its lines has two metrics. *)
WideRows == {Row(p, 0, {a, b}, {}), Row(p, 1, {a}, {a})}

(* And a fork of it a step of its own. *)
BothRows == {Row(p, 0, {a}, {}), Row(p, 1, {a}, {a}), Row(f, 1, {a}, {})}

(* A zoom to the first step. *)
FirstStep == {{0}}
=============================================================================
