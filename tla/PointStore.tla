----------------------------- MODULE PointStore -----------------------------
(***************************************************************************)
(* What the history of runs promises, seen from outside: a run has at most *)
(* one value for a step and a key, it comes from a line that was accepted  *)
(* for this run, or from the parent of a fork that was accepted for it,    *)
(* and it never changes.                                                   *)
(***************************************************************************)
EXTENDS Integers, Sequences

CONSTANTS Runs, Steps, Keys, None

VARIABLES
    lines,   \* the accepted lines: [run, step, keys, parent]
    point    \* point[r][<<s, k>>]: the line a value is from, 0 if there is none

vars == <<lines, point>>

Cells == Steps \X Keys

Rows  == [run : Runs, step : Steps, keys : SUBSET Keys, parent : {None}]
Forks == [run : Runs, step : Steps, keys : {{}}, parent : Runs]

Logged(r, c, v) ==
    /\ v \in DOMAIN lines
    /\ lines[v].parent = None
    /\ lines[v].run = r
    /\ lines[v].step = c[1]
    /\ c[2] \in lines[v].keys

Inherited(r, c, v) ==
    \E i \in DOMAIN lines :
        /\ lines[i].parent # None
        /\ lines[i].run = r
        /\ c[1] <= lines[i].step
        /\ point[lines[i].parent][c] = v

Init == /\ lines = << >>
        /\ point = [r \in Runs |-> [c \in Cells |-> 0]]

Accept == /\ \E l \in Rows \cup Forks : lines' = Append(lines, l)
          /\ UNCHANGED point

Record == /\ point' \in [Runs -> [Cells -> Nat]]
          /\ \A r \in Runs, c \in Cells :
                \/ point'[r][c] = point[r][c]
                \/ /\ point[r][c] = 0
                   /\ Logged(r, c, point'[r][c]) \/ Inherited(r, c, point'[r][c])
          /\ UNCHANGED lines

Next == Accept \/ Record

Spec == Init /\ [][Next]_vars
=============================================================================
