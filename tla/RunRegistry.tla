---------------------------- MODULE RunRegistry ----------------------------
(***************************************************************************)
(* What the store promises about runs, whatever its handlers, its flusher  *)
(* and its cleanup do to each other: a run starts empty, what a user sees  *)
(* of it only grows, deleting hides all of it at once, and it comes back   *)
(* only as a new and empty run once the hidden one is gone.                *)
(***************************************************************************)
EXTENDS Integers

CONSTANTS Ids, DataTables

VARIABLES
    status,   \* status[r]: "absent", "shown" or "hidden"
    visible   \* visible[r][t]: what a user sees of run r in table t

regVars == <<status, visible>>

Empty == [t \in DataTables |-> 0]

Init ==
    /\ status = [r \in Ids |-> "absent"]
    /\ visible = [r \in Ids |-> Empty]

Create(r) ==
    /\ status[r] = "absent"
    /\ status' = [status EXCEPT ![r] = "shown"]
    /\ UNCHANGED visible

Grow(r) ==
    /\ status[r] = "shown"
    /\ visible' = [visible EXCEPT ![r] = visible'[r]]
    /\ visible'[r] \in [DataTables -> Nat]
    /\ \A t \in DataTables : visible[r][t] <= visible'[r][t]
    /\ UNCHANGED status

Hide(S) ==
    /\ \A r \in S : status[r] = "shown"
    /\ status' = [r \in Ids |-> IF r \in S THEN "hidden" ELSE status[r]]
    /\ visible' = [r \in Ids |-> IF r \in S THEN Empty ELSE visible[r]]

Forget(r) ==
    /\ status[r] = "hidden"
    /\ status' = [status EXCEPT ![r] = "absent"]
    /\ UNCHANGED visible

Next ==
    \/ \E r \in Ids : Create(r) \/ Grow(r) \/ Forget(r)
    \/ \E S \in SUBSET Ids : Hide(S)

Spec == Init /\ [][Next]_regVars
=============================================================================
