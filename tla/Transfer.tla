------------------------------ MODULE Transfer ------------------------------
(***************************************************************************)
(* What the migration promises for a run, with no projects, worker,        *)
(* process or requests in it.                                              *)
(*                                                                         *)
(* The parts of a run go over one after the other.  A part is noted once,  *)
(* when all of its pieces are there or given up, and nothing of a part is  *)
(* sent after it was noted.  The pieces of one part, the resumed one, are  *)
(* counted, and go over in their order: only the piece after the count may *)
(* go over again.  A run is done when all parts are noted, and from then   *)
(* on nothing happens to it until it is reset; one that failed waits to be *)
(* retried, from where it was, or reset.                                   *)
(*                                                                         *)
(* A reset may come while the run is being copied, and the copy goes on.   *)
(* Such a run is blurred: it still settles, but nothing is promised of     *)
(* what has arrived, until it is reset once more.                          *)
(***************************************************************************)
EXTENDS Naturals, Sequences

CONSTANTS
    Runs,
    Order,        \* the parts in their order
    Pieces,       \* Pieces[r][p]: how many pieces part p of run r has
    Resumed       \* the part that is resumed in the middle

VARIABLES
    status,       \* "unlisted", "open", "failed" or "done"
    noted,        \* noted[r]: the parts that are behind
    counted,      \* counted[r]: the pieces of the resumed part that are behind
    arrived,      \* arrived[r]: the pieces that went over since the last reset
    lost,         \* lost[r]: the pieces that were given up since then
    blurred       \* the runs that were reset while they were copied

vars == <<status, noted, counted, arrived, lost, blurred>>

PartsUpTo(n)   == {Order[k] : k \in 1..n}
AllParts       == PartsUpTo(Len(Order))
PiecesOf(r, p) == {<<p, i>> : i \in 1..Pieces[r][p]}

(* Part n of run r is the one to go over now. *)
AtPart(r, n) == r \notin blurred => noted[r] = PartsUpTo(n - 1)

Init == /\ status = [r \in Runs |-> "unlisted"]
        /\ noted = [r \in Runs |-> {}]
        /\ counted = [r \in Runs |-> 0]
        /\ arrived = [r \in Runs |-> {}]
        /\ lost = [r \in Runs |-> {}]
        /\ blurred = {}

List(r) ==
    /\ status[r] = "unlisted"
    /\ status' = [status EXCEPT ![r] = "open"]
    /\ UNCHANGED <<noted, counted, arrived, lost, blurred>>

Arrive(r, n, i) ==
    /\ status[r] = "open" /\ AtPart(r, n)
    /\ r \notin blurred /\ Order[n] = Resumed => i = counted[r] + 1
    /\ <<Order[n], i>> \in PiecesOf(r, Order[n])
    /\ arrived' = [arrived EXCEPT ![r] = @ \cup {<<Order[n], i>>}]
    /\ UNCHANGED <<status, noted, counted, lost, blurred>>

GiveUp(r, n, S) ==
    /\ status[r] = "open" /\ AtPart(r, n)
    /\ S \subseteq PiecesOf(r, Order[n])
    /\ lost' = [lost EXCEPT ![r] = @ \cup S]
    /\ UNCHANGED <<status, noted, counted, arrived, blurred>>

Count(r, i) ==
    /\ status[r] = "open"
    /\ r \notin blurred => i = counted[r] + 1 /\ <<Resumed, i>> \in arrived[r]
    /\ counted' = [counted EXCEPT ![r] = i]
    /\ UNCHANGED <<status, noted, arrived, lost, blurred>>

Note(r, n) ==
    /\ status[r] = "open" /\ AtPart(r, n)
    /\ r \notin blurred => PiecesOf(r, Order[n]) \subseteq arrived[r] \cup lost[r]
    /\ noted' = [noted EXCEPT ![r] = @ \cup {Order[n]}]
    /\ UNCHANGED <<status, counted, arrived, lost, blurred>>

Finish(r) ==
    /\ status[r] = "open"
    /\ r \notin blurred => noted[r] = AllParts
    /\ status' = [status EXCEPT ![r] = "done"]
    /\ UNCHANGED <<noted, counted, arrived, lost, blurred>>

Fail(r) ==
    /\ status[r] = "open"
    /\ status' = [status EXCEPT ![r] = "failed"]
    /\ UNCHANGED <<noted, counted, arrived, lost, blurred>>

Retry(R) ==
    /\ \A r \in R : status[r] = "failed"
    /\ status' = [r \in Runs |-> IF r \in R THEN "open" ELSE status[r]]
    /\ UNCHANGED <<noted, counted, arrived, lost, blurred>>

(* Those of B are being copied. *)
Reset(R, B) ==
    /\ \A r \in R : status[r] # "unlisted"
    /\ status' = [r \in Runs |-> IF r \in R THEN "open" ELSE status[r]]
    /\ noted' = [r \in Runs |-> IF r \in R THEN {} ELSE noted[r]]
    /\ counted' = [r \in Runs |-> IF r \in R THEN 0 ELSE counted[r]]
    /\ arrived' = [r \in Runs |-> IF r \in R THEN {} ELSE arrived[r]]
    /\ lost' = [r \in Runs |-> IF r \in R THEN {} ELSE lost[r]]
    /\ blurred' = (blurred \ R) \cup B

Copy(r) == \/ \E n \in 1..Len(Order) :
                 \/ \E i \in 1..Pieces[r][Order[n]] : Arrive(r, n, i)
                 \/ \E S \in SUBSET PiecesOf(r, Order[n]) : GiveUp(r, n, S)
                 \/ Note(r, n)
           \/ \E i \in 1..Pieces[r][Resumed] : Count(r, i)

Next == \/ \E r \in Runs : List(r) \/ Copy(r) \/ Finish(r) \/ Fail(r)
        \/ \E R \in SUBSET Runs : Retry(R) \/ \E B \in SUBSET R : Reset(R, B)

Spec == Init /\ [][Next]_vars
=============================================================================
