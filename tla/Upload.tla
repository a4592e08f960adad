------------------------------- MODULE Upload -------------------------------
(***************************************************************************)
(* What the file stream promises its clients.  A client sends its chunks   *)
(* in order.  A chunk that was acknowledged is in the log, whole, under    *)
(* one run; nothing of a later chunk is there before.  A run is finished   *)
(* when the last chunk of an upload is in the log under it, or when a      *)
(* client says so at its creation; who gives another state there re-opens  *)
(* it.                                                                     *)
(***************************************************************************)
EXTENDS Integers

CONSTANTS
    Clients,     \* processes that upload
    Runs,        \* run ids
    Given,       \* Given[c]: the state c creates its run with, "none" if it gives none
    Last,        \* the number of chunks of an upload
    Parts(_)     \* the files of a chunk that go to the log

VARIABLES
    acked,       \* acked[c]: chunks acknowledged to client c
    logged,      \* logged[r]: <<c, k, f>> where file f of chunk k of c is in the log
    finished     \* the finished runs

vars == <<acked, logged, finished>>

Pieces(c, k) == {<<c, k, f>> : f \in Parts(k)}

Init == /\ acked = [c \in Clients |-> 0]
        /\ logged = [r \in Runs |-> {}]
        /\ finished = {}

(* A late request may repeat a chunk that was acknowledged to another. *)
Log(c, r, k, f) ==
    /\ k <= acked[c] + 1
    /\ logged' = [logged EXCEPT ![r] = @ \cup {<<c, k, f>>}]
    /\ UNCHANGED <<acked, finished>>

Ack(c) ==
    /\ acked[c] < Last
    /\ \E r \in Runs : Pieces(c, acked[c] + 1) \subseteq logged[r]
    /\ acked' = [acked EXCEPT ![c] = @ + 1]
    /\ UNCHANGED <<logged, finished>>

Finish(r) ==
    /\ \E c \in Clients : Pieces(c, Last) \subseteq logged[r]
    /\ finished' = finished \cup {r}
    /\ UNCHANGED <<acked, logged>>

Declare(c, r) ==
    /\ Given[c] # "none"
    /\ finished' = IF Given[c] = "finished" THEN finished \cup {r} ELSE finished \ {r}
    /\ UNCHANGED <<acked, logged>>

Next == \/ \E c \in Clients : \/ Ack(c)
                              \/ \E r \in Runs : Declare(c, r)
                              \/ \E r \in Runs, k \in 1..Last :
                                    \E f \in Parts(k) : Log(c, r, k, f)
        \/ \E r \in Runs : Finish(r)

Spec == Init /\ [][Next]_vars
=============================================================================
