----------------------------- MODULE LineQueue -----------------------------
(***************************************************************************)
(* What the write path promises to the rest of the server, with no file,   *)
(* cursor or batch in it: a payload that was accepted stays accepted, every *)
(* item of it is delivered to the database exactly once, and the items of  *)
(* one stream (one run, one kind of data) are delivered in the order in    *)
(* which their lines were accepted.  Module Wal implements this            *)
(* specification as long as nothing fails.                                 *)
(***************************************************************************)
EXTENDS Naturals, Sequences

CONSTANTS
    Payloads,   \* what an append carries: records with fields run and kinds
    Kinds       \* the kinds of items a payload may hold

VARIABLES
    queue,      \* the accepted payloads, in order of acceptance
    done        \* the delivered items, pairs <<line, kind>>

vars == <<queue, done>>

(* The items of the accepted payloads. *)
Accepted == {it \in (1..Len(queue)) \X Kinds : it[2] \in queue[it[1]].kinds}

Undelivered == Accepted \ done

SameStream(it, jt) == /\ it[2] = jt[2]
                      /\ queue[it[1]].run = queue[jt[1]].run

Init == /\ queue = << >>
        /\ done = {}

Put(p) == /\ queue' = Append(queue, p)
          /\ UNCHANGED done

(* Items of one stream are delivered together, none overtaking another. *)
Deliver(S) ==
    /\ S # {}
    /\ S \subseteq Undelivered
    /\ \A it, jt \in S : SameStream(it, jt)
    /\ \A it \in S, jt \in Undelivered :
            SameStream(it, jt) /\ jt[1] < it[1] => jt \in S
    /\ done' = done \cup S
    /\ UNCHANGED queue

DeliverSome == \E S \in SUBSET Undelivered : Deliver(S)

Next == \/ \E p \in Payloads : Put(p)
        \/ DeliverSome

Spec == Init /\ [][Next]_vars

(* What is accepted is delivered. *)
Delivery == WF_vars(DeliverSome)
=============================================================================
