---------------------------- MODULE MCFileStream ----------------------------
(***************************************************************************)
(* Small instances of FileStream for TLC.                                  *)
(***************************************************************************)
EXTENDS FileStream, TLC

CONSTANTS c1, c2, h1, h2, r1, r2, r3

(* History, then console output with a summary. *)
TwoChunks == <<[steps |-> {0, 1}, others |-> {}],
               [steps |-> {}, others |-> {"logs", "summary"}]>>

(* One client gives no state; the other migrates a finished run. *)
OneMigrates == [c \in Clients |-> IF c = c1 THEN "none" ELSE "finished"]

(* No handler or id is special, but the one that may be deleted. *)
Symmetry == Permutations(Handlers) \cup Permutations(Runs \ Deletable)
=============================================================================
