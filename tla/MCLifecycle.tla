---------------------------- MODULE MCLifecycle ----------------------------
(***************************************************************************)
(* Small instances of Lifecycle for TLC.                                   *)
(***************************************************************************)
EXTENDS Lifecycle

CONSTANTS r1, u1, p1, p2, n1, n2, h1, h2
=============================================================================
