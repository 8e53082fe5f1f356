----------------------------- MODULE MCEventQueue -----------------------------
(* Small instances of EventQueue: two producers, two consumers.            *)
EXTENDS EventQueue
CONSTANTS p1, p2, c1, c2
=============================================================================
