------------------------------ MODULE MCPeriodic ------------------------------
(* Small instances of Periodic: two entries, two task slots.               *)
EXTENDS Periodic
CONSTANTS e1, e2, t1, t2
=============================================================================
