--------------------------- MODULE MCButtonEvents ---------------------------
(* A small instance of ButtonEvents: one button driven by interrupts, one   *)
(* by either backend, and a timer table that is too small for both.         *)
EXTENDS ButtonEvents
CONSTANTS b1, b2
DrivesOf == [b \in Buttons |-> IF b = b1 THEN {"irq"} ELSE {"irq", "poll"}]
=============================================================================
