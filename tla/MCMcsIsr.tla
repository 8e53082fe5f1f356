------------------------------ MODULE MCMcsIsr ------------------------------
(* A small instance of McsIsr: firmwares with two sources each, which mask *)
(* and unmask them and change their priorities.  Timer 1 reloads itself.   *)
EXTENDS McsIsr
Firmwares  == {{INT0, TIMER0}, {INT1, UART0}, {TIMER0, UART0}, {TIMER1, TIMER2}}
Enables    == {Sources \cup {EA}, {UART0, TIMER2, INT0, EA}}
Priorities == {{}, {UART0, TIMER2, INT0}}
=============================================================================
