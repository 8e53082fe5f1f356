------------------------------ MODULE MCEspSync ------------------------------
(* A small instance of EspSync and EspTimers: three tasks, one of which    *)
(* may be the timer daemon, and the interrupt handlers, in a few           *)
(* applications each of which mixes the calls that can interfere.          *)
EXTENDS EspTimers
CONSTANTS q1, m1, s1, g1, b1, b2

One        == [o \in Queues \cup Sems |-> 1]
Capacities == [q \in Queues |-> 1]
Counts     == [s \in Sems |-> 1]
Priorities == [t \in Slots |-> t]

AnyKeep  == [bits |-> {b1}, all |-> FALSE, clear |-> FALSE]
AnyClear == [bits |-> {b1}, all |-> FALSE, clear |-> TRUE]
AllClear == [bits |-> {b1, b2}, all |-> TRUE, clear |-> TRUE]
Conditions == {AnyClear, AllClear}

Menu(zero, one, two, isr) ==
  [t \in Slots \cup {NoReady} |->
     CASE t = 0 -> zero [] t = 1 -> one [] t = 2 -> two [] OTHER -> isr]

Timing(zero, others) == Menu(zero, others, others, {})
Applications == {
  \* two consumers, one of which may die, and a producer
  Menu({"create", "send"}, {"recv", "peek", "delay"}, {"recv", "reset"}, {"send"}),
  \* two producers
  Menu({"create", "send", "recv"}, {"send", "kill"}, {"recv", "destroy"}, {}),
  \* tasks that share a mutex, and one that a handler wakes
  Menu({"create", "take", "give"}, {"take", "give"}, {"take", "destroy"}, {"give"}),
  \* two that share it, one of which may die with it, and a handler that takes it
  Menu({"create", "take", "give"}, {"take"}, {"kill"}, {"take", "give"}),
  \* two tasks that wait for events, one that may be suspended
  Menu({"create", "bits"}, {"bits"}, {"setbits", "clearbits", "suspend", "resume"}, {"setbits"}),
  Menu({"create", "bits"}, {"bits", "delay"}, {"setbits", "destroy"}, {}),
  Menu({"create", "bits"}, {"bits", "delay"}, {"setbits", "kill"}, {}),
  \* notifications of a task that also waits for a message
  Menu({"create", "notified", "recv"}, {"notify", "send"}, {"notified", "kill"}, {"notify"}),
  \* timers: two senders at a full queue, one of which may die, a slot used again,
  \* work items, and a callback that blocks
  Timing({"create", "timer", "start"}, {"change", "stop"}),
  Timing({"create", "timer", "start"}, {"change", "delete"}),
  Timing({"create", "timer", "restart"}, {"delete", "delay"}),
  Timing({"create", "timer", "start", "kill"}, {"stop"}),
  Timing({"create", "timer", "start"}, {"reload", "delay"}),
  Timing({"timer", "change", "delay"}, {"nap"}),
  Timing({"create", "timer", "delay"}, {"work", "cancel", "start"})
}
=============================================================================
