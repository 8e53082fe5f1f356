---------------------------- MODULE SimScheduler ----------------------------
(***************************************************************************)
(* The cooperative scheduler of the simulation targets: the task table of  *)
(* targets/common/src/wink_sim_scheduler.c and the dispatch loop           *)
(* pal_sim_scheduler_run of osal/host/pal_osal_host.c (the loop of         *)
(* osal/wasm/pal_osal_wasm.c is the same up to how the clock is advanced). *)
(*                                                                         *)
(* The 64-bit virtual clock is kept relative: due[t] is wakeup_us - now,   *)
(* and Never stands for wakeup_us = 0, which the code reads as "no wake-up *)
(* armed".  Trace records, WCET accounting (wall-clock time) and stack     *)
(* management of the fibers are left out.                                  *)
(***************************************************************************)
EXTENDS Integers, FiniteSets

CONSTANTS N,         \* WINK_SIM_MAX_TASKS, the number of task slots
          MaxDelay,  \* bound on delays and timeouts, in clock units
          MaxTicks   \* max_ticks of the run: 0 is "no limit"

ASSUME NAssumption == N \in Nat \ {0}
ASSUME MaxDelayAssumption == MaxDelay \in Nat
ASSUME MaxTicksAssumption == MaxTicks \in Nat

VARIABLES
  state,         \* sim_task_t.state of each slot
  due,           \* sim_task_t.wakeup_us, relative to the clock
  timeoutFired,  \* sim_task_t.timeout_fired
  wakeReason,    \* sim_task_t.last_wake_reason
  current,       \* s_current_task_id: the running fiber, or NoReady
  last,          \* s_last_scheduled_task_id: the round-robin cursor
  atZero,        \* the virtual clock still reads 0
  running,       \* pal_sim_scheduler_run is on the stack
  main,          \* main_task_id
  ticks          \* ticks_run, counted only when MaxTicks limits it

schedVars == <<state, due, timeoutFired, wakeReason, current, last, atZero,
               running, main, ticks>>
taskVars  == <<state, due, timeoutFired, wakeReason>>
loopVars  == <<last, running, main, ticks>>

Slots   == 0 .. N - 1
NoReady == N            \* SIM_SCHED_NO_READY
Never   == -1

TaskStates  == {"INVALID", "READY", "WAITING", "BLOCKED", "ZOMBIE",
                "TERMINATED"}
WakeReasons == {"NONE", "IRQ", "SYNC_RES", "TIMEOUT"}

SchedTypeOK ==
  /\ state \in [Slots -> TaskStates]
  /\ due \in [Slots -> {Never} \cup 0 .. MaxDelay]
  /\ timeoutFired \in [Slots -> BOOLEAN]
  /\ wakeReason \in [Slots -> WakeReasons]
  /\ current \in Slots \cup {NoReady}
  /\ last \in Slots \cup {NoReady}
  /\ atZero \in BOOLEAN
  /\ running \in BOOLEAN
  /\ main \in Slots \cup {NoReady}
  /\ ticks \in 0 .. MaxTicks

SchedInit ==
  /\ state = [t \in Slots |-> "INVALID"]
  /\ due = [t \in Slots |-> Never]
  /\ timeoutFired = [t \in Slots |-> FALSE]
  /\ wakeReason = [t \in Slots |-> "NONE"]
  /\ current = NoReady
  /\ last = NoReady
  /\ atZero \in BOOLEAN
  /\ running = FALSE
  /\ main = NoReady
  /\ ticks = 0

-----------------------------------------------------------------------------
(* Operations on the task table.  Each one fixes taskVars' and leaves the  *)
(* other variables to its caller.                                          *)

Free(t) == state[t] \in {"INVALID", "TERMINATED"}

\* sim_scheduler_register takes the first free slot
FirstFree(t) == Free(t) /\ \A u \in Slots : u < t => ~Free(u)

Register(t) ==
  /\ state' = [state EXCEPT ![t] = "READY"]
  /\ due' = [due EXCEPT ![t] = Never]
  /\ timeoutFired' = [timeoutFired EXCEPT ![t] = FALSE]
  /\ wakeReason' = [wakeReason EXCEPT ![t] = "NONE"]

MarkZombie(t) ==
  /\ state' = IF Free(t) THEN state ELSE [state EXCEPT ![t] = "ZOMBIE"]
  /\ UNCHANGED <<due, timeoutFired, wakeReason>>

\* now + duration is 0, and so unarmed, for a delay of 0 at time 0
YieldTimed(t, duration) ==
  /\ state' = [state EXCEPT ![t] = "WAITING"]
  /\ due' = [due EXCEPT ![t] = IF atZero /\ duration = 0 THEN Never
                               ELSE duration]
  /\ wakeReason' = [wakeReason EXCEPT ![t] = "NONE"]
  /\ UNCHANGED timeoutFired

\* a timeout of 0 is "no timeout": the callers pass 0 for WAIT_FOREVER
Block(t, timeout) ==
  /\ state' = [state EXCEPT ![t] = "BLOCKED"]
  /\ due' = [due EXCEPT ![t] = IF timeout = 0 THEN Never ELSE timeout]
  /\ timeoutFired' = [timeoutFired EXCEPT ![t] = FALSE]
  /\ wakeReason' = [wakeReason EXCEPT ![t] = "NONE"]

\* mutant: without the check that the task is BLOCKED
ResumeAnyState(t, reason) ==
  /\ state' = [state EXCEPT ![t] = "READY"]
  /\ due' = [due EXCEPT ![t] = Never]
  /\ timeoutFired' = [timeoutFired EXCEPT ![t] = FALSE]
  /\ wakeReason' = [wakeReason EXCEPT ![t] = reason]

\* a resume of a task that is not BLOCKED is ignored
Resume(t, reason) ==
  IF state[t] = "BLOCKED"
  THEN /\ state' = [state EXCEPT ![t] = "READY"]
       /\ due' = [due EXCEPT ![t] = Never]
       /\ timeoutFired' = [timeoutFired EXCEPT ![t] = FALSE]
       /\ wakeReason' = [wakeReason EXCEPT ![t] = reason]
  ELSE UNCHANGED taskVars

\* the clock moves by d: overdue wake-ups stay at "due now"
Elapse(d) ==
  /\ due' = [t \in Slots |-> IF due[t] = Never THEN Never
                             ELSE IF due[t] > d THEN due[t] - d ELSE 0]
  /\ atZero' = (atZero /\ d = 0)

-----------------------------------------------------------------------------
(* One iteration of the dispatch loop: collect the zombies, leave the loop *)
(* or wake the tasks that are due, pick a READY task, switch to it.        *)

Collected == [t \in Slots |-> IF state[t] = "ZOMBIE" THEN "TERMINATED"
                              ELSE state[t]]

Due == {t \in Slots : state[t] \in {"WAITING", "BLOCKED"} /\ due[t] = 0}

ReadyNow == {t \in Slots : state[t] = "READY"} \cup Due

\* sim_scheduler_wakeup_by_time, after sim_scheduler_gc_zombies
Woken ==
  /\ state' = [t \in Slots |-> IF t \in Due THEN "READY" ELSE Collected[t]]
  /\ due' = [t \in Slots |-> IF t \in Due THEN Never ELSE due[t]]
  /\ timeoutFired' = [t \in Slots |-> \/ t \in Due /\ state[t] = "BLOCKED"
                                      \/ timeoutFired[t]]

ReasonNow(t) == IF t \in Due THEN "TIMEOUT" ELSE wakeReason[t]

\* how far the cursor has to move from c to reach slot t
Distance(c, t) == IF c = NoReady THEN t
                  ELSE IF t > c THEN t - c - 1 ELSE t - c - 1 + N

IrqWoken == {t \in ReadyNow : ReasonNow(t) = "IRQ"}

\* mutant: the cursor is not used, the lowest READY slot wins
PickedLowest(t) == t \in ReadyNow /\ \A u \in ReadyNow : t <= u

\* sim_scheduler_pick_next: the first task an interrupt woke, else the next
\* READY slot after the cursor
Picked(t) ==
  IF IrqWoken # {}
  THEN t \in IrqWoken /\ \A u \in IrqWoken : t <= u
  ELSE t \in ReadyNow /\ \A u \in ReadyNow : Distance(last, t) <= Distance(last, u)

Stopping == \/ main # NoReady /\ state[main] \in {"ZOMBIE", "TERMINATED"}
            \/ MaxTicks > 0 /\ ticks >= MaxTicks

AtLoopTop == running /\ current = NoReady

\* the loop ends: the main task is gone or the tick budget is used up
LoopStops ==
  /\ AtLoopTop /\ Stopping
  /\ running' = FALSE
  /\ state' = Collected
  /\ UNCHANGED <<due, timeoutFired, wakeReason, current, last, atZero, main,
                 ticks>>

\* mutant: the cursor is not moved to the task that is switched in
SwitchInKeepingCursor(t) ==
  /\ AtLoopTop /\ ~Stopping
  /\ Picked(t)
  /\ Woken
  /\ wakeReason' = [u \in Slots |-> IF u = t THEN "NONE" ELSE ReasonNow(u)]
  /\ current' = t
  /\ UNCHANGED <<last, atZero, running, main, ticks>>

SwitchIn(t) ==
  /\ AtLoopTop /\ ~Stopping
  /\ Picked(t)
  /\ Woken
  /\ wakeReason' = [u \in Slots |-> IF u = t THEN "NONE" ELSE ReasonNow(u)]
  /\ current' = t
  /\ last' = t
  /\ UNCHANGED <<atZero, running, main, ticks>>

Armed == {t \in Slots : state[t] \in {"WAITING", "BLOCKED"} /\ due[t] # Never}

\* nobody is READY: the clock jumps to the earliest wake-up
IdleAdvance ==
  /\ AtLoopTop /\ ~Stopping
  /\ ReadyNow = {}
  /\ \E t \in Armed : /\ \A u \in Armed : due[t] <= due[u]
                      /\ Elapse(due[t])
  /\ state' = Collected
  /\ UNCHANGED <<timeoutFired, wakeReason, current, loopVars>>

\* nobody is READY and nobody will be: the run ends without a word
IdleStops ==
  /\ AtLoopTop /\ ~Stopping
  /\ ReadyNow = {} /\ Armed = {}
  /\ running' = FALSE
  /\ state' = Collected
  /\ UNCHANGED <<due, timeoutFired, wakeReason, current, last, atZero, main,
                 ticks>>

\* the fiber switches back to the loop
SwitchOut ==
  /\ current' = NoReady
  /\ ticks' = IF current = main /\ ticks < MaxTicks THEN ticks + 1 ELSE ticks

Loop == LoopStops \/ (\E t \in Slots : SwitchIn(t)) \/ IdleAdvance \/ IdleStops
=============================================================================
