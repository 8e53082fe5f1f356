------------------------------ MODULE SimKernel ------------------------------
(***************************************************************************)
(* The OSAL of the host simulation target: mutexes, binary semaphores and  *)
(* task life cycle (osal/host/pal_osal_host.c), on top of SimScheduler.    *)
(* Tasks are fibers: a task runs alone, call by call, until a call blocks, *)
(* sleeps or ends it; interrupts run only at the top of the dispatch loop. *)
(*                                                                         *)
(* A call that returns an error without changing any state (a stale or     *)
(* NULL handle, BUSY, PERMISSION, INVALID_STATE, TIMEOUT for the context   *)
(* outside the tasks) is a stuttering step and has no action of its own.   *)
(* A failed assert aborts the program, so it is a guard.                   *)
(***************************************************************************)
EXTENDS SimScheduler, Sequences

CONSTANTS
  Mutexes,   \* slots of s_mtx_pool
  Sems,      \* slots of s_sem_pool
  IsrSems,   \* the semaphores interrupt handlers give
  Delays,    \* the delays tasks sleep or busy-wait for
  LockTimeouts,  \* the timeouts tasks pass to mutexes and to semaphores; 0
  TakeTimeouts,  \* stands for WAIT_FOREVER (and for 0)
  Faults     \* what clients and the harness may do besides the normal calls

ASSUME ResourceAssumption ==
  /\ Mutexes \cap Sems = {}
  /\ IsrSems \subseteq Sems
  /\ {"idle", "sleep"} \cap (Mutexes \cup Sems) = {}
ASSUME DelayAssumption ==
  /\ Delays \subseteq 0 .. MaxDelay
  /\ LockTimeouts \subseteq 0 .. MaxDelay
  /\ TakeTimeouts \subseteq 0 .. MaxDelay
ASSUME FaultAssumption ==
  Faults \subseteq {"kill", "self_kill", "die_holding", "destroy", "restart"}

VARIABLES
  mutexUsed,  \* host_mutex_t.used
  owner,      \* host_mutex_t.owner
  mwait,      \* host_mutex_t.waiters, head first
  semUsed,    \* host_sem_t.used
  count,      \* host_sem_t.count
  swait,      \* host_sem_t.waiters, head first
  call,       \* where a fiber is suspended: in lock or take of a resource,
              \* in a sleep, or not in a call
  holds       \* history: the mutexes whose lock call returned WINK_OK to the
              \* caller and that it has not unlocked

syncVars == <<mutexUsed, owner, mwait, semUsed, count, swait>>
vars == <<schedVars, syncVars, call, holds>>

NoOwner  == N + 1              \* HOST_MUTEX_NO_OWNER
Callers  == Slots \cup {NoReady}
WaitLine == UNION {[1 .. n -> Slots] : n \in 0 .. N}

Entries(q) == {q[i] : i \in 1 .. Len(q)}

\* mutant: the newest waiter goes to the head of the line
PushInFront(q, t) == IF Len(q) >= N THEN q ELSE <<t>> \o q

\* hwq_push, hsq_push: an entry that does not fit is dropped
Push(q, t) == IF Len(q) >= N THEN q ELSE Append(q, t)

\* hwq_remove, hsq_remove: r is q without the entries of slot t, in order
IsWithout(r, q, t) ==
  \E f \in [1 .. Len(r) -> 1 .. Len(q)] :
    /\ \A i, j \in 1 .. Len(r) : i < j => f[i] < f[j]
    /\ {f[i] : i \in 1 .. Len(r)} = {k \in 1 .. Len(q) : q[k] # t}
    /\ \A i \in 1 .. Len(r) : r[i] = q[f[i]]

TypeOK ==
  /\ SchedTypeOK
  /\ mutexUsed \in [Mutexes -> BOOLEAN]
  /\ owner \in [Mutexes -> Callers \cup {NoOwner}]
  /\ mwait \in [Mutexes -> WaitLine]
  /\ semUsed \in [Sems -> BOOLEAN]
  /\ count \in [Sems -> {0, 1}]
  /\ swait \in [Sems -> WaitLine]
  /\ call \in [Slots -> {"idle", "sleep"} \cup Mutexes \cup Sems]
  /\ holds \in [Callers -> SUBSET Mutexes]

Init ==
  /\ SchedInit
  /\ mutexUsed = [m \in Mutexes |-> FALSE]
  /\ owner = [m \in Mutexes |-> NoOwner]
  /\ mwait = [m \in Mutexes |-> <<>>]
  /\ semUsed = [s \in Sems |-> FALSE]
  /\ count = [s \in Sems |-> 0]
  /\ swait = [s \in Sems |-> <<>>]
  /\ call = [t \in Slots |-> "idle"]
  /\ holds = [c \in Callers |-> {}]

-----------------------------------------------------------------------------
(* Calls.  The caller is the running fiber, or, before the scheduler runs, *)
(* the context outside the tasks (NoReady), where app init executes.       *)

InTask == current \in Slots /\ call[current] = "idle"
CanCall == InTask \/ ~running

\* pal_os_mutex_create
MutexCreate(m) ==
  /\ CanCall
  /\ ~mutexUsed[m]
  /\ mutexUsed' = [mutexUsed EXCEPT ![m] = TRUE]
  /\ owner' = [owner EXCEPT ![m] = NoOwner]
  /\ mwait' = [mwait EXCEPT ![m] = <<>>]
  /\ UNCHANGED <<schedVars, semUsed, count, swait, call, holds>>

\* pal_os_mutex_lock on a free mutex
MutexAcquire(m) ==
  /\ CanCall
  /\ mutexUsed[m] /\ owner[m] = NoOwner
  /\ owner' = [owner EXCEPT ![m] = current]
  /\ holds' = [holds EXCEPT ![current] = @ \cup {m}]
  /\ UNCHANGED <<schedVars, mutexUsed, mwait, semUsed, count, swait, call>>

\* pal_os_mutex_lock on a mutex another caller owns: queue, block, switch out
MutexWait(m, timeout) ==
  /\ InTask
  /\ mutexUsed[m] /\ owner[m] \notin {NoOwner, current}
  /\ mwait' = [mwait EXCEPT ![m] = Push(@, current)]
  /\ call' = [call EXCEPT ![current] = m]
  /\ Block(current, timeout)
  /\ SwitchOut
  /\ UNCHANGED <<last, atZero, running, main, mutexUsed, owner, semUsed, count,
                 swait, holds>>

\* the rest of pal_os_mutex_lock, once the fiber is switched in again:
\* TIMEOUT, IO or OK
MutexReturn(m) ==
  /\ current \in Slots /\ call[current] = m
  /\ call' = [call EXCEPT ![current] = "idle"]
  /\ IF timeoutFired[current]
     THEN \E r \in WaitLine :
            /\ IsWithout(r, mwait[m], current)
            /\ mwait' = [mwait EXCEPT ![m] = r]
            /\ UNCHANGED holds
     ELSE /\ holds' = IF owner[m] = current
                      THEN [holds EXCEPT ![current] = @ \cup {m}] ELSE holds
          /\ UNCHANGED mwait
  /\ UNCHANGED <<schedVars, mutexUsed, owner, semUsed, count, swait>>

\* mutant: the new owner is not resumed
MutexUnlockSilently(m) ==
  /\ CanCall
  /\ mutexUsed[m] /\ owner[m] = current
  /\ IF mwait[m] # <<>>
     THEN /\ owner' = [owner EXCEPT ![m] = Head(mwait[m])]
          /\ mwait' = [mwait EXCEPT ![m] = Tail(@)]
     ELSE /\ owner' = [owner EXCEPT ![m] = NoOwner]
          /\ UNCHANGED mwait
  /\ holds' = [holds EXCEPT ![current] = @ \ {m}]
  /\ UNCHANGED <<schedVars, mutexUsed, semUsed, count, swait, call>>

\* mutant: anyone may unlock
MutexUnlockByAnyone(m) ==
  /\ CanCall
  /\ mutexUsed[m] /\ owner[m] # NoOwner
  /\ IF mwait[m] # <<>>
     THEN /\ owner' = [owner EXCEPT ![m] = Head(mwait[m])]
          /\ mwait' = [mwait EXCEPT ![m] = Tail(@)]
          /\ Resume(Head(mwait[m]), "SYNC_RES")
     ELSE /\ owner' = [owner EXCEPT ![m] = NoOwner]
          /\ UNCHANGED <<mwait, taskVars>>
  /\ holds' = [holds EXCEPT ![current] = @ \ {m}]
  /\ UNCHANGED <<loopVars, current, atZero, mutexUsed, semUsed, count, swait,
                 call>>

\* pal_os_mutex_unlock by the owner: hand the mutex to the first waiter
MutexUnlock(m) ==
  /\ CanCall
  /\ mutexUsed[m] /\ owner[m] = current
  /\ IF mwait[m] # <<>>
     THEN /\ owner' = [owner EXCEPT ![m] = Head(mwait[m])]
          /\ mwait' = [mwait EXCEPT ![m] = Tail(@)]
          /\ Resume(Head(mwait[m]), "SYNC_RES")
     ELSE /\ owner' = [owner EXCEPT ![m] = NoOwner]
          /\ UNCHANGED <<mwait, taskVars>>
  /\ holds' = [holds EXCEPT ![current] = @ \ {m}]
  /\ UNCHANGED <<loopVars, current, atZero, mutexUsed, semUsed, count, swait,
                 call>>

\* pal_os_mutex_destroy asserts that the mutex is free and nobody waits
MutexDestroy(m) ==
  /\ CanCall
  /\ mutexUsed[m] /\ owner[m] = NoOwner /\ mwait[m] = <<>>
  /\ mutexUsed' = [mutexUsed EXCEPT ![m] = FALSE]
  /\ UNCHANGED <<schedVars, owner, mwait, semUsed, count, swait, call, holds>>

\* pal_os_sem_create
SemCreate(s) ==
  /\ CanCall
  /\ ~semUsed[s]
  /\ semUsed' = [semUsed EXCEPT ![s] = TRUE]
  /\ count' = [count EXCEPT ![s] = 0]
  /\ swait' = [swait EXCEPT ![s] = <<>>]
  /\ UNCHANGED <<schedVars, mutexUsed, owner, mwait, call, holds>>

\* pal_os_sem_take with a token pending
SemAcquire(s) ==
  /\ CanCall
  /\ semUsed[s] /\ count[s] > 0
  /\ count' = [count EXCEPT ![s] = 0]
  /\ UNCHANGED <<schedVars, mutexUsed, owner, mwait, semUsed, swait, call,
                 holds>>

\* pal_os_sem_take with none: queue, block, switch out
SemWait(s, timeout) ==
  /\ InTask
  /\ semUsed[s] /\ count[s] = 0
  /\ swait' = [swait EXCEPT ![s] = Push(@, current)]
  /\ call' = [call EXCEPT ![current] = s]
  /\ Block(current, timeout)
  /\ SwitchOut
  /\ UNCHANGED <<last, atZero, running, main, mutexUsed, owner, mwait, semUsed,
                 count, holds>>

\* the rest of pal_os_sem_take: TIMEOUT or OK
SemReturn(s) ==
  /\ current \in Slots /\ call[current] = s
  /\ call' = [call EXCEPT ![current] = "idle"]
  /\ IF timeoutFired[current]
     THEN \E r \in WaitLine :
            /\ IsWithout(r, swait[s], current)
            /\ swait' = [swait EXCEPT ![s] = r]
     ELSE UNCHANGED swait
  /\ UNCHANGED <<schedVars, mutexUsed, owner, mwait, semUsed, count, holds>>

\* mutant: the semaphore counts instead of saturating at one token
GiveToCounting(s, reason) ==
  /\ semUsed[s]
  /\ IF swait[s] # <<>>
     THEN /\ swait' = [swait EXCEPT ![s] = Tail(@)]
          /\ Resume(Head(swait[s]), reason)
          /\ UNCHANGED count
     ELSE /\ count' = [count EXCEPT ![s] = @ + 1]
          /\ UNCHANGED <<swait, taskVars>>
  /\ UNCHANGED <<loopVars, current, atZero, mutexUsed, owner, mwait, semUsed,
                 call, holds>>

\* pal_os_sem_give: the first waiter gets the token, else it is stored
GiveTo(s, reason) ==
  /\ semUsed[s]
  /\ IF swait[s] # <<>>
     THEN /\ swait' = [swait EXCEPT ![s] = Tail(@)]
          /\ Resume(Head(swait[s]), reason)
          /\ UNCHANGED count
     ELSE /\ count' = [count EXCEPT ![s] = 1]
          /\ UNCHANGED <<swait, taskVars>>
  /\ UNCHANGED <<loopVars, current, atZero, mutexUsed, owner, mwait, semUsed,
                 call, holds>>

SemGive(s) == CanCall /\ GiveTo(s, "SYNC_RES")

\* pal_os_sem_give_isr from a handler that
\* pal_host_dispatch_pending_interrupts runs
IsrGive(s) == AtLoopTop /\ GiveTo(s, "IRQ")

\* pal_os_sem_destroy checks nothing: destroying under waiters is a misuse
SemDestroy(s) ==
  /\ CanCall
  /\ semUsed[s]
  /\ Entries(swait[s]) # {} => "destroy" \in Faults
  /\ semUsed' = [semUsed EXCEPT ![s] = FALSE]
  /\ UNCHANGED <<schedVars, mutexUsed, owner, mwait, count, swait, call, holds>>

-----------------------------------------------------------------------------
(* Time and tasks.                                                         *)

\* pal_os_sleep_ms
Sleep(duration) ==
  /\ InTask
  /\ call' = [call EXCEPT ![current] = "sleep"]
  /\ YieldTimed(current, duration)
  /\ SwitchOut
  /\ UNCHANGED <<last, atZero, running, main, syncVars, holds>>

SleepReturn ==
  /\ current \in Slots /\ call[current] = "sleep"
  /\ call' = [call EXCEPT ![current] = "idle"]
  /\ UNCHANGED <<schedVars, syncVars, holds>>

\* pal_os_busy_wait_us: the clock moves while the task keeps running
BusyWait(duration) ==
  /\ CanCall
  /\ Elapse(duration)
  /\ UNCHANGED <<state, timeoutFired, wakeReason, current, loopVars, syncVars,
                 call, holds>>

\* pal_os_task_create
TaskCreate(t) ==
  /\ CanCall
  /\ FirstFree(t)
  /\ Register(t)
  /\ call' = [call EXCEPT ![t] = "idle"]
  /\ holds' = [holds EXCEPT ![t] = {}]
  /\ UNCHANGED <<current, atZero, loopVars, syncVars>>

\* pal_os_task_delete(NULL): the fiber ends and never resumes
TaskDeleteSelf ==
  /\ InTask
  /\ holds[current] # {} => "die_holding" \in Faults
  /\ MarkZombie(current)
  /\ holds' = [holds EXCEPT ![current] = {}]
  /\ SwitchOut
  /\ UNCHANGED <<last, atZero, running, main, syncVars, call>>

\* pal_os_task_delete(handle): only marks the slot
TaskDelete(t) ==
  /\ CanCall
  /\ ~Free(t)
  /\ (IF t = current THEN "self_kill" ELSE "kill") \in Faults
  /\ MarkZombie(t)
  /\ holds' = IF t = current THEN holds ELSE [holds EXCEPT ![t] = {}]
  /\ UNCHANGED <<current, atZero, loopVars, syncVars, call>>

\* wink_runtime_run: the main task is registered and the loop entered
Run(t) ==
  /\ ~running /\ main = NoReady
  /\ FirstFree(t)
  /\ Register(t)
  /\ main' = t
  /\ running' = TRUE
  /\ call' = [call EXCEPT ![t] = "idle"]
  /\ UNCHANGED <<current, last, atZero, ticks, syncVars, holds>>

\* a further wink_runtime_run starts with sim_scheduler_reset, which clears
\* the task table and leaves the mutex and semaphore pools as they are
Reset ==
  /\ ~running /\ main # NoReady
  /\ "restart" \in Faults
  /\ state' = [t \in Slots |-> "INVALID"]
  /\ due' = [t \in Slots |-> Never]
  /\ timeoutFired' = [t \in Slots |-> FALSE]
  /\ wakeReason' = [t \in Slots |-> "NONE"]
  /\ last' = NoReady
  /\ main' = NoReady
  /\ ticks' = 0
  /\ call' = [t \in Slots |-> "idle"]
  /\ holds' = [c \in Callers |-> IF c \in Slots THEN {} ELSE holds[c]]
  /\ UNCHANGED <<current, atZero, running, syncVars>>

-----------------------------------------------------------------------------
MutexStep ==
  \E m \in Mutexes :
    \/ MutexCreate(m) \/ MutexAcquire(m) \/ MutexReturn(m) \/ MutexUnlock(m)
    \/ MutexDestroy(m)
    \/ \E d \in LockTimeouts : MutexWait(m, d)

SemStep ==
  \E s \in Sems :
    \/ SemCreate(s) \/ SemAcquire(s) \/ SemReturn(s) \/ SemGive(s)
    \/ SemDestroy(s)
    \/ \E d \in TakeTimeouts : SemWait(s, d)

TimeStep == SleepReturn \/ \E d \in Delays : Sleep(d) \/ BusyWait(d)

TaskStep ==
  \/ TaskDeleteSelf \/ Reset
  \/ \E t \in Slots : TaskCreate(t) \/ TaskDelete(t) \/ Run(t)

LoopStep == Loop /\ UNCHANGED <<syncVars, call, holds>>

Next == MutexStep \/ SemStep \/ TimeStep \/ TaskStep \/ LoopStep
        \/ \E s \in IsrSems : IsrGive(s)

Spec == Init /\ [][Next]_vars
-----------------------------------------------------------------------------
(* Safety.                                                                 *)

\* Two callers never both believe that they hold a mutex: whoever got WINK_OK
\* from pal_os_mutex_lock and has not unlocked is its recorded owner, through
\* hand-offs, timeouts, deleted tasks and reused task slots.
MutualExclusion ==
  \A c \in Callers : \A m \in holds[c] : owner[m] = c

\* No task sleeps on something it could have: a task blocked in mutex_lock is
\* in the queue of a mutex somebody owns, one blocked in sem_take is in the
\* queue of a live semaphore without token, so the next unlock or give that
\* concerns it finds it.
NoLostWakeup ==
  \A t \in Slots : state[t] = "BLOCKED" =>
    /\ \A m \in Mutexes : call[t] = m =>
         mutexUsed[m] /\ owner[m] # NoOwner /\ t \in Entries(mwait[m])
    /\ \A s \in Sems : call[t] = s =>
         semUsed[s] /\ count[s] = 0 /\ t \in Entries(swait[s])

\* A hand-off beats a timeout that expires at the same instant: a task about
\* to return WINK_ERR_TIMEOUT has not been handed the mutex or the token, so
\* it is still queued.
EventBeatsTimeout ==
  \A t \in Slots : state[t] = "READY" /\ timeoutFired[t] =>
    /\ \A m \in Mutexes : call[t] = m => t \in Entries(mwait[m])
    /\ \A s \in Sems : call[t] = s => t \in Entries(swait[s])

\* Unless an interrupt woke somebody, every dispatch moves the cursor closer
\* to each task that stays READY: nobody is passed over twice by the same peer.
RoundRobin ==
  [][\A t, u \in Slots :
       /\ current = NoReady /\ current' = t
       /\ IrqWoken = {}
       /\ state[u] = "READY" /\ u # t
       => Distance(last', u) < Distance(last, u)]_vars

\* A deleted task stays deleted until its slot is given to a new one.
DeletedStaysDeleted ==
  [][\A t \in Slots : state[t] = "ZOMBIE" =>
                      state'[t] \in {"ZOMBIE", "TERMINATED", "INVALID"}]_vars

-----------------------------------------------------------------------------
(* Refinement and liveness.                                                *)

\* A mutex that was handed to a task which has not returned from its lock
\* call yet has no holder, and that task is first in line.
InFlight(m) == owner[m] \in Slots /\ m \notin holds[owner[m]]

Holder == [m \in Mutexes |-> IF InFlight(m) THEN NoOwner ELSE owner[m]]
Line == [m \in Mutexes |-> IF InFlight(m) THEN <<owner[m]>> \o mwait[m] ELSE mwait[m]]

Lock == INSTANCE FifoLock WITH
  Locks <- Mutexes, Clients <- Callers, Nobody <- NoOwner, holder <- Holder, line <- Line

\* Without timeouts the host mutex is a first-come first-served lock: no
\* barging past a hand-off in flight, no mutex owned by a task that does not
\* know it.
IsFifoLock == Lock!LockSpec

\* The scheduler loop runs, a fiber that is switched in runs on, a running
\* task eventually sleeps (the scheduler is cooperative) and a critical
\* section is eventually left.
Fairness ==
  /\ WF_vars(LoopStep)
  /\ WF_vars(SleepReturn)
  /\ \A m \in Mutexes : WF_vars(MutexReturn(m))
  /\ \A s \in Sems : WF_vars(SemReturn(s))
  /\ \A t \in Slots : WF_vars(current = t /\ \E d \in Delays : Sleep(d))
  /\ \A t \in Slots : \A m \in Mutexes : SF_vars(current = t /\ MutexUnlock(m))

\* An interrupt woken task is dispatched out of turn, so a storm of interrupts
\* starves the others: interrupts come to an end.
InterruptsEnd == <>[][~\E s \in IsrSems : IsrGive(s)]_vars

FairSpec == Spec /\ Fairness /\ InterruptsEnd

\* A task that waits without a timeout for a mutex another task owns gets it,
\* unless the run ends or an owner waits for a semaphore with the mutex in hand.
\* (A mutex locked before the scheduler runs is never freed.)
LockIsGranted ==
  \A t \in Slots : \A m \in Mutexes :
    (call[t] = m /\ owner[m] \in Slots) ~>
      \/ m \in holds[t] \/ ~running
      \/ owner[m] \in Slots /\ call[owner[m]] \in Sems
=============================================================================
