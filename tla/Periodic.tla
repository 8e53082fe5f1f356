------------------------------- MODULE Periodic -------------------------------
(***************************************************************************)
(* Periodic callbacks with a task of their own (WINK_PERIODIC_MAY_BLOCK):  *)
(* runtime/src/wink_runtime_tasks.c on a simulation target, where tasks    *)
(* are fibers and the clock moves only when everybody is blocked.  LIGHT   *)
(* entries run on soft timers and are left out.                            *)
(*                                                                         *)
(* Time is relative to the clock and in units of the 1 ms retry sleep.  A  *)
(* call that is refused (no free slot, bad handle, zero period) leaves the *)
(* state as it is and has no action.  The two semaphores of an entry exist *)
(* exactly while its kind is TASK: they are created and destroyed in one   *)
(* cooperative step with it.                                               *)
(***************************************************************************)
EXTENDS Integers, FiniteSets

CONSTANTS
  Entries,     \* slots of s_periodic
  Tasks,       \* task slots the scheduler has for periodic_task_fn
  Periods,     \* periods in use
  Durations,   \* how long a callback may block
  StopWait,    \* how long wink_periodic_stop waits for done_sem (500 ms)
  SelfStop,    \* a callback may stop its own entry
  MaxStarts,   \* bound on calls of wink_periodic_start_ex
  MaxChanges   \* bound on calls of wink_periodic_change_period

ASSUME PeriodicAssumption ==
  /\ Periods \subseteq Nat \ {0}
  /\ Durations \subseteq Nat
  /\ StopWait \in Nat \ {0}
  /\ SelfStop \in BOOLEAN
  /\ MaxStarts \in Nat /\ MaxChanges \in Nat

VARIABLES
  kind,     \* periodic_entry_t.kind: FREE or TASK
  period,   \* periodic_entry_t.period_ms, 0 in a free entry
  stopReq,  \* u.task.stop_requested
  wake,     \* a token is stored in u.task.wake_sem
  done,     \* a token is stored in u.task.done_sem
  pc,       \* where each task is
  entry,    \* the entry periodic_task_fn was started with
  anchor,   \* next_wake - now
  due,      \* time left in the callback, the sleep or the wait
  app,      \* the entry the application waits to see stopped, or Idle
  appDue,   \* time left of that wait
  starts,   \* calls of wink_periodic_start_ex so far
  changes,  \* calls of wink_periodic_change_period so far
  since,    \* history: time since the task's last callback began, or Long
  ran,      \* history: how long the task's last callback took
  changed,  \* history: the entry's period was changed since it was started
  gaveUp,   \* history: some stop returned although the task had not ended
  overlong  \* history: some callback blocked as long as a stop waits, or
            \* stopped its own entry

entryVars == <<kind, period, stopReq, wake, done>>
taskVars  == <<pc, entry, anchor, due>>
appVars   == <<app, appDue>>
histVars  == <<since, ran, changed, gaveUp, overlong>>
bounds   == <<starts, changes>>
vars == <<entryVars, taskVars, appVars, bounds, histVars>>

Idle == "idle"
ASSUME IdleAssumption == Idle \notin Entries

ASSUME TimesAreBounded ==
  \E m \in Periods \cup Durations : \A k \in Periods \cup Durations : k <= m

\* the history counters stop at Long
Longest == CHOOSE m \in Periods \cup Durations :
             \A k \in Periods \cup Durations : k <= m
Long    == Longest + 2

Points == {"none", "top", "callback", "waiting", "sleeping", "stopping"}

TypeOK ==
  /\ kind \in [Entries -> {"FREE", "TASK"}]
  /\ period \in [Entries -> Periods \cup {0}]
  /\ stopReq \in [Entries -> BOOLEAN]
  /\ wake \in [Entries -> BOOLEAN]
  /\ done \in [Entries -> BOOLEAN]
  /\ pc \in [Tasks -> Points]
  /\ entry \in [Tasks -> Entries]
  /\ anchor \in [Tasks -> Int]
  /\ due \in [Tasks -> Nat]
  /\ app \in Entries \cup {Idle}
  /\ appDue \in 0 .. StopWait
  /\ starts \in 0 .. MaxStarts
  /\ changes \in 0 .. MaxChanges
  /\ since \in [Tasks -> 0 .. Long]
  /\ ran \in [Tasks -> Durations \cup {0}]
  /\ changed \in [Entries -> BOOLEAN]
  /\ gaveUp \in BOOLEAN
  /\ overlong \in BOOLEAN

Init ==
  /\ kind = [e \in Entries |-> "FREE"]
  /\ period = [e \in Entries |-> 0]
  /\ stopReq = [e \in Entries |-> FALSE]
  /\ wake = [e \in Entries |-> FALSE]
  /\ done = [e \in Entries |-> FALSE]
  /\ pc = [t \in Tasks |-> "none"]
  /\ entry \in [Tasks -> Entries]
  /\ anchor = [t \in Tasks |-> 0]
  /\ due = [t \in Tasks |-> 0]
  /\ app = Idle
  /\ appDue = 0
  /\ starts = 0
  /\ changes = 0
  /\ since = [t \in Tasks |-> Long]
  /\ ran = [t \in Tasks |-> 0]
  /\ changed = [e \in Entries |-> FALSE]
  /\ gaveUp = FALSE
  /\ overlong = FALSE

\* a callback executes: it has just begun, or its blocking is over
InCallback(t) == pc[t] = "callback" /\ (since[t] = 0 \/ due[t] = 0)

\* the application runs, or a callback of this very entry
CanCall(e) == app = Idle \/ \E t \in Tasks : InCallback(t) /\ entry[t] = e

\* pal_os_sem_give(e->u.task.wake_sem): a waiting task gets the token, and
\* pcs is what that makes of the control points
GiveWake(e, pcs) ==
  LET sleepers == {t \in Tasks : pc[t] = "waiting" /\ entry[t] = e}
  IN IF sleepers = {}
     THEN wake' = [wake EXCEPT ![e] = TRUE] /\ pcs = pc
     ELSE /\ \E t \in sleepers : pcs = [pc EXCEPT ![t] = "top"]
          /\ UNCHANGED wake

\* mutant: an overrun does not restart the schedule
NextAnchorKept(next) == next

\* a next_wake that has passed restarts the schedule at now, after 1 ms
NextAnchor(next) == IF next <= 0 THEN 0 ELSE next
WaitUntil(next)  == IF next <= 0 THEN 1 ELSE next

\* memset(e, 0, sizeof(*e)), after both semaphores are destroyed: a task that
\* still waits on one of them is left with its timeout
Clear(e) ==
  /\ kind' = [kind EXCEPT ![e] = "FREE"]
  /\ period' = [period EXCEPT ![e] = 0]
  /\ stopReq' = [stopReq EXCEPT ![e] = FALSE]
  /\ wake' = [wake EXCEPT ![e] = FALSE]
  /\ done' = [done EXCEPT ![e] = FALSE]

Abandoned(e) == [t \in Tasks |-> IF pc[t] = "waiting" /\ entry[t] = e
                                 THEN "sleeping" ELSE pc[t]]

-----------------------------------------------------------------------------
\* wink_periodic_start_ex
Start(e, t, p) ==
  /\ app = Idle
  /\ starts < MaxStarts
  /\ kind[e] = "FREE" /\ pc[t] = "none"
  /\ starts' = starts + 1
  /\ kind' = [kind EXCEPT ![e] = "TASK"]
  /\ period' = [period EXCEPT ![e] = p]
  /\ stopReq' = [stopReq EXCEPT ![e] = FALSE]
  /\ wake' = [wake EXCEPT ![e] = FALSE]
  /\ done' = [done EXCEPT ![e] = FALSE]
  /\ pc' = [pc EXCEPT ![t] = "top"]
  /\ entry' = [entry EXCEPT ![t] = e]
  /\ anchor' = [anchor EXCEPT ![t] = 0]
  /\ since' = [since EXCEPT ![t] = Long]
  /\ ran' = [ran EXCEPT ![t] = 0]
  /\ changed' = [changed EXCEPT ![e] = FALSE]
  /\ UNCHANGED <<due, appVars, changes, gaveUp, overlong>>

\* wink_periodic_change_period
ChangePeriod(e, p) ==
  /\ CanCall(e)
  /\ changes < MaxChanges
  /\ kind[e] = "TASK"
  /\ changes' = changes + 1
  /\ period' = [period EXCEPT ![e] = p]
  /\ changed' = [changed EXCEPT ![e] = TRUE]
  /\ GiveWake(e, pc')
  /\ UNCHANGED <<kind, stopReq, done, entry, anchor, due, appVars, starts, since,
                 ran, gaveUp, overlong>>

\* mutant: the task is not woken, it sees the request when its wait is over
StopBeginWithoutWake(e) ==
  /\ app = Idle
  /\ kind[e] = "TASK"
  /\ stopReq' = [stopReq EXCEPT ![e] = TRUE]
  /\ IF done[e] THEN done' = [done EXCEPT ![e] = FALSE] /\ appDue' = 0
     ELSE UNCHANGED done /\ appDue' = StopWait
  /\ app' = e
  /\ UNCHANGED <<kind, period, wake, pc, entry, anchor, due, bounds, histVars>>

\* mutant: done_sem is tried once and not waited for
StopBeginImpatient(e) ==
  /\ app = Idle
  /\ kind[e] = "TASK"
  /\ stopReq' = [stopReq EXCEPT ![e] = TRUE]
  /\ GiveWake(e, pc')
  /\ done' = [done EXCEPT ![e] = FALSE]
  /\ appDue' = 0
  /\ app' = e
  /\ UNCHANGED <<kind, period, entry, anchor, due, bounds, histVars>>

\* wink_periodic_stop up to the wait for done_sem, by the application
StopBegin(e) ==
  /\ app = Idle
  /\ kind[e] = "TASK"
  /\ stopReq' = [stopReq EXCEPT ![e] = TRUE]
  /\ GiveWake(e, pc')
  /\ IF done[e] THEN done' = [done EXCEPT ![e] = FALSE] /\ appDue' = 0
     ELSE UNCHANGED done /\ appDue' = StopWait
  /\ app' = e
  /\ UNCHANGED <<kind, period, entry, anchor, due, bounds, histVars>>

\* the rest of it: done_sem was given or the wait timed out, whichever
StopEnd ==
  /\ app # Idle /\ appDue = 0
  /\ Clear(app)
  /\ pc' = Abandoned(app)
  /\ gaveUp' = (gaveUp \/ \E t \in Tasks : pc[t] # "none" /\ entry[t] = app)
  /\ app' = Idle
  /\ UNCHANGED <<entry, anchor, due, appDue, bounds, since, ran, changed, overlong>>

\* the same call as the last act of the entry's own callback: the task that
\* would give done_sem is the one that waits for it
SelfStopBegin(t) ==
  /\ SelfStop
  /\ pc[t] = "callback" /\ due[t] = 0 /\ kind[entry[t]] = "TASK"
  /\ stopReq' = [stopReq EXCEPT ![entry[t]] = TRUE]
  /\ \E pcs \in [Tasks -> Points] :
       /\ GiveWake(entry[t], pcs)
       /\ pc' = [pcs EXCEPT ![t] = "stopping"]
  /\ due' = [due EXCEPT ![t] = IF done[entry[t]] THEN 0 ELSE StopWait]
  /\ done' = [done EXCEPT ![entry[t]] = FALSE]
  /\ overlong' = TRUE
  /\ UNCHANGED <<kind, period, entry, anchor, appVars, bounds, since, ran, changed,
                 gaveUp>>

SelfStopEnd(t) ==
  /\ pc[t] = "stopping" /\ due[t] = 0
  /\ Clear(entry[t])
  /\ pc' = [Abandoned(entry[t]) EXCEPT ![t] = "sleeping"]
  /\ anchor' = [anchor EXCEPT ![t] = NextAnchor(@)]
  /\ due' = [due EXCEPT ![t] = WaitUntil(anchor[t])]
  /\ gaveUp' = TRUE
  /\ UNCHANGED <<entry, appVars, bounds, since, ran, changed, overlong>>

-----------------------------------------------------------------------------
(* periodic_task_fn.                                                       *)

\* after the callback, next_wake advanced to next: wait for wake_sem or sleep
Rest(t, next) ==
  LET e == entry[t] IN
  /\ anchor' = [anchor EXCEPT ![t] = NextAnchor(next)]
  /\ IF wake[e]
     THEN /\ wake' = [wake EXCEPT ![e] = FALSE]
          /\ pc' = [pc EXCEPT ![t] = "top"]
          /\ UNCHANGED due
     ELSE /\ pc' = [pc EXCEPT ![t] = IF kind[e] = "FREE" THEN "sleeping"
                                     ELSE "waiting"]
          /\ due' = [due EXCEPT ![t] = WaitUntil(next)]
          /\ UNCHANGED wake

\* top of the loop with stop_requested: give done_sem and end the task
Leave(t) ==
  LET e == entry[t] IN
  /\ pc[t] = "top" /\ stopReq[e]
  /\ pc' = [pc EXCEPT ![t] = "none"]
  /\ IF app = e /\ appDue > 0
     THEN appDue' = 0 /\ UNCHANGED done
     ELSE done' = [done EXCEPT ![e] = TRUE] /\ UNCHANGED appDue
  /\ anchor' = [anchor EXCEPT ![t] = 0]    \* its stack is gone
  /\ due' = [due EXCEPT ![t] = 0]
  /\ since' = [since EXCEPT ![t] = Long]
  /\ ran' = [ran EXCEPT ![t] = 0]
  /\ UNCHANGED <<kind, period, stopReq, wake, entry, app, bounds, changed, gaveUp,
                 overlong>>

\* top of the loop otherwise: call fn, which may block for d
Fire(t, d) ==
  /\ pc[t] = "top" /\ ~stopReq[entry[t]] /\ kind[entry[t]] = "TASK"
  /\ pc' = [pc EXCEPT ![t] = "callback"]
  /\ due' = [due EXCEPT ![t] = d]
  /\ since' = [since EXCEPT ![t] = 0]
  /\ ran' = [ran EXCEPT ![t] = d]
  /\ overlong' = (overlong \/ d >= StopWait)
  /\ UNCHANGED <<entryVars, entry, anchor, appVars, bounds, changed, gaveUp>>

\* top of the loop with a cleared entry: fn is NULL
FireNothing(t) ==
  /\ pc[t] = "top" /\ ~stopReq[entry[t]] /\ kind[entry[t]] = "FREE"
  /\ Rest(t, anchor[t] + period[entry[t]])
  /\ UNCHANGED <<kind, period, stopReq, done, entry, appVars, bounds, histVars>>

Return(t) ==
  /\ pc[t] = "callback" /\ due[t] = 0
  /\ Rest(t, anchor[t] + period[entry[t]])
  /\ UNCHANGED <<kind, period, stopReq, done, entry, appVars, bounds, histVars>>

\* mutant: the wait is for wake_sem only
ExpireNever(t) ==
  /\ pc[t] = "sleeping" /\ due[t] = 0
  /\ pc' = [pc EXCEPT ![t] = "top"]
  /\ UNCHANGED <<entryVars, entry, anchor, due, appVars, bounds, histVars>>

\* the sem_take or the sleep times out
Expire(t) ==
  /\ pc[t] \in {"waiting", "sleeping"} /\ due[t] = 0
  /\ pc' = [pc EXCEPT ![t] = "top"]
  /\ UNCHANGED <<entryVars, entry, anchor, due, appVars, bounds, histVars>>

\* everybody is blocked: the clock moves on
Blocked(t) == pc[t] = "none" \/ (pc[t] # "top" /\ due[t] > 0)

Tick ==
  /\ \A t \in Tasks : Blocked(t)
  /\ app # Idle => appDue > 0
  /\ \/ app # Idle \/ \E t \in Tasks : pc[t] # "none"
  /\ due' = [t \in Tasks |-> IF pc[t] = "none" THEN due[t] ELSE due[t] - 1]
  /\ anchor' = [t \in Tasks |-> IF pc[t] = "none" THEN anchor[t]
                                ELSE anchor[t] - 1]
  /\ since' = [t \in Tasks |-> IF pc[t] = "none" \/ since[t] = Long
                               THEN since[t] ELSE since[t] + 1]
  /\ appDue' = IF app = Idle THEN appDue ELSE appDue - 1
  /\ UNCHANGED <<entryVars, pc, entry, app, bounds, ran, changed,
                 gaveUp, overlong>>

-----------------------------------------------------------------------------
Calls ==
  \/ StopEnd
  \/ \E e \in Entries :
       \/ StopBegin(e)
       \/ \E p \in Periods : ChangePeriod(e, p) \/ \E t \in Tasks : Start(e, t, p)

TaskStep(t) ==
  \/ Leave(t) \/ FireNothing(t) \/ Return(t) \/ Expire(t)
  \/ SelfStopBegin(t) \/ SelfStopEnd(t)
  \/ \E d \in Durations : Fire(t, d)

Next == Calls \/ Tick \/ \E t \in Tasks : TaskStep(t)

\* The scheduler runs whoever is ready, the clock moves when nobody is, and a
\* wait for done_sem that is over returns.
Fairness ==
  /\ WF_vars(Tick)
  /\ WF_vars(StopEnd)
  /\ \A t \in Tasks : WF_vars(TaskStep(t))

Spec == Init /\ [][Next]_vars
FairSpec == Spec /\ Fairness

-----------------------------------------------------------------------------
Live == {t \in Tasks : pc[t] # "none"}

\* A task ends before its entry is given back, and an entry started again is
\* not served by two tasks.
StopDeletesTask ==
  /\ \A t \in Live : kind[entry[t]] = "TASK"
  /\ \A t, u \in Live : entry[t] = entry[u] => t = u

\* While every callback so far blocks for less than wink_periodic_stop waits and
\* none stops its own entry, a stop returns after its task: wherever the stop
\* finds the task, in a callback, in its wait or on its way to the next one,
\* and whatever tokens are left over, the wait for done_sem lasts until the
\* task has left.  The exception is what callbacks did, not what a stop did.
HandshakeDeletesTask == overlong \/ StopDeletesTask

\* A stop by the application gives up only on a callback that blocks longer
\* than the stop waits, or on one that stops itself: a callback that is
\* shorter never makes the handshake time out, wherever the task is.
GivesUpOnlyOnLong ==
  [][~gaveUp /\ gaveUp' =>
       \E t \in Live : pc[t] = "stopping" \/ ran[t] >= StopWait]_vars

\* Absolute-time scheduling.  While the period is not changed, callbacks
\* begin at most one period apart unless one of them overran, and a task that
\* is late drops the slots it missed instead of calling fn in a burst: two
\* callbacks never begin closer than the period less the retry sleep.
NoDriftNoBurst ==
  [][\A t \in Tasks :
       LET e == entry[t] IN
       /\ pc[t] = "top" /\ pc'[t] = "callback"
       /\ ~gaveUp /\ ~changed[e] /\ since[t] < Long
       => /\ since[t] >= period[e] - 1
          /\ ran[t] < period[e] => since[t] <= period[e]]_vars

\* A started entry calls fn again and again until it is stopped.
KeepsFiring ==
  \A t \in Tasks :
    (pc[t] = "waiting") ~> (pc[t] \in {"callback", "none"} \/ gaveUp)
=============================================================================
