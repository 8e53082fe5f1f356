------------------------------ MODULE EspTimers ------------------------------
(***************************************************************************)
(* The software timers of the ESP-IDF layer (freertos_timers.c) next to    *)
(* the other FreeRTOS calls: tasks put commands into a bounded queue, and  *)
(* a daemon task executes them and calls the callbacks of the timers that  *)
(* expire.  Every timer has a generation; a command whose generation is    *)
(* not the timer's any more is dropped.                                    *)
(*                                                                         *)
(* A callback may make any timer call, or delay; it runs in the daemon,    *)
(* where calls take effect at once.  A call on a handle that is no longer valid, or on *)
(* a full queue without a timeout, fails and changes nothing: no action.   *)
(***************************************************************************)
EXTENDS EspSync

CONSTANTS
  NTimers,      \* FREERTOS_MAX_TIMERS
  QueueLength,  \* FREERTOS_TIMER_QUEUE_LENGTH
  Periods,      \* the periods of timers, in ticks
  MaxGen        \* bound on s_global_timer_gen

ASSUME TimersAssumption ==
  /\ NTimers \in Nat \ {0} /\ QueueLength \in Nat \ {0} /\ MaxGen \in Nat
  /\ Periods \subseteq 1 .. MaxDelay

VARIABLES
  timers,    \* s_timers; expiry is relative to the clock, negative when late
  cmds,      \* s_cmd_queue
  txWaiter,  \* s_cmd_tx_waiter
  daemon,    \* s_daemon_sim_id
  asleep,    \* s_daemon_waiting
  phase,     \* where the daemon is: <<"scan", h>> is before timer h
  behind,    \* time since prvProcessExpiredTimers read the clock
  msg,       \* the command of each task that waits for room in the queue
  gen,       \* s_global_timer_gen
  want,      \* history: is the timer to run, by the commands accepted so far
  astray,    \* history: tasks that wait with a command for a deleted timer
  spoilt     \* history: timers with a command that was accepted in vain, or that
             \* were given a generation no command came of

tableVars == <<timers, gen, want, spoilt>>
sendVars == <<cmds, txWaiter>>
daemonVars == <<daemon, asleep, phase, behind>>
timerVars == <<tableVars, sendVars, daemonVars, msg, astray>>
tvars == <<vars, timerVars>>

\* what EspSync keeps and no timer call touches
syncVars == <<app, objVars, histVars>>

Handles == 0 .. NTimers - 1
FreeTimer == [used |-> FALSE, active |-> FALSE, auto |-> FALSE, work |-> FALSE,
              gen |-> 0, period |-> 0, expiry |-> 0]
Bumping  == {"stop", "change"}
Renewing == Bumping \cup {"work"}
Ops      == Renewing \cup {"start", "restart", "delete"}
NoCmd   == [op |-> "none", h |-> 0, arg |-> 0, gen |-> 0, prev |-> 0]
Commands == [op : Ops, h : Handles, arg : 0 .. MaxDelay, gen : 1 .. MaxGen,
             prev : 0 .. MaxGen]

\* Table, queue and daemon keep their types, next to those of EspSync.
TimersTypeOK ==
  /\ TypeOK
  /\ timers \in [Handles -> [used : BOOLEAN, active : BOOLEAN, auto : BOOLEAN,
                             work : BOOLEAN, gen : 0 .. MaxGen,
                             period : 0 .. MaxDelay, expiry : Int]]
  /\ \A h \in Handles : timers[h].expiry <= MaxDelay
  /\ cmds \in Seq(Commands)
  /\ Len(cmds) <= QueueLength
  /\ txWaiter \in Slots \cup {NoReady}
  /\ daemon \in Slots \cup {NoReady}
  /\ asleep \in BOOLEAN
  /\ phase \in {"top", "drain", "scan"} \X (0 .. NTimers)
  /\ behind \in Nat
  /\ msg \in [Slots -> Commands \cup {NoCmd}]
  /\ gen \in 0 .. MaxGen
  /\ want \in [Handles -> BOOLEAN]
  /\ astray \subseteq Slots /\ spoilt \subseteq Handles

TimersInit ==
  /\ Init
  /\ timers = [h \in Handles |-> FreeTimer]
  /\ cmds = <<>> /\ txWaiter = NoReady
  /\ daemon = NoReady /\ asleep = FALSE /\ phase = <<"top", 0>>
  /\ behind = 0
  /\ msg = [t \in Slots |-> NoCmd]
  /\ gen = 0
  /\ want = [h \in Handles |-> FALSE] /\ astray = {} /\ spoilt = {}

-----------------------------------------------------------------------------
(* Executing commands.                                                     *)

\* a timer after a command for it.  The expiry of a timer that is not active is
\* never read, so it is not kept; nor is the generation of a slot that is free.
Obeying(t, m) ==
  LET run(period, expiry) ==
        [t EXCEPT !.active = TRUE, !.period = period, !.expiry = expiry]
  IN CASE m.op \in {"start", "restart"} -> run(t.period, t.period)
       [] m.op = "change" -> run(m.arg, m.arg)
       [] m.op = "work"   -> run(t.period, m.arg)
       [] m.op = "stop"   -> [t EXCEPT !.active = FALSE, !.expiry = 0]
       [] OTHER           -> FreeTimer

\* mutant: the generation of a command is not looked at
ExecutedUnchecked(ts, m) ==
  IF ~ts[m.h].used THEN ts ELSE [ts EXCEPT ![m.h] = Obeying(@, m)]

\* prvExecuteCommand: the table ts after command m
Executed(ts, m) ==
  IF ~ts[m.h].used \/ ts[m.h].gen # m.gen THEN ts
  ELSE [ts EXCEPT ![m.h] = Obeying(@, m)]

\* in a callback, after timer phase[2] - 1 has expired
InCallback ==
  /\ daemon # NoReady /\ current = daemon
  /\ phase[1] = "scan" /\ phase[2] > 0

Caller(op) == InTask(op) \/ InCallback

\* tasks that wait for room with a command for timer h
Waiting(h) ==
  {t \in Slots : call[t] = <<"timer", t>> /\ t # daemon /\ msg[t].h = h}

-----------------------------------------------------------------------------
(* The daemon task.                                                        *)

\* sim_scheduler_register in prvEnsureDaemonStarted; the queue starts empty,
\* and without a free task slot the next call tries again
StartDaemon ==
  /\ IF \E t \in Slots : FirstFree(t)
     THEN \E t \in Slots :
            /\ FirstFree(t)
            /\ Register(t)
            /\ daemon' = t
            /\ call' = [call EXCEPT ![t] = <<"timer", t>>]
     ELSE UNCHANGED <<taskVars, daemon, call>>
  /\ asleep' = FALSE /\ phase' = <<"top", 0>> /\ behind' = 0
  /\ UNCHANGED <<left, stale>>

Active == {h \in Handles : timers[h].used /\ timers[h].active}
\* commands for timer h are yet to be executed
Pending(h) == \E i \in DOMAIN cmds : cmds[i].h = h /\ cmds[i].gen = timers[h].gen

Expired == {h \in Active : timers[h].expiry + behind <= 0}

AtDaemon(p) == daemon # NoReady /\ current = daemon /\ phase = p

\* no command and nothing expired: wait for a command, at most until the first
\* timer expires
Sleep ==
  /\ AtDaemon(<<"top", 0>>) /\ ~asleep /\ cmds = <<>> /\ Expired = {}
  /\ LET wait == IF Active = {} THEN 0
                  ELSE CHOOSE d \in 1 .. MaxDelay :
                         /\ \E h \in Active : timers[h].expiry = d
                         /\ \A h \in Active : d <= timers[h].expiry
     IN SyncBlock(wait) /\ StartCall(<<"timer", daemon>>, wait)
  /\ asleep' = TRUE
  /\ UNCHANGED <<syncVars, tableVars, sendVars, daemon, phase, behind, msg,
                 astray>>

Awake ==
  /\ asleep' = FALSE
  /\ left' = [left EXCEPT ![daemon] = Never]
  /\ UNCHANGED <<call, stale>>

\* prvReceiveTimerCommand and prvExecuteCommand: the sender that waits may try
\* again
Receive ==
  /\ AtDaemon(<<"top", 0>>) \/ AtDaemon(<<"drain", 0>>)
  /\ cmds # <<>>
  /\ timers' = Executed(timers, Head(cmds))
  /\ cmds' = Tail(cmds)
  /\ IF txWaiter = NoReady THEN UNCHANGED taskVars
     ELSE Resume(txWaiter, Reason)
  /\ txWaiter' = NoReady
  /\ Awake /\ phase' = <<"drain", 0>>
  /\ UNCHANGED <<syncVars, otherVars, gen, want, spoilt, daemon, behind,
                 msg, astray>>

\* the queue is empty: look for timers that have expired, however long ago
StartScan ==
  /\ \/ AtDaemon(<<"drain", 0>>)
     \/ AtDaemon(<<"top", 0>>) /\ (asleep \/ Expired # {})
  /\ cmds = <<>>
  /\ Awake /\ phase' = <<"scan", 0>>
  /\ timers' = [h \in Handles |->
       [timers[h] EXCEPT !.expiry = IF @ > 0 THEN @ ELSE 0]]
  /\ UNCHANGED <<syncVars, schedVars, gen, want, spoilt, sendVars, daemon, behind,
                 msg, astray>>

\* prvProcessExpiredTimers finds timer h expired, and its callback begins
Fire(h) ==
  /\ AtDaemon(phase) /\ phase[1] = "scan"
  /\ h \in Expired /\ h >= phase[2]
  /\ \A k \in Expired : k >= phase[2] => k >= h
  /\ timers' = [timers EXCEPT ![h] =
       IF @.work THEN FreeTimer
       ELSE IF @.auto THEN [@ EXCEPT !.expiry = timers[h].period - behind]
       ELSE [@ EXCEPT !.active = FALSE, !.expiry = 0]]
  /\ want' = [want EXCEPT ![h] =
       @ /\ (Pending(h) \/ (timers[h].auto /\ ~timers[h].work))]
  /\ phase' = <<"scan", h + 1>>
  /\ UNCHANGED <<vars, gen, spoilt, sendVars, daemon, asleep, behind, msg, astray>>

EndScan ==
  /\ AtDaemon(phase) /\ phase[1] = "scan"
  /\ \A h \in Expired : h < phase[2]
  /\ phase' = <<"top", 0>> /\ behind' = 0
  /\ UNCHANGED <<vars, tableVars, sendVars, daemon, asleep, msg, astray>>

\* a callback may block: the other timers have to wait.  The bound is on how
\* long one scan may take
CallbackDelay(d) ==
  /\ InCallback /\ "nap" \in app[current]
  /\ behind + d <= MaxDelay
  /\ IF d = 0 THEN UNCHANGED taskVars ELSE YieldTimed(current, d)
  /\ SwitchOut
  /\ UNCHANGED <<app, last, atZero, running, main, objVars, callVars, histVars,
                 timerVars>>

-----------------------------------------------------------------------------
(* Sending commands: prvSendTimerCommand.                                  *)

\* stop, change and post give the timer a new generation before they send
Command(op, h, arg) ==
  [op |-> op, h |-> h, arg |-> arg, prev |-> timers[h].gen,
   gen |-> IF op \in Renewing THEN gen + 1 ELSE timers[h].gen]

\* the table when command m is sent
Marked(m) ==
  CASE m.op \in Bumping -> [timers EXCEPT ![m.h].gen = m.gen]
    [] m.op = "work"    -> [timers EXCEPT ![m.h] =
                [FreeTimer EXCEPT !.used = TRUE, !.work = TRUE, !.gen = m.gen]]
    [] OTHER            -> timers

\* and when the send has succeeded: a deleted timer is gone at once
Settled(ts, m) == IF m.op = "delete" THEN [ts EXCEPT ![m.h] = FreeTimer] ELSE ts

Wanted(m) == [want EXCEPT ![m.h] = m.op \notin {"stop", "delete"}]

\* tasks that wait with a command for a timer that is deleted now
Stranded(m) == IF m.op = "delete" THEN Waiting(m.h) ELSE {}

Queued == {cmds[i].h : i \in DOMAIN cmds}
Spoilt(hs) == spoilt' = {h \in spoilt \cup hs : timers'[h].used}

\* a call from a callback is executed at once, before the commands in the queue
CallFromCallback(m) ==
  /\ InCallback
  /\ timers' = Settled(Executed(Marked(m), m), m)
  /\ want' = IF m.op \in {"start", "restart"} /\ Pending(m.h) THEN want
             ELSE Wanted(m)
  /\ Spoilt({})
  /\ astray' = astray \cup Stranded(m)
  /\ UNCHANGED <<vars, sendVars, daemonVars, msg>>

\* mutant: a daemon that sleeps is not woken
EnqueueSilently(m) ==
  /\ cmds' = Append(cmds, m)
  /\ UNCHANGED taskVars

\* the command goes into the queue, and the daemon is woken if it sleeps
Enqueue(m) ==
  /\ cmds' = Append(cmds, m)
  /\ IF asleep THEN Resume(daemon, Reason) ELSE UNCHANGED taskVars

\* there is room; a daemon that could not be started is tried again, with an
\* empty queue
CallAccepted(m) ==
  /\ InTask(m.op)
  /\ IF daemon = NoReady
     THEN StartDaemon /\ cmds' = <<m>>
     ELSE /\ Len(cmds) < QueueLength
          /\ Enqueue(m)
          /\ UNCHANGED <<daemonVars, callVars>>
  /\ timers' = Settled(Marked(m), m)
  /\ want' = Wanted(m)
  /\ Spoilt(IF daemon = NoReady THEN Queued ELSE {})
  /\ astray' = astray \cup Stranded(m)
  /\ UNCHANGED <<syncVars, otherVars, txWaiter, msg>>

\* the caller waits for room, in place of whoever waited before
WaitForRoom(timeout) ==
  /\ txWaiter' = current
  /\ lost' = IF txWaiter \in Slots \ {current} /\ state[txWaiter] = "BLOCKED"
             THEN lost \cup {txWaiter} ELSE lost
  /\ SyncBlock(timeout)

CallWaits(m, timeout) ==
  /\ InTask(m.op) /\ daemon # NoReady
  /\ Len(cmds) >= QueueLength
  /\ m.op # "work"
  /\ timers' = Marked(m)
  /\ msg' = [msg EXCEPT ![current] = m]
  /\ StartCall(<<"timer", current>>, timeout)
  /\ WaitForRoom(timeout)
  /\ UNCHANGED <<app, objVars, holds, stray, want, spoilt, cmds, daemonVars,
                 astray>>

Call(m) ==
  \/ CallFromCallback(m)
  \/ CallAccepted(m)
  \/ \E d \in Timeouts : CallWaits(m, d)

\* xTimerStart, xTimerReset, xTimerStop, xTimerChangePeriod, xTimerDelete
TimerCall(op, h, arg) ==
  /\ timers[h].used /\ ~timers[h].work
  /\ op \in Bumping => gen < MaxGen
  /\ gen' = IF op \in Bumping THEN gen + 1 ELSE gen
  /\ Call(Command(op, h, arg))

FreeSlot(h) == ~timers[h].used /\ \A k \in Handles : k < h => timers[k].used

\* xTimerCreate
TimerCreate(h, period, auto) ==
  /\ Caller("timer")
  /\ FreeSlot(h) /\ gen < MaxGen
  /\ gen' = gen + 1
  /\ timers' = [timers EXCEPT ![h] =
       [FreeTimer EXCEPT !.used = TRUE, !.auto = auto, !.period = period,
                         !.gen = gen + 1]]
  /\ want' = [want EXCEPT ![h] = FALSE]
  /\ IF daemon = NoReady
     THEN StartDaemon /\ cmds' = <<>> /\ Spoilt(Queued)
     ELSE UNCHANGED <<taskVars, daemonVars, callVars, cmds, spoilt>>
  /\ UNCHANGED <<syncVars, otherVars, txWaiter, msg, astray>>

\* esp_freertos_timer_post_work_item: a one-shot slot and its command
PostWork(h, delay) ==
  /\ FreeSlot(h) /\ gen < MaxGen
  /\ gen' = gen + 1
  /\ Call(Command("work", h, delay))

\* esp_freertos_timer_cancel_work_item
CancelWork(h) ==
  /\ Caller("cancel")
  /\ timers[h].used /\ timers[h].work
  /\ timers' = [timers EXCEPT ![h] = FreeTimer]
  /\ Spoilt({})
  /\ UNCHANGED <<vars, gen, want, sendVars, daemonVars, msg, astray>>

\* vTimerSetReloadMode does not go through the queue
SetReload(h, auto) ==
  /\ Caller("reload")
  /\ timers[h].used /\ ~timers[h].work
  /\ timers' = [timers EXCEPT ![h].auto = auto]
  /\ UNCHANGED <<vars, gen, want, spoilt, sendVars, daemonVars, msg, astray>>

-----------------------------------------------------------------------------
(* The task that waited for room runs again.                               *)

BackInSend ==
  current \in Slots \ {daemon} /\ call[current] = <<"timer", current>>

Full == Len(cmds) >= QueueLength

EndSend ==
  /\ EndCall
  /\ txWaiter' = IF txWaiter = current THEN NoReady ELSE txWaiter
  /\ msg' = [msg EXCEPT ![current] = NoCmd]
  /\ lost' = lost \ {current}
  /\ UNCHANGED <<app, objVars, holds, stray, otherVars, gen, daemonVars>>

\* there is room, woken or timed out.  A command the timer has outgrown is
\* accepted as well; and a delete deletes what is in the slot now
SendAccepted ==
  /\ BackInSend /\ ~Full
  /\ LET m == msg[current]
         live == current \notin astray /\ timers[m.h].gen = m.gen
     IN /\ Enqueue(m)
        /\ timers' = Settled(timers, m)
        /\ want' = IF live THEN Wanted(m) ELSE want
        /\ Spoilt(IF live \/ current \in astray THEN {} ELSE {m.h})
        /\ astray' = (astray \cup Stranded(m)) \ {current}
  /\ EndSend

\* the time is up: a stop or change takes its generation back, whatever
\* happened to the slot meanwhile
SendFails ==
  /\ BackInSend /\ Full
  /\ timeoutFired[current] \/ left[current] = 0
  /\ LET m == msg[current]
     IN IF m.op \in Bumping /\ timers[m.h].used
        THEN timers' = [timers EXCEPT ![m.h].gen = m.prev] /\ Spoilt({m.h})
        ELSE UNCHANGED <<timers, spoilt>>
  /\ astray' = astray \ {current}
  /\ UNCHANGED <<taskVars, cmds, want>>
  /\ EndSend

\* woken, but somebody else took the room
SendWaitsAgain ==
  /\ BackInSend /\ Full
  /\ ~timeoutFired[current] /\ left[current] # 0
  /\ WaitForRoom(IF left[current] = Never THEN 0 ELSE left[current])
  /\ UNCHANGED <<app, objVars, holds, stray, callVars, tableVars, cmds, daemonVars, msg,
                 astray>>

-----------------------------------------------------------------------------
TimerStep ==
  \/ \E h \in Handles :
       \/ \E op \in {"start", "restart", "stop", "delete"} : TimerCall(op, h, 0)
       \/ \E p \in Periods : \/ TimerCall("change", h, p)
                             \/ \E auto \in BOOLEAN : TimerCreate(h, p, auto)
       \/ \E d \in Delays : PostWork(h, d)
       \/ CancelWork(h)
       \/ \E auto \in BOOLEAN : SetReload(h, auto)
  \/ SendAccepted \/ SendFails \/ SendWaitsAgain

DaemonStep ==
  Sleep \/ Receive \/ StartScan \/ (\E h \in Handles : Fire(h)) \/ EndScan
  \/ \E d \in Delays : CallbackDelay(d)

\* time passes for the timers, too
TimersTick ==
  /\ Tick
  /\ timers' = [h \in Handles |->
       IF h \in Active THEN [timers[h] EXCEPT !.expiry = @ - Passed] ELSE timers[h]]
  /\ behind' = IF phase[1] = "scan" THEN behind + Passed ELSE 0
  /\ UNCHANGED <<gen, want, spoilt, sendVars, daemon, asleep, phase, msg, astray>>

\* nobody deletes or suspends the daemon: only its callbacks have its handle
DaemonLeftAlone == daemon # NoReady => ~TaskDelete(daemon) /\ ~Suspend(daemon)

\* timers of which a task that is deleted now waited with a stop or a change
Abandoned ==
  {h \in Handles : \E t \in Waiting(h) \ astray :
                     call'[t] = Idle /\ msg[t].op \in Bumping}

SyncStep ==
  /\ LineStep \/ GroupStep \/ NotifyStep \/ ObjectStep \/ TaskStep \/ Dispatch
  /\ DaemonLeftAlone
  /\ spoilt' = spoilt \cup Abandoned
  /\ astray' = {t \in astray : call'[t] # Idle}
  /\ UNCHANGED <<timers, gen, want, sendVars, daemonVars, msg>>

TimersNext == SyncStep \/ TimersTick \/ TimerStep \/ DaemonStep

TimersSpec == TimersInit /\ [][TimersNext]_tvars

-----------------------------------------------------------------------------
(* Properties.                                                             *)

\* The daemon never sleeps while a command waits, nor past the expiry of a timer;
\* and a sender sleeps only while the queue is full and the daemon knows of it,
\* unless another sender took its place in s_cmd_tx_waiter.
DaemonIsOnTime ==
  /\ daemon # NoReady /\ asleep /\ state[daemon] = "BLOCKED" =>
       /\ cmds = <<>>
       /\ \A h \in Active : due[daemon] \in 0 .. timers[h].expiry
  /\ \A t \in Slots \ {daemon} :
       state[t] = "BLOCKED" /\ call[t] = <<"timer", t>> /\ t \notin lost =>
         txWaiter = t /\ Full

\* Once the daemon has taken every command, a timer runs exactly if the last
\* accepted call wanted it to and it has not expired for good since: no command
\* for an earlier timer in the same slot touches it, and none is dropped or
\* overtaken.  Excepted are timers of which a stop or change that had to wait
\* is under way, failed or ended with its task, a command was overtaken while it
\* waited, or the queue was set up anew with commands in it.
AcceptedTakesEffect ==
  cmds = <<>> =>
    \A h \in Handles \ spoilt :
      timers[h].used
        /\ (\A t \in Waiting(h) \ astray : msg[t].op \notin Bumping)
      => timers[h].active = want[h]
=============================================================================
