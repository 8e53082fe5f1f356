------------------------------- MODULE EspSync -------------------------------
(***************************************************************************)
(* The FreeRTOS calls of the ESP-IDF compatibility layer (queues,          *)
(* semaphores, event groups, task notifications and task control in        *)
(* frameworks/esp_idf/src/freertos) on top of SimScheduler.                *)
(*                                                                         *)
(* A wait point is <<"send", q>>, <<"recv", q>> or <<"take", s>>; each has *)
(* a line of waiters, and a peek waits in the line of the receivers.  The  *)
(* clock unit is a tick, and 0 among the timeouts is portMAX_DELAY: a call *)
(* that would block with a timeout of 0 ticks, or on a handle that is no   *)
(* longer valid, fails and changes nothing, so it has no action.  What is  *)
(* in a queue is not told apart, only how much.                            *)
(***************************************************************************)
EXTENDS SimScheduler, SequencesExt

CONSTANTS
  Queues,     \* slots of s_queues
  Sems,       \* slots of s_sems
  Mutexes,    \* those of them created by xSemaphoreCreateMutex
  Groups,     \* slots of s_events
  Bits,       \* event bits
  Needs,      \* what tasks wait for: bits, all or any of them, cleared or not
  Capacity,   \* max_items of each queue
  MaxCount,   \* max_count of each semaphore
  Priority,   \* prio of the task in each slot
  MaxNotify,  \* bound on notify_val
  MaxStray,   \* bound on gives of a mutex by somebody who does not hold it
  Timeouts,   \* the timeouts of blocking calls; 0 stands for portMAX_DELAY
  Delays,     \* the ticks tasks delay for
  Apps        \* the applications: for each task slot the calls its task
              \* makes, and for NoReady those of the interrupt handlers

ASSUME ObjectAssumption ==
  /\ Mutexes \subseteq Sems
  /\ Queues \cap Sems = {} /\ Queues \cap Groups = {} /\ Sems \cap Groups = {}
  /\ (Queues \cup Sems \cup Groups) \cap Slots = {}
  /\ Needs \subseteq [bits : SUBSET Bits, all : BOOLEAN, clear : BOOLEAN]
  /\ \A n \in Needs : n.bits # {}
ASSUME SizeAssumption ==
  /\ Capacity \in [Queues -> Nat \ {0}]
  /\ MaxCount \in [Sems -> Nat \ {0}] /\ \A s \in Mutexes : MaxCount[s] = 1
  /\ MaxNotify \in Nat /\ MaxStray \in Nat
ASSUME TaskAssumption ==
  /\ Priority \in [Slots -> 0 .. 24]
  /\ Timeouts \subseteq 0 .. MaxDelay /\ Delays \subseteq 0 .. MaxDelay
  /\ Apps # {} /\ \A a \in Apps : DOMAIN a = Slots \cup {NoReady}

VARIABLES
  app,      \* the application that runs
  used,     \* the objects that exist
  items,    \* cur_items of each queue
  count,    \* count of each semaphore
  line,     \* the waiters of each wait point
  bits,     \* cur_bits of each event group
  gwait,    \* event_waiter_t of each event group
  notify,   \* notify_val of each task slot
  call,     \* where a fiber is suspended: <<operation, object>>
  left,     \* remaining of a call that waits, less what has elapsed
  stale,    \* tasks that wait on an object that was deleted meanwhile
  holds,    \* history: mutexes each task has taken and not given
  stray,    \* history: how often each mutex was given by somebody else
  lost      \* history: the objects a wake-up was lost for, the tasks suspended
            \* or not listed

queueVars == <<items, count, line>>
groupVars == <<bits, gwait>>
objVars   == <<used, queueVars, groupVars, notify>>
callVars  == <<call, left, stale>>
histVars  == <<holds, stray, lost>>
vars      == <<app, schedVars, objVars, callVars, histVars>>

\* what the loop keeps besides the task table
otherVars == <<current, atZero, loopVars>>

Objects    == Queues \cup Sems \cup Groups
WaitPoints == ({"send", "recv"} \X Queues) \cup ({"take"} \X Sems)
Idle       == <<"idle", 0>>
Calls      == WaitPoints \cup ({"peek"} \X Queues)
                \cup ({"bits"} \X Groups \X Needs)
                \cup ({"notified", "timer"} \X Slots) \cup {Idle}

\* the line a call waits in
LineOf(c) == IF c[1] = "peek" THEN <<"recv", c[2]>> ELSE c

Lines   == UNION {[1 .. n -> Slots] : n \in 0 .. N}
Waiters == [task : Slots, need : Needs, woken : BOOLEAN]
WaiterLists == UNION {[1 .. n -> Waiters] : n \in 0 .. N}

In(t, l) == \E i \in DOMAIN l : l[i] = t

TypeOK ==
  /\ app \in Apps
  /\ SchedTypeOK
  /\ used \subseteq Objects
  /\ items \in [Queues -> Nat] /\ \A q \in Queues : items[q] <= Capacity[q]
  /\ count \in [Sems -> Nat] /\ \A s \in Sems : count[s] <= MaxCount[s]
  /\ line \in [WaitPoints -> Lines]
  /\ bits \in [Groups -> SUBSET Bits]
  /\ gwait \in [Groups -> WaiterLists]
  /\ notify \in [Slots -> 0 .. MaxNotify]
  /\ call \in [Slots -> Calls]
  /\ left \in [Slots -> {Never} \cup 0 .. MaxDelay]
  /\ stale \subseteq Slots
  /\ holds \in [Slots -> SUBSET Mutexes]
  /\ stray \in [Mutexes -> 0 .. MaxStray]
  /\ lost \subseteq Objects \cup Slots

Init ==
  /\ app \in Apps
  /\ SchedInit
  /\ used = Objects
  /\ items = [q \in Queues |-> 0]
  /\ count = [s \in Sems |-> IF s \in Mutexes THEN 1 ELSE 0]
  /\ line = [w \in WaitPoints |-> <<>>]
  /\ bits = [g \in Groups |-> {}]
  /\ gwait = [g \in Groups |-> <<>>]
  /\ notify = [t \in Slots |-> 0]
  /\ call = [t \in Slots |-> Idle]
  /\ left = [t \in Slots |-> Never]
  /\ stale = {}
  /\ holds = [t \in Slots |-> {}]
  /\ stray = [s \in Mutexes |-> 0]
  /\ lost = {}

-----------------------------------------------------------------------------
(* Who calls, and lines of waiters.                                        *)

AtStart     == ~running /\ main = NoReady
InTask(op)  == current \in Slots /\ call[current] = Idle /\ op \in app[current]
InIsr(op)   == AtLoopTop /\ op \in app[NoReady]
CanCall(op) == InTask(op) \/ InIsr(op)

\* sim_scheduler_resume records whether an interrupt is the cause
Reason == IF current = NoReady THEN "IRQ" ELSE "SYNC_RES"

\* waiter_remove takes out the first entry of t, the only one: waiter_add looks
Place(l, t)   == CHOOSE i \in DOMAIN l : l[i] = t /\ \A j \in 1 .. i - 1 : l[j] # t
Without(l, t) == IF In(t, l) THEN RemoveAt(l, Place(l, t)) ELSE l
Join(l, t)    == IF In(t, l) \/ Len(l) >= N THEN l ELSE Append(l, t)

\* a semaphore notes the priority of a waiter, a queue looks it up: that of a
\* deleted task is 0
Rank(w, t) ==
  IF w[1] # "take" /\ (Free(t) \/ state[t] = "ZOMBIE") THEN 0 ELSE Priority[t]

\* the first of the highest priority at wait point w
First(w) ==
  CHOOSE i \in DOMAIN line[w] :
    /\ \A j \in DOMAIN line[w] : Rank(w, line[w][j]) <= Rank(w, line[w][i])
    /\ \A j \in 1 .. i - 1 : Rank(w, line[w][j]) < Rank(w, line[w][i])

\* ..._pop_highest_prio takes it out of the line
Popped(w) ==
  IF line[w] = <<>> THEN <<>> ELSE RemoveAt(line[w], First(w))

\* and the caller resumes it
Wake(w) ==
  IF line[w] = <<>> THEN UNCHANGED taskVars
  ELSE Resume(line[w][First(w)], Reason)

\* every waiter of a deleted object is resumed
ResumeAll(ts) ==
  LET woken == {t \in ts : state[t] = "BLOCKED"}
  IN /\ state' = [t \in Slots |-> IF t \in woken THEN "READY" ELSE state[t]]
     /\ due' = [t \in Slots |-> IF t \in woken THEN Never ELSE due[t]]
     /\ timeoutFired' = [t \in Slots |-> timeoutFired[t] /\ t \notin woken]
     /\ wakeReason' = [t \in Slots |-> IF t \in woken THEN Reason
                                       ELSE wakeReason[t]]

\* sync_block: the fiber blocks and switches to the loop
SyncBlock(timeout) ==
  /\ Block(current, timeout)
  /\ SwitchOut
  /\ UNCHANGED <<last, atZero, running, main>>

StartCall(c, timeout) ==
  /\ call' = [call EXCEPT ![current] = c]
  /\ left' = [left EXCEPT ![current] = IF timeout = 0 THEN Never ELSE timeout]
  /\ UNCHANGED stale

EndCall ==
  /\ call' = [call EXCEPT ![current] = Idle]
  /\ left' = [left EXCEPT ![current] = Never]
  /\ stale' = stale \ {current}

\* the fiber is switched in again inside the call c
Back(c) == current \in Slots /\ call[current] = c

-----------------------------------------------------------------------------
(* Queues and semaphores: xQueueSend, xQueueReceive, xQueuePeek,           *)
(* xSemaphoreTake.                                                         *)

\* the call needs not wait
Room(c) ==
  CASE c[1] = "send" -> items[c[2]] < Capacity[c[2]]
    [] c[1] = "take" -> count[c[2]] > 0
    [] OTHER         -> items[c[2]] > 0

\* what the call does then, in the lines l: it passes the news on
Effect(c, l) ==
  LET other == <<IF c[1] = "send" THEN "recv" ELSE "send", c[2]>>
  IN /\ IF c[1] \in {"send", "recv"}
        THEN line' = [l EXCEPT ![other] = Popped(other)] /\ Wake(other)
        ELSE line' = l /\ UNCHANGED taskVars
     /\ items' = CASE c[1] = "send" -> [items EXCEPT ![c[2]] = @ + 1]
                   [] c[1] = "recv" -> [items EXCEPT ![c[2]] = @ - 1]
                   [] OTHER         -> items
     /\ count' = IF c[1] # "take" THEN count
                ELSE [count EXCEPT ![c[2]] = @ - 1]
     /\ holds' = IF c[1] = "take" /\ c[2] \in Mutexes
                 THEN [t \in Slots |-> IF t = current THEN holds[t] \cup {c[2]}
                                      ELSE holds[t]]
                 ELSE holds
     /\ UNCHANGED <<otherVars, used, groupVars, notify, stray>>

\* the call succeeds at once, from a task or an interrupt; a mutex that an
\* interrupt takes is held by no task
Do(c) ==
  /\ CanCall(c[1])
  /\ c[2] \in used /\ Room(c)
  /\ Effect(c, line)
  /\ UNCHANGED <<app, callVars, lost>>

\* it has to wait
Wait(c, timeout) ==
  /\ InTask(c[1])
  /\ c[2] \in used /\ ~Room(c)
  /\ line' = [line EXCEPT ![LineOf(c)] = Join(@, current)]
  /\ StartCall(c, timeout)
  /\ SyncBlock(timeout)
  /\ UNCHANGED <<app, used, items, count, groupVars, notify, histVars>>

Left(c) == [line EXCEPT ![LineOf(c)] = Without(@, current)]

\* mutant: a woken taker does not look whether the semaphore is still free
SucceedWhenWoken(c) ==
  /\ Back(c) /\ current \notin stale
  /\ Room(c) \/ (c[1] = "take" /\ ~timeoutFired[current])
  /\ Effect(c, Left(c))
  /\ EndCall
  /\ lost' = IF c[1] = "peek" THEN lost \cup {c[2]} ELSE lost
  /\ UNCHANGED app

\* woken, whatever the reason, and there is something to have; a peek that was
\* woken leaves it in the queue and wakes nobody else
Succeed(c) ==
  /\ Back(c) /\ current \notin stale
  /\ Room(c)
  /\ Effect(c, Left(c))
  /\ EndCall
  /\ lost' = IF c[1] = "peek" THEN lost \cup {c[2]} ELSE lost
  /\ UNCHANGED app

\* the timeout is used up
GiveUp(c) ==
  /\ Back(c) /\ current \notin stale
  /\ ~Room(c) /\ (timeoutFired[current] \/ left[current] = 0)
  /\ line' = Left(c)
  /\ EndCall
  /\ UNCHANGED <<app, schedVars, used, items, count, groupVars, notify,
                 histVars>>

\* mutant: every retry waits for the longest time
RetryAfresh(c) ==
  /\ Back(c) /\ current \notin stale
  /\ ~Room(c) /\ ~timeoutFired[current] /\ left[current] # 0
  /\ line' = [line EXCEPT ![LineOf(c)] = Join(Without(@, current), current)]
  /\ SyncBlock(IF left[current] = Never THEN 0 ELSE MaxDelay)
  /\ UNCHANGED <<app, callVars, used, items, count, groupVars, notify,
                 histVars>>

\* woken for nothing: wait for what is left of the timeout
Retry(c) ==
  /\ Back(c) /\ current \notin stale
  /\ ~Room(c) /\ ~timeoutFired[current] /\ left[current] # 0
  /\ line' = [line EXCEPT ![LineOf(c)] = Join(Without(@, current), current)]
  /\ SyncBlock(IF left[current] = Never THEN 0 ELSE left[current])
  /\ UNCHANGED <<app, callVars, used, items, count, groupVars, notify,
                 histVars>>

\* the object is gone
Abort ==
  /\ current \in Slots /\ current \in stale
  /\ EndCall
  /\ UNCHANGED <<app, schedVars, objVars, histVars>>

Owns(s) == \E t \in Slots : t = current /\ s \in holds[t]

\* a mutex is given by somebody who does not hold it, an interrupt included: the
\* code warns a task, asks nothing of an interrupt, and carries it out
Stray(s) == s \in Mutexes /\ ~Owns(s)

Release(s) ==
  holds' = [t \in Slots |-> holds[t] \ (IF t = current THEN {s} ELSE {})]

\* xSemaphoreGive, xSemaphoreGiveFromISR
Give(s) ==
  /\ CanCall("give")
  /\ s \in used /\ count[s] < MaxCount[s]
  /\ Stray(s) => stray[s] < MaxStray
  /\ stray' = IF Stray(s) THEN [stray EXCEPT ![s] = @ + 1] ELSE stray
  /\ count' = [count EXCEPT ![s] = @ + 1]
  /\ line' = [line EXCEPT ![<<"take", s>>] = Popped(<<"take", s>>)]
  /\ Wake(<<"take", s>>)
  /\ Release(s)
  /\ UNCHANGED <<app, otherVars, callVars, used, items, groupVars, notify,
                 lost>>

\* refused, because somebody else has given the mutex meanwhile; its holder has
\* done with it all the same
GiveRefused(s) ==
  /\ InTask("give")
  /\ s \in Mutexes \cap used /\ Owns(s) /\ count[s] = MaxCount[s]
  /\ Release(s)
  /\ UNCHANGED <<app, schedVars, objVars, callVars, stray, lost>>

\* xQueueReset empties the queue and tells no sender
QueueReset(q) ==
  /\ InTask("reset")
  /\ q \in used
  /\ items' = [items EXCEPT ![q] = 0]
  /\ lost' = lost \cup {q}
  /\ UNCHANGED <<app, schedVars, callVars, used, count, line, groupVars,
                 notify, holds, stray>>

-----------------------------------------------------------------------------
(* Event groups.                                                           *)

Met(have, n) == IF n.all THEN n.bits \subseteq have ELSE n.bits \cap have # {}

\* what is left of them when the wait is over
Taken(have, n) == IF n.clear THEN have \ n.bits ELSE have

\* xEventGroupWaitBits with the condition met
BitsDo(g, n) ==
  /\ InTask("bits")
  /\ g \in used /\ Met(bits[g], n)
  /\ bits' = [bits EXCEPT ![g] = Taken(@, n)]
  /\ UNCHANGED <<app, schedVars, callVars, used, queueVars, gwait, notify,
                 histVars>>

\* it has to wait; when the list is full nobody will know of it (entries of
\* deleted waiters are left over in it)
BitsWait(g, n, timeout) ==
  /\ InTask("bits")
  /\ g \in used /\ ~Met(bits[g], n)
  /\ gwait' = [gwait EXCEPT ![g] =
       IF Len(@) >= N THEN @
       ELSE Append(@, [task |-> current, need |-> n, woken |-> FALSE])]
  /\ lost' = IF Len(gwait[g]) >= N THEN lost \cup {current} ELSE lost
  /\ StartCall(<<"bits", g, n>>, timeout)
  /\ SyncBlock(timeout)
  /\ UNCHANGED <<app, used, queueVars, bits, notify, holds, stray>>

\* the caller's first entry says whether it was woken; if not, the bits are
\* looked at again, and taken
BitsReturn(g, n) ==
  /\ Back(<<"bits", g, n>>) /\ current \notin stale
  /\ LET mine  == {i \in DOMAIN gwait[g] : gwait[g][i].task = current}
         first == {i \in mine : \A j \in mine : i <= j}
         woken == \E i \in first : gwait[g][i].woken
     IN /\ gwait' = [gwait EXCEPT ![g] =
             IF mine = {} THEN @ ELSE RemoveAt(@, CHOOSE i \in first : TRUE)]
        /\ bits' = [bits EXCEPT ![g] =
             IF ~woken /\ Met(@, n) THEN Taken(@, n) ELSE @]
  /\ EndCall
  /\ UNCHANGED <<app, schedVars, used, queueVars, notify, histVars>>

Matching(g, have) ==
  {i \in DOMAIN gwait[g] : Met(have, gwait[g][i].need)}

\* xEventGroupSetBits, xEventGroupSetBitsFromISR: everybody whose condition is
\* met is woken before any bit is cleared
SetBits(g, set) ==
  /\ CanCall("setbits")
  /\ g \in used
  /\ LET have  == bits[g] \cup set
         match == Matching(g, have)
     IN /\ gwait' = [gwait EXCEPT ![g] =
             [i \in DOMAIN @ |->
                [gwait[g][i] EXCEPT !.woken = @ \/ i \in match]]]
        /\ ResumeAll({gwait[g][i].task : i \in match})
        /\ bits' = [bits EXCEPT ![g] =
             {b \in have : \A i \in match :
                             b \in Taken(have, gwait[g][i].need)}]
  /\ UNCHANGED <<app, otherVars, callVars, used, queueVars, notify, histVars>>

\* xEventGroupClearBits
ClearBits(g, set) ==
  /\ CanCall("clearbits")
  /\ g \in used
  /\ bits' = [bits EXCEPT ![g] = @ \ set]
  /\ UNCHANGED <<app, schedVars, callVars, used, queueVars, gwait, notify,
                 histVars>>

-----------------------------------------------------------------------------
(* Notifications.                                                          *)

\* mutant: a notified task that waits is not resumed
NotifyGiveSilently(t) ==
  /\ CanCall("notify")
  /\ ~Free(t) /\ state[t] # "ZOMBIE" /\ notify[t] < MaxNotify
  /\ notify' = [notify EXCEPT ![t] = @ + 1]
  /\ UNCHANGED <<app, schedVars, callVars, used, queueVars, groupVars,
                 histVars>>

\* xTaskNotifyGive, vTaskNotifyGiveFromISR: whatever t waits for, it is resumed
NotifyGive(t) ==
  /\ CanCall("notify")
  /\ ~Free(t) /\ state[t] # "ZOMBIE" /\ notify[t] < MaxNotify
  /\ notify' = [notify EXCEPT ![t] = @ + 1]
  /\ Resume(t, Reason)
  /\ UNCHANGED <<app, otherVars, callVars, used, queueVars, groupVars,
                 histVars>>

\* the end of ulTaskNotifyTake, which counts down or clears
TakeNotify(clear) ==
  notify' = [notify EXCEPT ![current] =
               IF @ = 0 \/ clear THEN 0 ELSE @ - 1]

NotifyDo(clear) ==
  /\ InTask("notified")
  /\ notify[current] > 0
  /\ TakeNotify(clear)
  /\ UNCHANGED <<app, schedVars, callVars, used, queueVars, groupVars,
                 histVars>>

NotifyWait(timeout) ==
  /\ InTask("notified")
  /\ notify[current] = 0
  /\ StartCall(<<"notified", current>>, timeout)
  /\ SyncBlock(timeout)
  /\ UNCHANGED <<app, objVars, histVars>>

\* it waits once, woken by whom it may be
NotifyReturn(clear) ==
  /\ Back(<<"notified", current>>)
  /\ TakeNotify(clear)
  /\ EndCall
  /\ UNCHANGED <<app, schedVars, used, queueVars, groupVars, histVars>>

-----------------------------------------------------------------------------
(* Objects and tasks.                                                      *)

Exist(o) ==
  /\ InTask("create")
  /\ o \notin used
  /\ used' = used \cup {o}
  /\ lost' = lost \ {o}

QueueCreate(q) ==
  /\ Exist(q)
  /\ items' = [items EXCEPT ![q] = 0]
  /\ line' = [w \in WaitPoints |-> IF w[2] = q THEN <<>> ELSE line[w]]
  /\ UNCHANGED <<app, schedVars, callVars, count, groupVars, notify, holds,
                 stray>>

\* xSemaphoreCreateMutex: free; xSemaphoreCreateBinary: empty
SemCreate(s) ==
  /\ Exist(s)
  /\ count' = [count EXCEPT ![s] = IF s \in Mutexes THEN 1 ELSE 0]
  /\ line' = [line EXCEPT ![<<"take", s>>] = <<>>]
  /\ stray' = IF s \in Mutexes THEN [stray EXCEPT ![s] = 0] ELSE stray
  /\ UNCHANGED <<app, schedVars, callVars, items, groupVars, notify, holds>>

GroupCreate(g) ==
  /\ Exist(g)
  /\ bits' = [bits EXCEPT ![g] = {}]
  /\ gwait' = [gwait EXCEPT ![g] = <<>>]
  /\ UNCHANGED <<app, schedVars, callVars, queueVars, notify, holds, stray>>

ListedOn(o) ==
  {t \in Slots :
     \/ \E w \in WaitPoints : w[2] = o /\ In(t, line[w])
     \/ o \in Groups /\ \E i \in DOMAIN gwait[o] : gwait[o][i].task = t}

CallersOf(o) == {t \in Slots : call[t] # Idle /\ call[t][2] = o}

\* mutant: a deleted object's waiters sleep on
DestroySilently(o) ==
  /\ InTask("destroy")
  /\ o \in used
  /\ used' = used \ {o}
  /\ stale' = stale \cup CallersOf(o)
  /\ holds' = [t \in Slots |-> holds[t] \ {o}]
  /\ UNCHANGED <<app, schedVars, queueVars, groupVars, notify, call, left,
                 stray, lost>>

\* vQueueDelete, vSemaphoreDelete, vEventGroupDelete: everybody in its lists is
\* resumed, and finds its handle invalid
Destroy(o) ==
  /\ InTask("destroy")
  /\ o \in used
  /\ used' = used \ {o}
  /\ stale' = stale \cup CallersOf(o)
  /\ ResumeAll(ListedOn(o))
  /\ holds' = [t \in Slots |-> holds[t] \ {o}]
  /\ UNCHANGED <<app, otherVars, queueVars, groupVars, notify, call, left,
                 stray, lost>>

\* xTaskCreate in the first free slot, whose notify_val stays what it was; the
\* first task is the main task, and the loop starts with it
TaskCreate(t) ==
  /\ AtStart \/ InTask("create")
  /\ FirstFree(t)
  /\ Register(t)
  /\ main' = IF main = NoReady THEN t ELSE main
  /\ running' = TRUE
  /\ UNCHANGED <<app, current, last, atZero, ticks, objVars, callVars,
                 histVars>>

\* what is lost when t will not act on a wake-up it may have been given
Burden(t) == IF call[t] = Idle THEN {} ELSE {call[t][2]}

\* vTaskDelete: the slot stays in the lists it waits in
TaskDelete(t) ==
  /\ InTask("kill")
  /\ ~Free(t) /\ state[t] # "ZOMBIE"
  /\ MarkZombie(t)
  /\ IF t = current THEN SwitchOut /\ UNCHANGED <<last, running, main>>
     ELSE UNCHANGED <<current, loopVars>>
  /\ call' = [call EXCEPT ![t] = Idle]
  /\ left' = [left EXCEPT ![t] = Never]
  /\ stale' = stale \ {t}
  /\ holds' = [holds EXCEPT ![t] = {}]
  /\ lost' = (lost \cup Burden(t)) \ {t}
  /\ UNCHANGED <<app, atZero, objVars, stray>>

\* vTaskSuspend: a wait without end replaces whatever the task did
Suspend(t) ==
  /\ InTask("suspend")
  /\ ~Free(t) /\ state[t] # "ZOMBIE"
  /\ Block(t, 0)
  /\ IF t = current THEN SwitchOut /\ UNCHANGED <<last, running, main>>
     ELSE UNCHANGED <<current, loopVars>>
  /\ lost' = lost \cup Burden(t) \cup {t}
  /\ UNCHANGED <<app, atZero, objVars, callVars, holds, stray>>

\* vTaskResume does not ask what the task is blocked on
ResumeTask(t) ==
  /\ InTask("resume")
  /\ ~Free(t)
  /\ Resume(t, Reason)
  /\ UNCHANGED <<app, otherVars, objVars, callVars, histVars>>

\* vTaskDelay; of 0 ticks it only lets others run
Delay(d) ==
  /\ InTask("delay")
  /\ IF d = 0 THEN UNCHANGED taskVars ELSE YieldTimed(current, d)
  /\ SwitchOut
  /\ UNCHANGED <<app, last, atZero, running, main, objVars, callVars,
                 histVars>>

\* the loop, and the time that passes in it
Passed == CHOOSE d \in 0 .. MaxDelay :
            \E t \in Armed : due[t] = d /\ \A u \in Armed : d <= due[u]

Tick ==
  /\ IdleAdvance
  /\ left' = [t \in Slots |-> IF left[t] = Never THEN Never
                              ELSE IF left[t] > Passed THEN left[t] - Passed
                              ELSE 0]
  /\ UNCHANGED <<app, objVars, call, stale, histVars>>

Dispatch ==
  /\ LoopStops \/ (\E t \in Slots : SwitchIn(t)) \/ IdleStops
  /\ UNCHANGED <<app, objVars, callVars, histVars>>

-----------------------------------------------------------------------------
WaitCalls == WaitPoints \cup ({"peek"} \X Queues)

LineStep ==
  \/ \E c \in WaitCalls :
       \/ Do(c) \/ Succeed(c) \/ GiveUp(c) \/ Retry(c)
       \/ \E d \in Timeouts : Wait(c, d)
  \/ Abort
  \/ \E s \in Sems : Give(s) \/ GiveRefused(s)
  \/ \E q \in Queues : QueueReset(q)

GroupStep ==
  \E g \in Groups :
    \/ \E n \in Needs :
         \/ BitsDo(g, n) \/ BitsReturn(g, n)
         \/ \E d \in Timeouts : BitsWait(g, n, d)
    \/ \E b \in Bits : SetBits(g, {b}) \/ ClearBits(g, {b})

NotifyStep ==
  \/ \E t \in Slots : NotifyGive(t)
  \/ \E clear \in BOOLEAN : NotifyDo(clear) \/ NotifyReturn(clear)
  \/ \E d \in Timeouts : NotifyWait(d)

ObjectStep ==
  \/ \E q \in Queues : QueueCreate(q)
  \/ \E s \in Sems : SemCreate(s)
  \/ \E g \in Groups : GroupCreate(g)
  \/ \E o \in Objects : Destroy(o)

TaskStep ==
  \/ \E t \in Slots :
       TaskCreate(t) \/ TaskDelete(t) \/ Suspend(t) \/ ResumeTask(t)
  \/ \E d \in Delays : Delay(d)

Next ==
  LineStep \/ GroupStep \/ NotifyStep \/ ObjectStep \/ TaskStep \/ Tick \/ Dispatch

Spec == Init /\ [][Next]_vars

-----------------------------------------------------------------------------
(* Properties.                                                             *)

Sleeping(t, c) == state[t] = "BLOCKED" /\ call[t] = c

\* somebody in the call c is about to look again
OnItsWay(c) ==
  \E t \in Slots : state[t] = "READY" /\ LineOf(call[t]) = c

\* Nobody sleeps in a send, receive, peek or take that could proceed unless
\* another caller at the same wait point is awake and about to take its turn;
\* every sleeper is in the line of an object that exists, so that the next call
\* finds it.  Only a woken peek, a queue reset, and a suspended or deleted
\* waiter can lose a wake-up.
NoLostWakeup ==
  \A c \in WaitCalls : \A t \in Slots :
    Sleeping(t, c) /\ {t, c[2]} \cap lost = {} =>
      /\ t \notin stale /\ c[2] \in used /\ In(t, line[LineOf(c)])
      /\ Room(c) => OnItsWay(LineOf(c))

\* Nobody sleeps on an event group whose bits satisfy it, on a deleted one, or
\* on a notification it has been given; except a suspended task, or one that
\* found the list of the group full.
NoMissedEvent ==
  \A t \in Slots :
    /\ \A g \in Groups : \A n \in Needs :
         Sleeping(t, <<"bits", g, n>>) /\ {t, g} \cap lost = {} =>
           t \notin stale /\ g \in used /\ ~Met(bits[g], n)
    /\ Sleeping(t, <<"notified", t>>) /\ t \notin lost => notify[t] = 0

Holders(s) == {t \in Slots : s \in holds[t]}

\* A mutex that only its holders give is held by one task at most, and is free
\* only when nobody holds it.  xSemaphoreGive only warns a task that does not
\* hold the mutex, and xSemaphoreGiveFromISR does not look: each such give lets
\* in one task more, and never two, however gives, waits, handlers, deletions of
\* holders and of the mutex, and its creation in the same slot follow one another.
MutexIsExclusive ==
  \A s \in Mutexes \cap used :
    Cardinality(Holders(s)) <= (IF count[s] > 0 THEN 0 ELSE 1) + stray[s]

\* However often a waiter is woken for nothing, its timeout comes no later than
\* it asked for.
DeadlineKept ==
  \A t \in Slots :
    state[t] = "BLOCKED" /\ call[t] # Idle /\ due[t] # Never
      => left[t] # Never /\ due[t] <= left[t]
=============================================================================
