# Formal model of wink-micro-os

TLA+ models of wink-micro-os and of one appliance built on it: the simulation
kernel that host and WASM builds run on, the periodic callbacks, the event queue,
the boot / fault life cycle, the buttons with the soft timers they use, the
FreeRTOS calls and timers of the ESP-IDF layer with its MQTT client and event loop,
the interrupt controller of the simulated MCS-51, and the firmware of the health
pot. TLC checks them on small instances; TLAPS proves every safety property of the
passing runs, and every type invariant, for every size of the system.

Paths below are relative to `src/wink-micro-os/` unless they start with `docs/`
or `wink-micro-app/`.

## 1. Inventory of the system

The repository is layered: PAL headers, OSAL and targets at the bottom, DAL
drivers and trace above, then the runtime, then BAL behaviours, then generated
application code. Compatibility frameworks (ESP-IDF, Arduino, MCS-51) run vendor
code on the simulation targets.

| Part | State it keeps | Operations | Talks to | What is hard |
|---|---|---|---|---|
| Simulation scheduler (`targets/common/src/wink_sim_scheduler.c`) | task table, current task, round-robin cursor | register, yield, block, resume, mark zombie, wake by time, pick next | called by the OSAL and its loop | a time-out and a resume in one instant; zombie slots reused; dispatch order |
| Host / WASM OSAL (`osal/host`, `osal/wasm`) | mutex and semaphore pools with wait rings, virtual clock, dispatch loop | mutex, semaphore, sleep, task calls; run loop | scheduler; interrupts at the loop's top | hand-off to a waiter that has given up, tasks killed in a wait ring, a second run over old pools |
| ESP32 OSAL (`osal/freertos_esp32`) | wrappers of FreeRTOS; boot counter in RTC memory | same API | FreeRTOS, ESP-IDF ring buffer | other semantics than the simulation's for the same call |
| Ring buffer (`osal/common/pal_osal_ringbuf.c`) | bytes, head, tail | push, pop, coalesce | event queue | check-then-push, rounding of the size |
| Periodic callbacks (`runtime/src/wink_runtime_tasks.c`) | entry table, a task and two semaphores per MAY_BLOCK entry | start, stop, change period | OSAL tasks and semaphores, soft timers | stop handshake with a time limit, stale entries, anchor of the schedule |
| Soft timers (`runtime/src/wink_soft_timer.c`) | timer slots in ticks | create, start, stop, destroy, change period, dispatch | main loop; started by other tasks | a callback or another task changes the slot that dispatch is at |
| Event queue (`runtime/src/wink_event.c`) | ring, semaphore, capacity | init, deinit, post, pend | OSAL | stolen and swallowed wakeups, coalescing in place |
| Runtime (`runtime/src/wink_runtime.c`) | active callbacks, poll table, tick | run, fault, raise_fault, register_poll | all the above | resets at any step, the abnormal-boot counter, faults from other tasks |
| Actuator registry (`runtime/src/wink_actuator_registry.c`) | table of safe-off callbacks | register, unregister, safe_off_all | fault path | the table changes while it is walked |
| Deferred queues (`osal/host/pal_deferred_host.c`, ESP32 twin) | bounded queue, drop counter | post from interrupt, worker | OSAL | overflow, order |
| Host GPIO and responder (`targets/host/pal_hal_gpio_host.c`, `targets/common/src/sim_responder.c`) | pin levels, pending interrupts | write, inject, dispatch | scheduler loop | order of pending interrupts, drops |
| Resource claims (`targets/common/src/pal_resource.c`) | owner per pin / channel | claim, release | drivers | conflicts, double release |
| Button events (`bal/src/input`, `dal/src/input/dal_button.c`) | slot per button, debounce and gesture state, pending flags, a daemon task | enable, disable, interrupt, daemon pass, timer callbacks | GPIO interrupt, soft timers, event queue | three actors without a lock, roll-back of a failed arming, handles that go stale |
| MCS-51 (`frameworks/mcs51`) | interrupt registers, priority stack, timers, lines, UART | raise, scan, dispatch, return, microstep | 8051 code, whose register accesses re-enter it | nesting, re-entry of the caller, requests under a mask |
| ESP-IDF layer, FreeRTOS (`frameworks/esp_idf/src/freertos`) | queues, semaphores, event groups, notifications, their waiters | vendor API from tasks and handlers | simulation scheduler | waiters of deleted objects, retries of a timed wait, tasks killed or suspended in a line |
| ESP-IDF layer, software timers (`freertos_timers.c`) | timer table, command queue, daemon task | create, start, stop, change, reset, delete, work items | FreeRTOS tasks; callbacks run in the daemon | accepted commands that are overtaken or go stale, one waiting sender at a time, slots used again, callbacks that block |
| ESP-IDF layer, MQTT client and event loop (`network/esp_mqtt.c`, `network/sim_network_broker.c`, `core/esp_event.c`) | clients with a generation token, subscriptions, readiness per interface, event queue and its semaphore | init, start, stop, reconnect, disconnect, destroy, subscribe, publish, broker notices, post, run | timer daemon connects; loop task or application calls the callbacks | events older than their client, renewals that discard news, a second task that takes events, a full queue |
| ESP-IDF layer, rest (`frameworks/esp_idf/src`) | NVS, partitions, OTA, HTTP, WiFi, Bluetooth | vendor API | host kernel, files, sockets | crash points of NVS and OTA |
| Health pot (`wink-micro-app/appliances/health_pot/health_pot.c`) | heating state machine, relay and its dwell time, slope detector, boot lock | key scan, control task, second task | registers of the 8051 | power failing anywhere, protections that restart each other's windows |
| DAL, trace, codegen, tools, plugin | little or none | – | – | – |

### What makes each part correct

* Kernel: at most one holder per mutex that believes it; nobody sleeps on
  something available; first come, first served; round-robin dispatch; a deleted
  task never runs again.
* Periodic callbacks: an entry and its task live equally long; no drift, no
  burst; a stop leaves a live task behind only after a callback as long as its wait
  or one that stops its own entry.
* Event queue: events arrive once, in order, and nobody sleeps while one waits.
* Life cycle: a crash loop is locked out, a healthy device never is; a fault
  switches off every registered actuator.
* Buttons: every timer in use belongs to one enabled button, the last event of a
  button at rest says where it is, and the events come in order.
* FreeRTOS layer: nobody sleeps on what is there, waiters of a deleted object wake
  up, a mutex excludes as long as only its holders give it, a time limit holds over
  retries; the timer daemon is never late by its own doing, and accepted commands
  take effect.
* MQTT client: no event reaches a client it was not meant for, what a callback
  hears last is how things are, an interrupted connection comes back; no posted event
  is left without a wake-up of the loop.
* MCS-51: handlers nest by the priority they were entered with and run once per
  event, no enabled request is forgotten, the main line keeps running.
* Health pot: the contact is never closed on a fault, a bad probe or a hot plate,
  dry firing is cut off in bounded time, faults stick, presses do not linger.

The hazards these properties are for are listed, each at its line, in
`PROJECT.json`, with the reason where none covers one yet.

## 2. Modules

| Module | Models | Checked by |
|---|---|---|
| `SimScheduler` | task table and dispatch loop | through `SimKernel` |
| `SimKernel` (extends it) | mutexes, semaphores, sleeps, tasks, restart | `sync`, `faults`, `race` |
| `FifoLock` | abstract specification: what the mutex promises | `sync`, as refinement |
| `SimKernelProofs` | theorems about `SimKernel` | TLAPS |
| `EspSync` (extends `SimScheduler`) | FreeRTOS queues, semaphores, event groups, notifications, task control | through `EspTimers` |
| `EspTimers` (extends `EspSync`) | software timers, their daemon and command queue | `esp_sync` |
| `EspSyncProofs` | theorems about `EspSync` and `EspTimers` | TLAPS |
| `EspEvent` | default event loop: queue, semaphore, the two tasks that run it | through `MqttClient` |
| `MqttClient` (extends it) | MQTT client, network broker, subscriptions, pump | `mqtt` |
| `MqttClientProofs` | theorems about `EspEvent` and `MqttClient` | TLAPS |
| `Periodic` | MAY_BLOCK entries and their tasks | `start_stop` |
| `PeriodicProofs` | theorems about `Periodic` | TLAPS |
| `EventQueue` | event queue on both kinds of target | `event_sim`, `event_esp32` |
| `BoundedFifo` | abstract specification: what the event queue promises | `event_sim`, as refinement |
| `Lifecycle` | boot, lock, healthy milestone, fault, registry | `boot` |
| `RuntimeProofs` | theorems about `Lifecycle` and `EventQueue` | TLAPS |
| `ButtonEvents` | buttons, their interrupt, their daemon task and the soft timers | `button` |
| `ButtonEventsProofs` | theorems about `ButtonEvents` | TLAPS |
| `McsIsr` | MCS-51 interrupt controller, timers, lines, UART | `irq` |
| `McsIsrProofs` | theorems about `McsIsr` | TLAPS |
| `HealthPot` | the appliance's firmware | `pot` |
| `HealthPotProofs` | theorems about `HealthPot` | TLAPS |

`MC...` modules only declare the model values the `.cfg` files use. Operators
whose comment starts with "mutant:" are faulty variants of the definition that
follows them, used to show that each property can be broken.

### SimScheduler and SimKernel

Variables are the fields of `sim_task_t`, the pools, the loop's locals and, in
`call`, the point in an OSAL call where a fiber is suspended. An action is a call
up to the point where it returns or switches out; a blocking call is two actions
(`MutexWait` / `MutexReturn`), because everything else can run in between. That
is the code's own granularity: fibers are never preempted. Interrupt handlers run
only at the top of the dispatch loop (`IsrGive`); `Loop` is one iteration of it.
Calls that fail without a change of state are stuttering steps.

Abstractions: the clock is kept relative (`due` is time to the wake-up, `atZero`
tells whether the absolute clock still reads 0, which matters because a wake-up
time of 0 means "none"); `ticks` is counted only when the run has a limit;
`holds` is history, the mutexes a caller was told it owns. `Faults` lists what
clients may do beyond the rules: kill another task, delete itself by handle, end
while holding a mutex, destroy a semaphore under a waiter, run a second time.

### Periodic

Time advances by 1 ms steps (the retry sleep) when every task is blocked. The
actions are the two halves of `wink_periodic_stop` around its wait, the same two
from within the entry's own callback, start, change of period, and the control
points of `periodic_task_fn`: top of loop, callback, wait on `wake_sem`, plain
sleep once the semaphore is gone. `since`, `ran`, `changed`, `gaveUp` and `overlong`
are histories. `gaveUp`, a stop that returned although its task had not ended, is
set by stops; `overlong`, a callback that lasted as long as a stop waits or stopped
its own entry, is set by what callbacks do and never by a stop.
`HandshakeDeletesTask` may therefore except only the second, and it
fails as soon as a stop does not wait for the task. `NoDriftNoBurst` speaks of
entries whose period was not changed; of the others only `KeepsFiring` says something.
Only the application starts entries; a callback changes or stops only
its own entry, and a self-stop is the last thing it does.

### EventQueue

`Target` selects the OSAL: on "sim" an actor in the middle of a call runs alone
until it blocks (`Turn`) and a give hands over to the head of a line that may
still hold a consumer whose timeout has fired; on "esp32" actors interleave
between any two OSAL calls, a give stores a token, and a pop that finds several
events loses them. `Signal` and the ring of ESP-IDF are external and modelled
from their use. Events are a device and a number, so order, loss and coalescing
can be told apart. `BoundedFifo` is what a user of the queue is told: a post and a
pend are one step, no ring, no semaphore, no line. `Fifo` maps ring, flag and
histories to it; on the ESP32 the mapping fails, since a pop there drops events.

### Lifecycle

Every step of `wink_runtime_run` may be cut off by a reset with any reason; RAM
is lost, RTC memory only when power failed, and then it holds garbage. Storing
the counter and storing its magic number are two steps. `abnormal` and `attempts`
count resets and app inits independently of the code's counter, `called` and
`owed` follow one pass of `safe_off_all`. One fault is handled at a time, and
garbage in RTC memory is taken not to be the magic number by chance. When an entry
the pass has already handled is unregistered, the loop skips one: `owed` is emptied
there, so `FaultReachesAll` promises nothing for that pass (a listed hazard).

### EspSync

Composed with the same dispatch loop as `SimKernel`, whose task table it extends.
A blocking call that does not block is one action; one that blocks is a `Wait`
and, when the task runs again, `Succeed`, `Retry` with what is left of its time
(`left`), `GiveUp`, or `Abort` because the object was deleted (`stale`). An `app`
gives each task, and the interrupt handlers, the calls it makes: it keeps the
product of all calls of all tasks within TLC's reach while every pair of calls
that meet at one object is in some application. Of a queue only the number of
items is kept. Time is in ticks; a tick cut short by rounding is outside. A call
that fails at once changes nothing and is no action. `lost` is the history of the
wake-ups the code itself loses, which `NoLostWakeup` excepts: a peek woken in the
line of the receivers, a queue reset under a waiting sender, and a waiter that
is suspended or deleted; each is a listed hazard. `lost` also has a task that finds the
list of an event group full, which takes entries left over from deleted waiters
(`ListHasRoom`). A mutex is given and taken by whoever likes to: `xSemaphoreGive` only
warns a task that does not own it, then frees it and wakes a waiter
(`freertos_semphr.c:230-254`), and the calls for interrupt handlers (265-302) do not
look at the owner at all. That only its holder gives a mutex is a rule for the
applications which nothing enforces, a listed hazard, and with such a give two tasks
do hold one. `stray` counts these gives, whatever comes of them, at most `MaxStray`
per mutex; `holds` are the mutexes a task has taken and not given, and a holder whose
give is refused because another came first (`GiveRefused`) holds it no more.
`MutexIsExclusive` says that without such gives the mutex excludes, and that each of
them lets in one task more, never two. Not in `EspSync`:
`vTaskDelayUntil`, priority changes, recursive mutexes, spin locks.

### EspTimers

Composed with all of `EspSync`: a call to a timer function is a command in a bounded
queue (`CallAccepted`, `CallWaits`, and `SendAccepted`, `SendFails` or
`SendWaitsAgain` when the waiting sender runs again), and the daemon is a task like
the others, whose steps are `Sleep`, `Receive`, `StartScan`, `Fire` and `EndScan`. A
callback is what happens between two `Fire` steps: it makes timer calls, which take
effect at once, and may delay (`CallbackDelay`); `behind` is by how much the clock the
scan goes by is then out of date. Expiry times are relative to the clock.
`want`, `astray` and `spoilt` are histories: what the accepted calls ask of each timer,
and the timers for which the code does not keep it. A stop or change renews the
timer's generation before it waits for room, so that commands accepted earlier are
dropped; when it fails it puts the old generation back, whatever is in the slot by
then; when its task is deleted meanwhile nothing is put back and no command comes of it
(`Abandoned`); and a command overtaken while it waits is accepted although it will be
dropped. `lost` also has the sender another one replaced as the one to be woken.
Each is a listed hazard. Left out: timer calls before the scheduler runs, the
reset hook, other calls from callbacks, and killing or suspending the daemon
(`DaemonLeftAlone`: nothing but its own callbacks ever has its handle).

### EspEvent and MqttClient

Tasks are fibers and no call of the client blocks, so a call is one action and may
come at any time, also while a callback is in progress. `EspEvent` keeps the
loop's queue, the count of its semaphore and, per task, how many calls for the event
in hand have not returned. Two tasks take events: the loop's own and an
application that runs whatever is pending, as SNTP does. In `MqttClient` the pump
is their one handler. An event carries what the pump looks at (slot, token, callbacks
as they were when it was posted) and, as history, `born`, the first token of its
client. `pending` are the connect items the timer daemon holds; `EspTimers` models the
daemon, here an accepted item runs at some time after and a refused one never
(`PostResults`). Error, subscribed, unsubscribed and published events differ in
nothing that matters and are all a NOTICE. A callback is registered for every kind of
event (`registered_event`, `esp_mqtt.c:144`, is left out), and registering the pump with
the event loop never fails (157). Owners keep a handle until they destroy
it, as the API demands; subscribing, stopping or reconnecting by an old handle is
not checked by the code and not in the model. A client is bound to an
interface before it starts (`Rebinding` FALSE): bound to one that is up already, a
started client is never connected. `TruthIsTold` says what callbacks hear and names
the three ways the code loses it: a full queue, a reconnect, which posts its event
under the token it then renews, and a renewal that overtakes the news. `asked`,
`heard` and `off` are histories. The second callback of an event is called although
the first may have destroyed the client; it sees an event of a client that is gone,
which no property forbids.

### ButtonEvents

Three actors share slots and timers without a lock: the interrupt (marks a button
pending, then gives the semaphore: two steps), the daemon (one step per read it
acts on later), and the main loop (one timer of a dispatch pass may be two steps,
between which the daemon can restart it). Arming and disarming are one step
each with respect to the daemon, because every other interleaving of the two
equals one where the daemon comes before or after; starting an entry that was
destroyed between the check and the write changes nothing anybody reads. Time is
the dispatch pass, also for the hold time of a polled button. The timer table is
shared with `Others`, so that arming can fail at each of its steps and a stale
handle can name another button's timer. `missed` excepts from `NoEdgeForgotten`
what the code loses: a restart that `Finish` wipes out and a debounce stopped
through a stale handle. Left out: memory ordering, the edge counter, deinit and
its 100 ms wait, WCET strikes, and the contents of events (after a
callback that disables its own button the event carries no device).

### McsIsr

Nothing runs concurrently and everything is re-entrant, so the C stack is a
variable: `todo` holds the calls still to be made, innermost first. A microstep
polls the peripherals and scans; a scan may enter a handler; the handler's own
register accesses are microsteps. Writes take effect, then pay their microstep. The
main line, and the handler on top, may write any register at any time. Pins and
received bytes are free at each poll. At most one deadline of a timer passes in one
charge of time. A missing handler is one that returns at once. `fresh` and `owed`
are histories: the deadlines that have raised nothing yet, the sources with an
event no handler has seen. Left out: flags set by software, counting external
pulses, vectors of the chip packages, PCON idle, resets; T2 overflow interrupts
count as enabled.

### HealthPot

`pc` is the place in a pass of the super loop: the key scan, the two key handlers
(`KeyStep`), every so many passes the control task (`ControlStep`), and every second
the one-second task, whose slope check and relay refresh are steps of their own
(`SecondStep`). Power may fail at each of them (`PowerFail`), which loses everything,
since the firmware keeps nothing but RAM; `PowerUp` is the boot. The probe gives any code
of `Codes` at each sample, which stands for the median filter over the raw
readings; the keys have any position of `Grips`. The slope detector keeps its ring of samples, because its
restarts are what the dry-fire bound depends on; times are constants, so that an
instance reaches all of them. A closure shorter than a second is not seen by
the dwell counter, although the comment at the top of the file promises a dwell for
every closure: `DwellAfterLongClosure` states what does hold.

## 3. Runs

| Run | Instance | Shows |
|---|---|---|
| `sync` | 3 tasks, 1 mutex waited for without timeout, 1 semaphore also given by an interrupt and taken with timeouts 0 (for ever) and 1, delays 1, fair | no lost wakeup, round robin; the mutex implements `FifoLock` and every waiter is served |
| `faults` | 3 tasks, 1 mutex, waits with and without timeout, kills, deaths in possession, second runs with a tick limit of 2 | exclusive ownership and final deletion survive all of it |
| `race` | as `sync`, no interrupt, timeouts on the mutex, too | **violation**: a hand-off to a task that reports a timeout |
| `start_stop` | 1 entry, 2 task slots, period 4, callbacks of 1, 4 and 5, stop waits 5, 3 starts, 1 change | a stop leaves no task behind while no callback is as long as its wait or stops its own entry, it gives up only on callbacks as long as its wait or on self-stops, schedule without drift or burst, a started entry keeps firing |
| `event_sim` | 2 producers (one coalescing) of up to 3 events, 2 consumers (one with timeout), capacity 2, ring 3 | nothing lost, reordered or slept on; the queue implements `BoundedFifo` |
| `event_esp32` | 1 producer, 1 consumer | **violation**: queued events are dropped by a pop |
| `boot` | 3 actuators for 2 slots, threshold 3, healthy after 2 ticks, counters up to 4 | lock when deserved and only then; faults reach everything |
| `pot` | 5 codes (fault, hot, boiling, warm, cold side of each threshold), either key, all times 1 or 2 | contact, dry fire, presses, faults, boil and dwell |
| `esp_sync` | 3 tasks and interrupt handlers, one object of each kind, 2 timers, a command queue of 1, 15 applications, 1 give of a mutex by somebody who does not hold it, timeouts 0 (for ever) and 2, 4 generations | no lost wakeup, no missed event, exclusion as far as holders give, deadlines; the timer daemon is on time, accepted commands take effect |
| `mqtt` | 1 client on 2 interfaces, a queue of 2, 1 subscription, 4 tokens, work items that may be refused | no event wakes nobody or reaches the wrong client, the truth is told, the connection comes back |
| `irq` | firmwares with 2 of the 6 sources each, 2 values of IE and of IP | nesting, once per event, nothing forgotten, main line lives |
| `button` | 2 buttons, one by interrupt and one by either backend, 3 timers of which others may take 1, 3 flips, 3 enables | timers owned, edges seen, events in order |

The two violations are the findings of `PROJECT.json`; each quotes the sentence
of the header or design document that the code does not keep. Three more places
where code and text differ have no run and are listed as hazards: a task that
deletes itself by handle returns from the call, a period shortened under a wait
takes effect only after the old period, and a callback longer than the stop's wait
leaves a live task without an entry. The state spaces are of 4,000 (`event_sim`) to
6,600,000 states (`faults`); each run ends within three minutes. No run lists
a type invariant: section 4 proves them all.

**Why the bounds are enough.** Three tasks are the fewest with a holder, a waiter
in line and a latecomer, or with two waiters whose timeouts and hand-offs cross.
Times only matter by their order: 1 and 2 give earlier, same instant and later.
Capacity 2 in a ring of 3 separates the logical from the physical limit; three
events per producer let the queue fill, coalesce and fill again. One period change
and three starts give a reuse of the entry with the first task still alive, and a
restart after that; a callback one unit shorter than the stop's wait is the longest
the handshake must bear. One stray give of a mutex is enough for two holders, and to
have the give of the first refused. Counters up to one above the boot threshold reach every
comparison. One actuator more than the table holds reaches its limit while a
fault walks it. Two sources are the fewest that nest, mask and compete; with equal
and different priorities they meet every rule of the scan, and the pairs are
chosen so that each kind of source (cleared by hardware or software, reloading
or not, line, timer, UART) meets another. Two buttons on three timers reach
the stale handle that names another button's timer and every failure of arming; three
flips are press, release and a bounce, three enables use a slot again with the old
handle still in the daemon's hand. The health pot's instance lets every counter
reach its limit and one beyond; the theorems then remove the bound. A command queue of one is
full at once; two timers let a slot be freed and used again; four generations are a
creation, two renewals and a second creation. One MQTT client is enough for its slot
to be used again; two events fill the queue, which is what the loss of a network
posts; four tokens are a client started, brought back by the network and stopped, or
destroyed and set up a second time with events of the first still waiting; that
events of several clients mix in one queue is in the theorems, which hold for any
number of them. The instance
of `sync` leaves timeouts on the mutex to `faults`, since with them no waiter is
promised anything and `FifoLock` has no give-up.

**Fairness.** `SimKernel`: the loop and a fiber that is switched in run on (the
loop is sequential code); a running task eventually sleeps and a critical section
is eventually left, the cooperative scheduler's demand on its clients (strong
fairness, because a holder runs only now and then); interrupts come to an end, because
a task they wake is dispatched out of turn and a storm of them starves the rest.
`LockIsGranted` excepts an owner that waits for a semaphore, which nobody must give.
`MqttClient`: the timer daemon runs the items of each client. `Periodic`: the scheduler runs
whoever is ready, the clock moves when nobody is. `EventQueue`: a call that began
goes on, a timeout fires, a consumer pends again, as the main loop does each tick.
`McsIsr`: the machine makes the calls it owes (weak fairness) and each handler
eventually returns whenever it can go on (strong fairness, since other handlers
interrupt it). `HealthPot`, `EspSync`, `EspTimers` and
`ButtonEvents` state safety only.
Nobody is assumed to post, start, stop, change a period or call anything else.

**Deadlock** is checked in every run except that of `Periodic`, whose starts are
bounded, so that everything may have been stopped for good, that of `EspTimers`,
whose tasks may all wait for each other, as FreeRTOS lets them, and that of
`MqttClient`, whose tokens are bounded.

## 4. Proofs

Leaves are kept small, so that a slower machine proves them too: nearly all go through
with a tenth of the prover's default time limit.

### SimKernelProofs

Proved for every number of tasks, mutexes and semaphores, all
delays and timeouts:

* `TypeCorrect`: `Spec => []TypeOK`, with every fault allowed. Its core are facts
  about the wait rings as sequences of at most N slots.
* `MutexIsExclusive`: `Spec => []MutualExclusion`, with every fault allowed. The
  invariant is strengthened by `UnusedIsFree` (a pool slot not in use has no
  owner), without which creating a mutex could overwrite one that is held.
* `DispatchIsRoundRobin`: `Spec => RoundRobin`, from the arithmetic lemma
  `NearestIsCloser` on the cursor.
* `NoWakeupIsLost`: `Spec => []NoLostWakeup` for clients that keep the rules
  (`Faults` at most `die_holding`). The inductive invariant `WakeInv` says that the
  running task is READY, that a line forms only at a resource that is taken, and
  that a line holds, once each, exactly the blocked tasks and perhaps some whose
  timeout has fired. Since a line has no duplicates, a pigeonhole argument
  (`LineHasRoom`) shows that a wait ring of N entries never drops a waiter.
* `DeletedIsFinal`: `Spec => DeletedStaysDeleted` when no task deletes itself by
  handle (such a task returns from the call and runs on).
* `MutexIsFifoLock`: `Spec => IsFifoLock`, the refinement of `FifoLock`, when no
  lock has a timeout and `Faults` is empty. `HandOver` says of a task inside
  `pal_os_mutex_lock` that it is blocked with no wake-up armed, or already owns the
  mutex and has yet to return. Then lock calls are `Take`, `Queue` and `Grant`, an
  unlock is `Release`, and every other step leaves the lock alone.

The proofs use only the assumptions on the constants named in the modules
(`NAssumption`, `ResourceAssumption`, `DelayAssumption` and so on), which every
passing run of the kernel evaluates. The proof module is laid out in that order:
wait lines, types, mutexes, round robin, wakeups, deletion, refinement; each invariant has one
lemma per group of actions, and the theorem combines them with the temporal step.

### RuntimeProofs: event queue

For the simulation targets, and every set of producers and consumers, capacity and
number of events. On the ESP32 the last two fail (`event_esp32`).

* `QueueTypeCorrect`: `TypeOK`, with the bound on events kept between check and push.
* `SomebodyIsAwake`: `NotAllAsleep`, given a consumer at all. An actor inside a call
  runs alone (`OneMidCall`), so the ring is still empty when a consumer that found
  it empty goes for the semaphore (`TakesWhenEmpty`). With everybody blocked and an
  event queued, its producer has yet to give (`GiveIsComing`), and that give
  meets a line whose entries are the blocked consumers, each once, and perhaps
  some whose timeout has fired (`TidyLine`). When all are blocked none has
  timed out, so the give wakes one.
* `EventsArriveInFull`: `DeliveredInFull`, a step property. What is queued of a
  device is newer than what was delivered (`Window`), stands in order (`InOrder`),
  has no gap unless the device coalesces (`AllThere`), and is one event if it does
  (`OneOfEach`). So the head of the queue is the next of its device.
* `QueueIsBoundedFifo`: `IsBoundedFifo`, the refinement of `BoundedFifo`. A post is
  three steps of which the push is the `Put`; that it has room, and that no event of
  a merged device is in the queue, was seen one step before. `CheckHolds` says it
  still is so, because an actor inside a call runs alone; `CallsHaveQueue` says the
  queue is not closed under a call. Coalescing is `Renew`, each pop that finds an
  event `HandOut`, and every step on semaphore, line or time-out leaves the queue alone.

### EspSyncProofs

For any number of tasks, objects and timers, every size of queue and semaphore, and
every set `Apps`: the theorems are about the whole of `TimersSpec`, the FreeRTOS calls
together with timers and daemon. A step of `EspTimers` either keeps to the table of
timers and leaves the objects alone, or blocks, wakes or ends the call of a task as a
step of `EspSync` does; the lemmas (`EasyCalls`, `WakeOps`, `Blocks`, `TimerMoves`) are
about these few kinds of step.

* `TypeCorrect`: `TimersSpec => []TimersTypeOK`, from `Types`, which adds what the types
  of the next state depend on: whoever runs is ready, no task is twice in a line, a
  timer in use has a generation, and a sender that waits has a command whose
  generation can be put back. The waiter of the highest priority exists because
  the ranks of a line are a finite set of numbers (`FirstIn`).
* `TimeoutsHold`: `DeadlineKept`. After a step, every task that waits in a call has the
  deadline and what is left of its timeout from one and the same block, or both as
  they were (`Timely`), and a tick takes the same from both (`DeadlineTick`).
* `MutexHasOneOwner`: `MutexIsExclusive`, from `MutexOk`, which says it as a sum: count and
  holders together are at most one more than the stray gives, and what is held exists
  (`MutexFine`). A take moves one from the count to the holders, a give one back, a stray
  give adds one on both sides (`MutexEffect`, `MutexGive`); nothing else adds to either.
  The holders are a subset of finitely many tasks, so they can be counted (`FewSlots`,
  `FewerHold`). `LiveCalls` adds: a call that waits on an object and is not stale waits
  on one that exists, so that a woken taker never takes a deleted mutex.
* `NoWakeupIsLost`: `NoLostWakeup`. By itself it is not inductive: a take by a task
  that does not wait, or a woken one that times out, leaves it true only if the
  number of callers on their way is known. `Queueing` keeps that number: where a
  line is not empty, what is in stock (items, room or counts) is at most the number
  of awake callers that are out of the line and about to look again (`Served`);
  only callers that wait there are in a line (`Filed`); and every sleeper is in its
  line (`LineSleepers`). Each operation moves stock and callers by one or by nothing
  (`EffectStock`, `LinePops`, `LineLeaves`, `LineJoins`), a deletion takes all
  (`ObjectChange`), and a step elsewhere leaves both alone (`Apart`).
* `NoEventIsMissed`: `NoMissedEvent`, from `Events`: an entry in the list of a group is
  of a task in that very wait, once, and while it sleeps neither woken nor
  satisfied (`EntryOk`); every sleeper has an entry (`GroupSleepers`); and one that waits
  for a notification has none (`NoteSleepers`).
* `ListHasRoom`: a task finds the list of an event group full only if a waiter of that
  group was deleted or suspended, again by the pigeonhole argument: so the case that
  `NoMissedEvent` excepts is no more than these.
* `DaemonWakesInTime`: `DaemonIsOnTime`, from `OnTime`, which says the same of every task
  that waits as a sender and adds that none does before the daemon runs. What a step does
  to daemon and senders is little: most leave both where they are (`CallsRest`, `TasksRest`,
  `LoopRests`), a command that joins the queue wakes the daemon (`EnqueueWakes`), and a
  second sender displaces the first, which is `lost` then (`RoomWaits`).
* `LastCallCounts`: `AcceptedTakesEffect`. The property looks at an empty queue only;
  `Obeyed` says what holds while commands are in it. The last of those a timer will obey
  (`Pend`) says what is wanted, and if there is none the timer itself does (`LastSays`);
  no generation is newer than the counter, so that a new one fits no command that was
  there before (`NewGeneration`); and a sender whose timer was deleted has a
  generation the timer in the slot now has not (`StrayOk`). Looking for this invariant
  showed that the property was too strong as it stood: a stop or change that waits
  has renewed the generation already, and when its task is deleted the timer keeps
  a generation no command has. TLC finds the run once an application may
  delete a waiting sender, and such timers are excepted since (`spoilt`).

### PeriodicProofs

For every set of entries and tasks, and all periods, durations of callbacks and lengths
of the stop handshake, if the times have a bound (`TimesAreBounded`; they are
32-bit numbers in the code):

* `TypeCorrect`: `TypeOK`, from `Types`, which adds that what is left of a callback is at
  most what it took on.
* `StopWaitsForTask`: `HandshakeDeletesTask`, and `OnlyLongIsGivenUp`:
  `GivesUpOnlyOnLong`. A stop gives up only after a callback was too long or stopped its
  own entry (`LongGivesUp`), and either was noted before, at its begin (`LongIsSeen`).
  Until a stop gives up, an entry has one task, no task sleeps on semaphores that
  are gone (`Attached`), and `done_sem` is given only by a
  task that has ended (`DoneMeansGone`). `StopIsAnswered` follows the handshake:
  while the application waits, the task is at the top of its loop, on its way out, or
  inside a callback that ends before the time limit and will find the
  token in `wake_sem`, or its callback is as long as the limit itself.
* `ScheduleIsKept`: `NoDriftNoBurst`, from `OnSchedule`: a callback begins at
  `next_wake` or one unit after it, time since then and time left add up to its
  length, and the distance to the next begin is at least the period less that unit.

### HealthPotProofs

For every set of codes and all positive times:

* `TypeCorrect`: `TypeOK`, the counters' ranges included, from `TypeInv`, which
  adds the range of the scan's own counters and needs one lemma per action.
* `ContactIsAlwaysSafe`: `ContactIsSafe`. `ContactInv` adds when the latch may be
  set, that lock time left and time rested always make up the cooling time (hence
  the lock a hot boot must set), and that at the top of a pass a closed pin means a
  latch that is set.
* `PressesDoNotLinger`: `NoGhostPress`, by a case analysis of one pass.
* `ThermalFaultsStick`: a step property that needs no invariant beyond types.
* `BoilIsAlwaysReal`: `BoilIsReal`, with an invariant on what the boil counters
  say of the last readings.
* `DwellIsKept`: `DwellAfterLongClosure`; the invariant ties the code's saturating
  counter to the history `offSec`.
* `DryFireIsCutOff`: `DryFireIsBounded`. `DryInv` bounds the cold seconds by an
  allowance that grows with the heating seconds and by the glitch count: a cold
  spell that outlasts restarts of the detector still costs heating time, whose
  limit does not restart.

### ButtonEventsProofs

For every number of buttons, slots and timers, all periods and bounds:
`TypeCorrect`, `NoTimerLeaks` (`TimersAreOwned`) and `EdgesAreSeen`
(`NoEdgeForgotten`), from one inductive invariant

    IInv == TypeOK /\ TableOK /\ LoopInTimer /\ DaemonInPlace /\ EdgesKept

`TableOK` is the agreement of the two tables: an enabled slot has the timers of its
backend (`SlotsServed`), a timer with a button's callback is named by that button's
slot (`TimersNamed`), a button has one slot (`OneStream`), and driver and slot agree
on the backend (`BackendsAgree`). `LoopInTimer` and `DaemonInPlace` say what main
loop and daemon still know when they act on something read earlier. `EdgesKept`
says where an edge is under way: in the pin's latch, in the interrupt, in the
pending flag with a daemon that has yet to pass the slot, in a running debounce timer or in
the callback about to read the pin. Without it `NoEdgeForgotten` is not
inductive, since it speaks only of buttons at rest. Creating a timer takes the
first free slot; that `First` is a minimum is proved by well-founded induction on
the naturals.

`EventsAreInOrder` (`EventsInOrder`) adds `Streams`: the slot knows the last event of
its button (`Known`) and so does the driver when it polls (`Followed`), a polled
button's `held` is the time since the press, and a button without a slot has no event
(`Silent`). A long-press timer expires no earlier than `LongPress` after the press,
less the tick under way (`Timed`), which depends on whether the loop has passed the timer in
this pass (`Past`) and holds for what it has loaded and not yet stored. The daemon, which
may stop or start the timer through a handle it read earlier, can only delay it (`RunsOn`).

### RuntimeProofs: life cycle

For every threshold, bound of the counter, set of actuators and size of the registry:

* `LifeTypeCorrect`: `LifeTypeOK`, with `Placed` (while a fault is handled its cursor is in
  the table or just past it).
* `CrashLoopsAreLocked`, `LocksAreDeserved`: `CrashLoopIsLocked` and
  `LockIsDeserved`, from `BootInv`. It bounds the stored counter on both sides, in
  every phase of the boot path: never ahead of the abnormal resets (`NotTooMany`),
  never behind the starts of the application (`NotTooFew`), and zero at a power-on
  boot that has counted. The first gives the one theorem, the second the other.
* `FaultsReachAll`: `FaultReachesAll`, from `Ahead`: what a pass still owes is off
  already or lies at or after its cursor. Unregistering closes the gap in the table
  under that cursor; `GapIsClosed` says what it does to the entries. A removal
  behind the cursor makes the walk skip an entry: from there on the property asks
  nothing of that pass (a hazard in `PROJECT.json`).

### McsIsrProofs

For every set of lines, mode of the timers, register values and number of calls:

* `TypeCorrect`: `TypeOK`, from `Types`, which adds `Stacked`: the calls waiting on
  the stack belong to sources in use. Without it an overflow might raise a
  request of a timer that the machine does not have.
* `HandlersNest`: `NestingIsMasked`, with the saved priorities one for each
  handler on the stack. Pushing plain calls keeps the number of handlers
  (`PlainPush`), a dispatch adds one (`HandlerPush`) and a return removes it; the
  shifts of positions behind these are bijections (`ShiftCardinality`).
* `RequestsStay`: `NoRequestForgotten`, a step property: the scan clears a flag only
  of the source it found (`BestIsCandidate`).
* `ServedOnce`: `OncePerEvent`, from `Accounted`: whatever is pending, or flagged on a
  line, is still owed to an event.

### MqttClientProofs

For every number of clients, subscriptions, interfaces and topics, every length of
the queue and any bound on tokens, from one inductive invariant, which TLC
confirmed on two clients first:

    IInv == TypeOK /\ ClientsOk /\ SubsOk /\ EventsOk /\ LoopIsAwake

`ClientsOk` says that no token is ahead of the counter and that a slot not in use
is as it was at the start; `SubsOk` that a row of the subscription table belongs to a
client in use which asked for it; `EventsOk` that each event in the queue is
`Genuine`: if the client now in its slot has its token, the event was meant for that
client, names no callback it has not, and is on a topic it asked for.

* `TypeCorrect`: `TypeOK`.
* `LoopStaysAwake`: `LoopIsAwake`, inductive with the types alone: a post adds an
  event and a count, unless one of them is at its limit, which is the same for both,
  and a task that takes an event past the semaphore leaves a count too many.
* `DeliveriesAreRight`: `DeliveriesAreDue`. An event given to a callback is the head of the queue and passed the comparison of tokens, so that
  it is genuine. Genuine events stay so because a client changes in two ways only
  (`Onward`): it keeps its token, and then loses neither callbacks nor topics, or it
  goes out of use or has a token that no event has (tokens are never given twice);
  and because what a step posts is genuine.
* `TruthStaysTold`: `TruthIsTold`. For each client a step has one of few outcomes
  (`Outcome`): state and last word are as before, the last word is the state of
  today, or one of the three excuses the property names. The last word is at the
  greatest index of an event the callback will hear, so the lemmas are about what
  posting, taking and renewing do to that index (`Unmoved`, `Renewed`, `Said`).
  When the network changes, several clients post in one step, in the order of
  their slots; each finds its own event behind those it had before.

### What stays with TLC

* The five liveness properties (`LockIsGranted`, `KeepsFiring`, `EventIsDelivered`,
  `MainlineRuns`, `ComesBack`): they need fairness, which TLAPS does not reach.
* The event queue on the ESP32, whose property is a violation.
* `IsFifoLock` with timeouts or faults, for which it does not hold, and
  `NoLostWakeup` of the kernel for clients that break its rules, likewise.

## 5. Not modelled

* NVS, partitions, OTA, HTTP, WiFi, Bluetooth: emulation of
  vendor services on host files and sockets. Much of this is I/O and formats.
* Deferred work queues, pending GPIO interrupts and the fault-injection accessors
  of the host: only their effect is in the models, an interrupt that gives a
  semaphore at the top of the dispatch loop.
* Resource claims: a table without concurrency.
* LIGHT periodic entries (a soft timer started by the entry), ultrasonic events.
* DAL drivers, trace, code generation, tools and the peripheral plugin keep no
  concurrent or persistent state worth a model.
* Left out of modelled parts: WCET accounting on the wall clock, trace records,
  fiber stacks, the seeded PRNG, mutexes and tasks of FreeRTOS itself,
  deinitialising the event queue while somebody pends, the ESP32 byte ring
  wrapping inside an event, and what section 2 names.

The mapped lines are a small part of the repository (under a twentieth). Most of the rest
is register headers of the 8051 chips, declarations of the vendor APIs, device
drivers that turn a request into bus transfers, network emulation, and tooling:
code whose correctness is not a question of states and interleavings.

## 6. Plan

Done: kernel, periodic callbacks, event queue, life cycle, buttons and soft timers,
FreeRTOS layer with its timers, MQTT client on the event loop, MCS-51 interrupts,
health pot, and proofs about each of them. What would come next, in this order:

1. WiFi and HTTP on the same event loop and broker (`esp_wifi.c`, `esp_http.c`).
2. `Deferred` and pending GPIO interrupts, composed with the scheduler loop.
3. LIGHT entries of `Periodic` on the soft timers of `ButtonEvents`.
4. An abstract FIFO that the queues of `EspSync` implement.
