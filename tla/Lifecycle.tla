------------------------------ MODULE Lifecycle ------------------------------
(***************************************************************************)
(* Boot, run and fault of a firmware: wink_runtime_run, wink_runtime_fault *)
(* and the actuator registry (runtime/src/wink_runtime.c and               *)
(* wink_actuator_registry.c), with the abnormal-boot counter of the ESP32  *)
(* in RTC memory.  The device may be reset at any step; whatever is not in *)
(* RTC memory is lost.  Tasks other than the main loop may raise faults    *)
(* and register or unregister actuators between any two steps.             *)
(***************************************************************************)
EXTENDS Naturals, Sequences, FiniteSets

CONSTANTS
  Actuators,     \* the (fn, ctx) pairs that are registered
  Slots,         \* WINK_ACTUATOR_REGISTRY_CAPACITY
  Threshold,     \* WINK_BOOT_LOCK_THRESHOLD
  HealthyTicks,  \* WINK_BOOT_HEALTHY_TICKS
  MaxCount       \* bound of the boot counter and its histories

ASSUME LifecycleAssumption ==
  /\ Slots \in Nat \ {0}
  /\ Threshold \in Nat \ {0} /\ HealthyTicks \in Nat
  /\ MaxCount \in Nat /\ MaxCount > Threshold

VARIABLES
  reason,    \* pal_os_get_reset_reason of this boot
  count,     \* s_abnormal_count, in RTC memory
  magic,     \* s_abnormal_count_magic holds the magic number
  phase,     \* how far wink_runtime_run has come
  tick,      \* its tick counter, up to the healthy milestone
  entries,   \* s_entries, up to s_count
  cursor,    \* i of wink_actuator_safe_off_all, or 0 outside a fault
  raiser,    \* who is inside wink_runtime_fault: "main", "task" or "none"
  abnormal,  \* history: abnormal resets since the counter was cleared
  attempts,  \* history: app inits after an abnormal reset since then
  called,    \* history: actuators the current fault has switched off
  owed       \* history: actuators it found and that are still registered

bootVars  == <<reason, count, magic, phase, tick, abnormal, attempts>>
faultVars == <<entries, cursor, raiser, called, owed>>
lifeVars == <<bootVars, faultVars>>

Abnormal == {"WATCHDOG", "PANIC"}
Reasons  == Abnormal \cup {"POWER_ON", "SOFTWARE", "BROWNOUT"}
Registered == {entries[i] : i \in 1 .. Len(entries)}

Up(n) == IF n < MaxCount THEN n + 1 ELSE n

LifeTypeOK ==
  /\ reason \in Reasons
  /\ count \in 0 .. MaxCount
  /\ magic \in BOOLEAN
  /\ phase \in {"reset", "counted", "ready", "init", "loop", "locked",
                "failed"}
  /\ tick \in 0 .. HealthyTicks + 1
  /\ entries \in Seq(Actuators) /\ Len(entries) <= Slots
  /\ cursor \in 0 .. Slots + 1
  /\ raiser \in {"none", "main", "task"}
  /\ abnormal \in 0 .. MaxCount
  /\ attempts \in 0 .. MaxCount
  /\ called \subseteq Actuators
  /\ owed \subseteq Actuators

LifeInit ==
  /\ reason = "POWER_ON"
  /\ count \in 0 .. MaxCount
  /\ magic = FALSE
  /\ phase = "reset"
  /\ tick = 0
  /\ entries = <<>>
  /\ cursor = 0
  /\ raiser = "none"
  /\ abnormal = 0
  /\ attempts = 0
  /\ called = {}
  /\ owed = {}

\* The chip resets: RAM is lost, RTC memory only when power failed.
Reset(r, lost) ==
  /\ lost => r \in {"POWER_ON", "BROWNOUT"}
  /\ reason' = r
  /\ IF lost THEN magic' = FALSE /\ count' \in 0 .. MaxCount
     ELSE UNCHANGED <<magic, count>>
  /\ phase' = "reset"
  /\ tick' = 0
  /\ entries' = <<>>
  /\ cursor' = 0
  /\ raiser' = "none"
  /\ abnormal' = IF lost THEN 0 ELSE IF r \in Abnormal THEN Up(abnormal)
                                     ELSE abnormal
  /\ attempts' = IF lost THEN 0 ELSE attempts
  /\ called' = {}
  /\ owed' = {}

-----------------------------------------------------------------------------
(* wink_runtime_run.                                                       *)

\* the main loop is not inside a fault
MainFree == raiser # "main"

\* mutant: the magic number is not looked at
BootCountRaw == count

\* pal_os_get_abnormal_boot_count
BootCount == IF magic THEN count ELSE 0

\* the reset reason decides about the counter; the value is stored first ...
CountBoot ==
  /\ phase = "reset"
  /\ phase' = "counted"
  /\ CASE reason = "POWER_ON"  -> count' = 0 /\ abnormal' = 0 /\ attempts' = 0
       [] reason \in Abnormal  -> count' = Up(BootCount)
                                  /\ UNCHANGED <<abnormal, attempts>>
       [] OTHER                -> UNCHANGED <<count, abnormal, attempts>>
  /\ UNCHANGED <<reason, magic, tick, faultVars>>

\* mutant: one reset too many is let through
TooManyLate == reason \in Abnormal /\ count > Threshold

TooMany == reason \in Abnormal /\ count >= Threshold

\* ... and the magic number after it; then the boot goes on or is locked
Proceed ==
  /\ phase = "counted"
  /\ magic' = (magic \/ reason \in Abnormal \cup {"POWER_ON"})
  /\ ~TooMany
  /\ phase' = "ready"
  /\ UNCHANGED <<reason, count, tick, abnormal, attempts, faultVars>>

\* wink_runtime_fault: trace, wink_actuator_safe_off_all, on_fault
BeginFault(who) ==
  /\ raiser = "none"
  /\ raiser' = who
  /\ cursor' = 1
  /\ called' = {}
  /\ owed' = Registered
  /\ UNCHANGED entries

Lock ==
  /\ phase = "counted"
  /\ magic' = TRUE
  /\ TooMany
  /\ phase' = "locked"
  /\ BeginFault("main")
  /\ UNCHANGED <<reason, count, tick, abnormal, attempts>>

\* soft timers, event queue and on_boot are done: app init is entered
EnterInit ==
  /\ phase = "ready"
  /\ phase' = "init"
  /\ attempts' = IF reason \in Abnormal THEN Up(attempts) ELSE attempts
  /\ UNCHANGED <<reason, count, magic, tick, abnormal, faultVars>>

\* the event queue cannot be created: no fault, no app
NoQueue ==
  /\ phase = "ready"
  /\ phase' = "failed"
  /\ UNCHANGED <<reason, count, magic, tick, abnormal, attempts, faultVars>>

InitDone ==
  /\ phase = "init" /\ MainFree
  /\ phase' = "loop"
  /\ UNCHANGED <<reason, count, magic, tick, abnormal, attempts, faultVars>>

InitFails ==
  /\ phase = "init"
  /\ phase' = "failed"
  /\ BeginFault("main")
  /\ UNCHANGED <<reason, count, magic, tick, abnormal, attempts>>

\* one tick of the main loop; the milestone clears the counter
Tick ==
  /\ phase = "loop" /\ MainFree
  /\ tick <= HealthyTicks
  /\ tick' = tick + 1
  /\ IF tick = HealthyTicks
     THEN count' = 0 /\ magic' = TRUE /\ abnormal' = 0 /\ attempts' = 0
     ELSE UNCHANGED <<count, magic, abnormal, attempts>>
  /\ UNCHANGED <<reason, phase, faultVars>>

-----------------------------------------------------------------------------
(* Faults and the actuator registry.                                       *)

AppRuns == phase \in {"init", "loop"}

\* wink_runtime_raise_fault, from app code or from another task
RaiseFault(who) ==
  /\ AppRuns
  /\ BeginFault(who)
  /\ UNCHANGED bootVars

\* one callback of wink_actuator_safe_off_all; an error is only traced
SafeOff ==
  /\ raiser # "none" /\ cursor <= Len(entries)
  /\ called' = called \cup {entries[cursor]}
  /\ cursor' = cursor + 1
  /\ UNCHANGED <<bootVars, entries, raiser, owed>>

\* mutant: the loop ends one entry early
EndFaultEarly ==
  /\ raiser # "none" /\ cursor >= Len(entries)
  /\ raiser' = "none"
  /\ cursor' = 0
  /\ UNCHANGED <<bootVars, entries, called, owed>>

\* s_count reached: on_fault, and back to the caller
EndFault ==
  /\ raiser # "none" /\ cursor > Len(entries)
  /\ raiser' = "none"
  /\ cursor' = 0
  /\ UNCHANGED <<bootVars, entries, called, owed>>

\* mutant: the table's size is not checked
RegisterUnbounded(a) ==
  /\ AppRuns
  /\ a \notin Registered
  /\ entries' = Append(entries, a)
  /\ UNCHANGED <<bootVars, cursor, raiser, called, owed>>

\* wink_actuator_register of an actuator that is not in the table
Register(a) ==
  /\ AppRuns
  /\ a \notin Registered /\ Len(entries) < Slots
  /\ entries' = Append(entries, a)
  /\ UNCHANGED <<bootVars, cursor, raiser, called, owed>>

\* wink_actuator_unregister closes the gap
Unregister(a) ==
  /\ AppRuns
  /\ \E i \in 1 .. Len(entries) :
       /\ entries[i] = a
       /\ entries' = SubSeq(entries, 1, i - 1)
                       \o SubSeq(entries, i + 1, Len(entries))
       \* a pass that is under way may have lost its place
       /\ owed' = IF i < cursor THEN {} ELSE owed \ {a}
  /\ UNCHANGED <<bootVars, cursor, raiser, called>>

-----------------------------------------------------------------------------
BootStep == CountBoot \/ Proceed \/ Lock \/ EnterInit \/ NoQueue \/ InitDone
            \/ InitFails \/ Tick

FaultStep == SafeOff \/ EndFault

LifeNext ==
  \/ BootStep \/ FaultStep
  \/ \E r \in Reasons, lost \in BOOLEAN : Reset(r, lost)
  \/ \E who \in {"main", "task"} : RaiseFault(who)
  \/ \E a \in Actuators : Register(a) \/ Unregister(a)

LifeSpec == LifeInit /\ [][LifeNext]_lifeVars

-----------------------------------------------------------------------------
\* A firmware that keeps crashing gets at most Threshold - 1 chances: after
\* that many app inits that followed a watchdog or panic reset, with neither
\* a power-on nor a healthy run in between, the app is not started again by
\* such a reset, wherever in the boot the crashes and other resets fell.
CrashLoopIsLocked == attempts < Threshold

\* A device is locked only when it was reset abnormally Threshold times since
\* the counter was last cleared or lost: garbage in RTC memory after a power
\* failure never locks it.
LockIsDeserved == phase = "locked" => abnormal >= Threshold

\* A fault switches off every actuator it found registered, whatever is
\* registered meanwhile and whichever later entry is unregistered.
FaultReachesAll ==
  [][raiser # "none" /\ raiser' = "none" /\ phase' # "reset"
       => owed \subseteq called]_lifeVars
=============================================================================
