---------------------------- MODULE ButtonEvents ----------------------------
(***************************************************************************)
(* Button events on ESP32: from a finger on a pin to the events the        *)
(* application sees.  Three actors share the soft-timer table and the      *)
(* slots of the buttons without a lock:                                    *)
(*                                                                         *)
(*   the GPIO interrupt    marks a button pending and gives a semaphore;   *)
(*   the daemon task       takes it, and restarts the debounce timer of    *)
(*                         every button that is pending;                   *)
(*   the main loop         dispatches the soft timers, whose callbacks     *)
(*                         read the pin and report events, then runs the   *)
(*                         application, which enables and disables them.   *)
(*                                                                         *)
(* A button may also be polled by a periodic soft timer, through the       *)
(* driver's own debouncing.  One step of an actor is the code between two  *)
(* points where another actor's step would make a difference.              *)
(***************************************************************************)
EXTENDS Integers

CONSTANTS
  Buttons,        \* the buttons of the application, all initialised
  Drives,         \* the backends the application may ask of each button
  NSlots,         \* WINK_BUTTON_EVENTS_MAX
  NTimers,        \* WINK_MAX_SOFT_TIMERS
  Others,         \* how many of these other components may hold
  Debounce,       \* ticks of the debounce timer
  LongPress,      \* ticks of a long press
  Samples,        \* debounce_threshold of the driver
  MaxFlips,       \* bound: how often the fingers move
  MaxEnables,     \* bound: how often the application enables events
  None

ASSUME CountsAssumption ==
  /\ NSlots \in Nat \ {0} /\ NTimers \in Nat \ {0} /\ Others \in 0 .. NTimers
  /\ Debounce \in Nat \ {0} /\ LongPress \in Nat \ {0} /\ Samples \in Nat \ {0}
  /\ MaxFlips \in Nat /\ MaxEnables \in Nat
ASSUME ButtonsAssumption ==
  None \notin Buttons /\ Drives \in [Buttons -> SUBSET {"irq", "poll"}]

Slots   == 0 .. NSlots - 1
Handles == 0 .. NTimers - 1

VARIABLES
  timers,     \* s_timers
  slots,      \* g_button_event_slots
  dal,        \* the drivers' dal_button_t
  pc, ti, seen,   \* the main loop: where it is, at which timer, what it loaded
  daemon,     \* the daemon task: where it is, at which slot, the handle it read
  sem,        \* s_daemon_sem, a binary semaphore
  isr,        \* the button whose interrupt handler has not given it yet
  latched,    \* the buttons whose pin has an edge the interrupt is yet to take
  pin,        \* the buttons that are held down
  flips, enables, \* bounds
  edged,      \* history: the buttons with an edge since they were armed
  missed,     \* history: those whose last edge the code let go (see Finish)
  restarted,  \* history: the daemon restarted the timer the main loop is at
  evt, age    \* history: the last event of each button, and ticks since then

mainVars == <<pc, ti, seen>>
irqVars  == <<isr, latched>>
boundVars == <<flips, enables>>
evtVars  == <<evt, age>>
vars == <<timers, slots, dal, mainVars, daemon, sem, irqVars, pin, boundVars,
          edged, missed, restarted, evtVars>>

-----------------------------------------------------------------------------
(* Soft timers.  The period, the mode and the callback go together.        *)

Period(cb) == CASE cb = "debounce" -> Debounce [] cb = "longpress" -> LongPress
                [] OTHER -> 1
OneShot(cb) == cb # "poll"

OtherTimer == [cb |-> "other", arg |-> None, left |-> 1, active |-> FALSE]
FreeTimer == [cb |-> "free", arg |-> None, left |-> 0, active |-> FALSE]
FreeSlot  == [btn |-> None, drive |-> "poll", debounceH |-> -1, longpressH |-> -1,
              pollH |-> -1, last |-> FALSE, fired |-> FALSE]

Free(ts)  == {h \in Handles : ts[h].cb = "free"}
First(S)  == CHOOSE x \in S : \A y \in S : x <= y

\* wink_soft_timer_create in the first free entry
Created(ts, cb, arg) ==
  [ts EXCEPT ![First(Free(ts))] =
     [cb |-> cb, arg |-> arg, left |-> Period(cb), active |-> FALSE]]

Started(ts, h) ==
  IF ts[h].cb = "free" THEN ts
  ELSE [ts EXCEPT ![h].left = Period(ts[h].cb), ![h].active = TRUE]

Stopped(ts, h) == [ts EXCEPT ![h].active = FALSE]

Destroyed(ts, hs) == [h \in Handles |-> IF h \in hs THEN FreeTimer ELSE ts[h]]

\* the timers of a slot
Owned(s) == {s.debounceH, s.longpressH, s.pollH} \ {-1}

-----------------------------------------------------------------------------
(* The application enables and disables events between two passes.         *)

Init ==
  /\ \E n \in 0 .. Others : timers = [h \in Handles |-> IF h < n THEN OtherTimer ELSE FreeTimer]
  /\ slots = [i \in Slots |-> FreeSlot]
  /\ dal = [b \in Buttons |->
              [stable |-> FALSE, count |-> 0, prev |-> FALSE, fired |-> FALSE,
               held |-> LongPress, backend |-> "none", pending |-> FALSE]]
  /\ pc = "app" /\ ti = 0 /\ seen = 0
  /\ daemon = [pc |-> "absent", i |-> 0, h |-> -1]
  /\ sem = FALSE /\ isr = None /\ latched = {}
  /\ pin \in SUBSET Buttons
  /\ flips = 0 /\ enables = 0
  /\ edged = {} /\ missed = {} /\ restarted = FALSE
  /\ evt = [b \in Buttons |-> "NONE"] /\ age = [b \in Buttons |-> 0]

\* the slots a new stream may take; none if the button has one
Available(b) ==
  IF \E i \in Slots : slots[i].btn = b THEN {} ELSE {i \in Slots : slots[i].btn = None}

\* what enabling does to the driver before it arms a backend
Retuned(b) == [dal[b] EXCEPT !.count = 0]

\* mutant: only the debounce timer is given back
RolledBackByHalf(ts, hs) == Destroyed(ts, {First(hs)})

\* the timers arming created are destroyed when a later step fails
RolledBack(ts, hs) == Destroyed(ts, hs)

Request(b, drive) ==
  /\ pc = "app"
  /\ enables < MaxEnables /\ enables' = enables + 1
  /\ drive \in Drives[b]
  /\ Available(b) # {}
  /\ UNCHANGED <<mainVars, sem, irqVars, pin, flips, edged, missed, restarted, evtVars>>

\* gpio_irq: two timers, the daemon, the interrupt; whatever fails undoes the rest
EnableIrq(b) ==
  /\ Request(b, "irq")
  /\ LET i  == First(Available(b))
         dh == First(Free(timers))
         t1 == Created(timers, "debounce", i)
         lh == First(Free(t1))
         t2 == Created(t1, "longpress", i)
         started == IF daemon.pc = "absent" THEN [daemon EXCEPT !.pc = "wait"] ELSE daemon
     IN \/ /\ Free(timers) = {}
           /\ UNCHANGED <<timers, slots, daemon>>
           /\ dal' = [dal EXCEPT ![b] = Retuned(b)]
        \/ /\ Free(timers) # {} /\ Free(t1) = {}
           /\ timers' = RolledBack(t1, {dh})
           /\ UNCHANGED <<slots, daemon>>
           /\ dal' = [dal EXCEPT ![b] = Retuned(b)]
        \/ /\ Free(timers) # {} /\ Free(t1) # {}
           /\ timers' = RolledBack(t2, {dh, lh})
           /\ UNCHANGED slots
           /\ daemon' \in {daemon, started}   \* the daemon or the interrupt fails
           /\ dal' = [dal EXCEPT ![b] = [Retuned(b) EXCEPT !.backend = "none"]]
        \/ /\ Free(timers) # {} /\ Free(t1) # {}
           /\ timers' = t2
           /\ slots' = [slots EXCEPT ![i] =
                          [FreeSlot EXCEPT !.btn = b, !.drive = "irq", !.debounceH = dh,
                                           !.longpressH = lh, !.last = dal[b].stable]]
           /\ daemon' = started
           /\ dal' = [dal EXCEPT ![b] = [Retuned(b) EXCEPT !.backend = "irq"]]

\* soft_poll: a periodic timer that runs the driver
EnablePoll(b) ==
  /\ Request(b, "poll")
  /\ UNCHANGED daemon
  /\ LET i == First(Available(b))
         h == First(Free(timers))
         hooked == [Retuned(b) EXCEPT !.prev = dal[b].stable, !.fired = FALSE]
     IN \/ /\ Free(timers) = {}
           /\ UNCHANGED <<timers, slots>>
           /\ dal' = [dal EXCEPT ![b] = hooked]
        \/ /\ Free(timers) # {}
           /\ timers' = Started(Created(timers, "poll", b), h)
           /\ slots' = [slots EXCEPT ![i] =
                          [FreeSlot EXCEPT !.btn = b, !.pollH = h, !.last = dal[b].stable]]
           /\ dal' = [dal EXCEPT ![b] = [hooked EXCEPT !.backend = "poll"]]

\* wink_button_disable_events, given the timers and the driver's state d at the
\* call; an interrupt of the button that is under way is waited for
DisableFrom(b, i, ts, d) ==
  /\ isr # b
  /\ timers' = Destroyed(ts, Owned(slots[i]))
  /\ slots' = [slots EXCEPT ![i] = FreeSlot]
  /\ dal' = [dal EXCEPT ![b] =
               IF slots[i].drive = "irq" THEN [d EXCEPT !.backend = "none"]
               ELSE [d EXCEPT !.backend = "none", !.prev = d.stable, !.fired = FALSE]]
  /\ latched' = latched \ {b}
  /\ edged' = edged \ {b} /\ missed' = missed \ {b}
  /\ evt' = [evt EXCEPT ![b] = "NONE"] /\ age' = [age EXCEPT ![b] = 0]

Disable(b) ==
  /\ pc = "app"
  /\ \E i \in Slots : slots[i].btn = b /\ DisableFrom(b, i, timers, dal[b])
  /\ UNCHANGED <<mainVars, daemon, sem, isr, pin, boundVars, restarted>>

-----------------------------------------------------------------------------
(* The main loop dispatches the timers one by one.  Loading remaining_ticks *)
(* and storing it are two steps: the daemon may restart the timer between  *)
(* them.  So are the callback and what dispatch does to the timer after it. *)

StartPass ==
  /\ pc = "app"
  /\ pc' = "load" /\ ti' = 0
  /\ UNCHANGED <<timers, slots, dal, seen, daemon, sem, irqVars, pin, boundVars, edged,
                 missed, restarted, evtVars>>

\* the loop goes on with the next timer
NextTimer ==
  /\ seen' = 0
  /\ IF ti + 1 \in Handles THEN pc' = "load" /\ ti' = ti + 1
                           ELSE pc' = "sleep" /\ ti' = 0

Load ==
  /\ pc = "load"
  /\ IF timers[ti].active THEN pc' = "store" /\ seen' = timers[ti].left /\ UNCHANGED ti
                          ELSE NextTimer
  /\ UNCHANGED <<timers, slots, dal, daemon, sem, irqVars, pin, boundVars, edged, missed,
                 restarted, evtVars>>

Store ==
  /\ pc = "store"
  /\ timers' = [timers EXCEPT ![ti].left = IF seen > 0 THEN seen - 1 ELSE 0]
  /\ IF seen > 1 THEN NextTimer ELSE pc' = "call" /\ UNCHANGED <<ti, seen>>
  /\ UNCHANGED <<slots, dal, daemon, sem, irqVars, pin, boundVars, edged, missed,
                 restarted, evtVars>>

\* remaining_ticks is read again, and the daemon has restarted the timer
Reread ==
  /\ pc = "call"
  /\ timers[ti].left # 0
  /\ NextTimer
  /\ UNCHANGED <<timers, slots, dal, daemon, sem, irqVars, pin, boundVars, edged, missed,
                 restarted, evtVars>>

\* the button and the slot the timer at the cursor serves
SlotAt == IF timers[ti].cb = "poll"
          THEN CHOOSE i \in Slots : slots[i].btn = timers[ti].arg
          ELSE timers[ti].arg
ButtonAt == slots[SlotAt].btn

\* mutant: one sample more than the threshold
PolledTooLong(d, down) ==
  IF down = d.stable THEN [d EXCEPT !.count = 0]
  ELSE IF d.count >= Samples THEN [d EXCEPT !.stable = down, !.count = 0]
  ELSE [d EXCEPT !.count = @ + 1]

\* dal_button_poll: the driver's debouncing
Polled(d, down) ==
  IF down = d.stable THEN [d EXCEPT !.count = 0]
  ELSE IF d.count + 1 >= Samples THEN [d EXCEPT !.stable = down, !.count = 0]
  ELSE [d EXCEPT !.count = @ + 1]

\* mutant: a long press is reported at every poll
PollVerdictAgain(d) ==
  CASE d.stable # d.prev -> IF d.stable THEN "PRESS" ELSE "RELEASE"
    [] d.stable = d.prev /\ d.stable /\ d.held >= LongPress -> "LONG"
    [] OTHER -> "NONE"

\* the event dal_button_poll reports after debouncing
PollVerdict(d) ==
  CASE d.stable # d.prev -> IF d.stable THEN "PRESS" ELSE "RELEASE"
    [] d.stable = d.prev /\ d.stable /\ ~d.fired /\ d.held >= LongPress -> "LONG"
    [] OTHER -> "NONE"

\* the event the callback at the cursor posts
Verdict ==
  LET s == slots[SlotAt]  b == ButtonAt
  IN CASE timers[ti].cb = "debounce" ->
            IF (b \in pin) = s.last THEN "NONE" ELSE IF b \in pin THEN "PRESS" ELSE "RELEASE"
       [] timers[ti].cb = "longpress" ->
            IF s.last /\ ~s.fired THEN "LONG" ELSE "NONE"
       [] timers[ti].cb = "poll" -> PollVerdict(Polled(dal[b], b \in pin))

\* last_pressed and long_press_fired of a slot, by either backend
Reported(s, e) ==
  CASE e = "PRESS"   -> [s EXCEPT !.last = TRUE, !.fired = FALSE]
    [] e = "RELEASE" -> [s EXCEPT !.last = FALSE, !.fired = FALSE]
    [] e = "LONG"    -> [s EXCEPT !.fired = TRUE]
    [] OTHER -> s

\* the driver's own state after the event
Driven(d, e) ==
  CASE e = "PRESS"   -> [d EXCEPT !.prev = TRUE, !.fired = FALSE, !.held = 0]
    [] e = "RELEASE" -> [d EXCEPT !.prev = FALSE, !.fired = FALSE]
    [] e = "LONG"    -> [d EXCEPT !.fired = TRUE]
    [] OTHER -> d

\* a press starts the long-press timer of an IRQ-driven button, a release stops it
Rearmed(ts, s, e) ==
  CASE s.drive = "irq" /\ e = "PRESS"   -> Started(ts, s.longpressH)
    [] s.drive = "irq" /\ e = "RELEASE" -> Stopped(ts, s.longpressH)
    [] OTHER -> ts

\* The callback posts its event, and the application's own callback for it
\* may disable the button there and then.
Call ==
  /\ pc = "call"
  /\ pc' = "finish"
  /\ LET i == SlotAt  b == ButtonAt  e == Verdict
         d == IF timers[ti].cb = "poll" THEN Driven(Polled(dal[b], b \in pin), e) ELSE dal[b]
     IN \/ /\ timers' = Rearmed(timers, slots[i], e)
           /\ slots' = [slots EXCEPT ![i] = Reported(@, e)]
           /\ dal' = [dal EXCEPT ![b] = d]
           /\ IF e = "NONE" THEN UNCHANGED evtVars
              ELSE evt' = [evt EXCEPT ![b] = e] /\ age' = [age EXCEPT ![b] = 0]
           /\ UNCHANGED <<latched, edged, missed>>
        \/ /\ e # "NONE"
           /\ DisableFrom(b, i, timers, d)
  /\ restarted' = FALSE
  /\ UNCHANGED <<ti, seen, daemon, sem, isr, pin, boundVars>>

\* Dispatch stops a one-shot timer after its callback.  If the daemon has
\* restarted it meanwhile the restart is wiped out: the edge it was for may
\* have come after the callback read the pin.
Finish ==
  /\ pc = "finish"
  /\ NextTimer
  /\ timers' = IF OneShot(timers[ti].cb) THEN [timers EXCEPT ![ti].active = FALSE]
               ELSE [timers EXCEPT ![ti].left = Period(timers[ti].cb)]
  /\ missed' = IF restarted /\ timers[ti].cb = "debounce" THEN missed \cup {ButtonAt}
               ELSE missed
  /\ restarted' = FALSE
  /\ UNCHANGED <<slots, dal, daemon, sem, irqVars, pin, boundVars, edged, evtVars>>

Older(n) == IF n < LongPress THEN n + 1 ELSE n

\* the application loop and the rest of the tick
Sleep ==
  /\ pc = "sleep"
  /\ pc' = "app"
  /\ dal' = [b \in Buttons |-> [dal[b] EXCEPT !.held = Older(@)]]
  /\ age' = [b \in Buttons |-> IF evt[b] = "PRESS" THEN Older(age[b]) ELSE 0]
  /\ UNCHANGED <<timers, slots, ti, seen, daemon, sem, irqVars, pin, boundVars, edged,
                 missed, restarted, evt>>

-----------------------------------------------------------------------------
(* The interrupt and the daemon task.                                      *)

\* a finger moves; the interrupt of an IRQ-driven button latches the edge
Flip(b) ==
  /\ flips < MaxFlips /\ flips' = flips + 1
  /\ pin' = (pin \ {b}) \cup ({b} \ pin)
  /\ IF dal[b].backend = "irq"
     THEN latched' = latched \cup {b} /\ edged' = edged \cup {b} /\ missed' = missed \ {b}
     ELSE UNCHANGED <<latched, edged, missed>>
  /\ UNCHANGED <<timers, slots, dal, mainVars, daemon, sem, isr, enables, restarted, evtVars>>

\* dal_button_gpio_isr marks the button pending ...
IsrMark(b) ==
  /\ isr = None /\ b \in latched
  /\ isr' = b /\ latched' = latched \ {b}
  /\ dal' = [dal EXCEPT ![b].pending = TRUE]
  /\ UNCHANGED <<timers, slots, mainVars, daemon, sem, pin, boundVars, edged, missed,
                 restarted, evtVars>>

\* mutant: the hook wakes the daemon only while it waits
IsrGiveToSleeper ==
  /\ isr # None
  /\ isr' = None /\ sem' = (sem \/ daemon.pc = "wait")
  /\ UNCHANGED <<timers, slots, dal, mainVars, daemon, latched, pin, boundVars, edged,
                 missed, restarted, evtVars>>

\* ... and its hook wakes the daemon
IsrGive ==
  /\ isr # None
  /\ isr' = None /\ sem' = TRUE
  /\ UNCHANGED <<timers, slots, dal, mainVars, daemon, latched, pin, boundVars, edged,
                 missed, restarted, evtVars>>

\* the daemon goes on with the next slot
NextSlot == IF daemon.i + 1 \in Slots THEN [pc |-> "scan", i |-> daemon.i + 1, h |-> -1]
            ELSE [pc |-> "wait", i |-> 0, h |-> -1]

DaemonTake ==
  /\ daemon.pc = "wait" /\ sem
  /\ sem' = FALSE
  /\ daemon' = [daemon EXCEPT !.pc = "scan"]
  /\ UNCHANGED <<timers, slots, dal, mainVars, irqVars, pin, boundVars, edged, missed,
                 restarted, evtVars>>

\* the slot is armed, and its button was pending
DaemonScan ==
  /\ daemon.pc = "scan"
  /\ LET s == slots[daemon.i]
     IN IF s.drive = "irq" /\ dal[s.btn].pending
        THEN /\ dal' = [dal EXCEPT ![s.btn].pending = FALSE]
             /\ daemon' = [daemon EXCEPT !.pc = "recheck"]
        ELSE daemon' = NextSlot /\ UNCHANGED dal
  /\ UNCHANGED <<timers, slots, mainVars, sem, irqVars, pin, boundVars, edged, missed,
                 restarted, evtVars>>

DaemonRecheck ==
  /\ daemon.pc = "recheck"
  /\ LET s == slots[daemon.i]
     IN daemon' = IF s.drive = "irq" THEN [daemon EXCEPT !.pc = "stop", !.h = s.debounceH]
                  ELSE NextSlot
  /\ UNCHANGED <<timers, slots, dal, mainVars, sem, irqVars, pin, boundVars, edged, missed,
                 restarted, evtVars>>

\* The timer whose handle the daemon read, which may be another's by now, is
\* stopped; the handle is read again to start it.
DaemonStop ==
  /\ daemon.pc = "stop"
  /\ timers' = Stopped(timers, daemon.h)
  /\ LET t == timers[daemon.h]  again == slots[daemon.i].debounceH
     IN /\ daemon' = IF again = -1 THEN NextSlot ELSE [daemon EXCEPT !.pc = "start", !.h = again]
        /\ missed' = IF t.cb = "debounce" /\ t.arg # daemon.i
                     THEN missed \cup {slots[t.arg].btn} ELSE missed
  /\ UNCHANGED <<slots, dal, mainVars, sem, irqVars, pin, boundVars, edged, restarted, evtVars>>

DaemonStart ==
  /\ daemon.pc = "start"
  /\ timers' = Started(timers, daemon.h)
  /\ restarted' = (restarted \/ (pc = "finish" /\ daemon.h = ti))
  /\ daemon' = NextSlot
  /\ UNCHANGED <<slots, dal, mainVars, sem, irqVars, pin, boundVars, edged, missed, evtVars>>

-----------------------------------------------------------------------------
MainLoop == StartPass \/ Load \/ Store \/ Reread \/ Call \/ Finish \/ Sleep
App      == \E b \in Buttons : EnableIrq(b) \/ EnablePoll(b) \/ Disable(b)
Isr      == (\E b \in Buttons : IsrMark(b)) \/ IsrGive
Daemon   == DaemonTake \/ DaemonScan \/ DaemonRecheck \/ DaemonStop \/ DaemonStart
Finger   == \E b \in Buttons : Flip(b)

Next == MainLoop \/ App \/ Isr \/ Daemon \/ Finger

Spec == Init /\ [][Next]_vars

-----------------------------------------------------------------------------
(* Properties.                                                             *)

Events == {"NONE", "PRESS", "RELEASE", "LONG"}

\* The type of every variable; a debounce count stays below the threshold.
TypeOK ==
  /\ timers \in [Handles -> [cb : {"free", "other", "debounce", "longpress", "poll"},
                             arg : Slots \cup Buttons \cup {None},
                             left : 0 .. Debounce + LongPress, active : BOOLEAN]]
  /\ \A h \in Free(timers) : timers[h] = FreeTimer
  /\ slots \in [Slots -> [btn : Buttons \cup {None}, drive : {"irq", "poll"},
                          debounceH : Handles \cup {-1}, longpressH : Handles \cup {-1},
                          pollH : Handles \cup {-1}, last : BOOLEAN, fired : BOOLEAN]]
  /\ dal \in [Buttons -> [stable : BOOLEAN, count : 0 .. Samples - 1, prev : BOOLEAN,
                          fired : BOOLEAN, held : 0 .. LongPress,
                          backend : {"none", "poll", "irq"}, pending : BOOLEAN]]
  /\ pc \in {"app", "load", "store", "call", "finish", "sleep"}
  /\ ti \in Handles /\ seen \in 0 .. Debounce + LongPress
  /\ daemon \in [pc : {"absent", "wait", "scan", "recheck", "stop", "start"},
                 i : Slots, h : Handles \cup {-1}]
  /\ sem \in BOOLEAN /\ isr \in Buttons \cup {None}
  /\ latched \subseteq Buttons /\ pin \subseteq Buttons
  /\ flips \in 0 .. MaxFlips /\ enables \in 0 .. MaxEnables
  /\ edged \subseteq Buttons /\ missed \subseteq Buttons /\ restarted \in BOOLEAN
  /\ evt \in [Buttons -> Events] /\ age \in [Buttons -> 0 .. LongPress]

\* Every timer in use belongs to one enabled button, and every enabled button
\* has its own: whatever step of arming failed, whoever disabled what and in
\* which callback, no entry of the table leaks and none is served twice.
TimersAreOwned ==
  /\ \A h \in Handles : timers[h].cb \notin {"free", "other"} <=> \E i \in Slots : h \in Owned(slots[i])
  /\ \A i, j \in Slots : i # j => Owned(slots[i]) \cap Owned(slots[j]) = {}
  /\ \A i \in Slots : LET s == slots[i] IN
       s.drive = "irq" => /\ timers[s.debounceH].cb = "debounce" /\ timers[s.debounceH].arg = i
                          /\ timers[s.longpressH].cb = "longpress" /\ timers[s.longpressH].arg = i

\* When the interrupt, the daemon and the debounce timer are all at rest, the
\* last event of an IRQ-driven button that moved says where the button is: no
\* edge is forgotten between the pending flag, the semaphore, the daemon's
\* scan and the timer.  The two ways in which the code does let an edge go are
\* in missed: Finish wipes out a restart, and DaemonStop hits a timer that
\* was handed on.
NoEdgeForgotten ==
  \A i \in Slots : LET s == slots[i] IN
    /\ s.drive = "irq" /\ s.btn \in edged \ missed
    /\ isr = None /\ s.btn \notin latched /\ ~sem /\ daemon.pc = "wait"
    /\ ~timers[s.debounceH].active
    => s.last = (s.btn \in pin)

\* Presses and releases alternate, and a long press is reported once per press,
\* never after the release, and after the time it takes (less the tick under
\* way), whichever backend times it and whatever restarts its timer.  Only a
\* stream that begins with the button reported as pressed may begin with one.
EventsInOrder ==
  pc = "call" =>
    LET b == ButtonAt  e == Verdict
    IN /\ e = "PRESS"   => evt[b] \in {"NONE", "RELEASE"}
       /\ e = "RELEASE" => evt[b] # "RELEASE"
       /\ e = "LONG"    => \/ evt[b] = "PRESS" /\ age[b] >= LongPress - 1
                           \/ evt[b] = "NONE" /\ slots[SlotAt].last
=============================================================================
