------------------------------- MODULE McsIsr -------------------------------
(***************************************************************************)
(* The interrupt controller of the simulated MCS-51: the two phases of an  *)
(* interrupt (mcs51_raise_irq latches a request, mcs51_irq_scan_and_       *)
(* dispatch calls a handler), the peripherals that raise requests, and the *)
(* microstep that every register access of the firmware pays.              *)
(*                                                                         *)
(* Nothing here runs concurrently, and everything is re-entrant: a scan    *)
(* calls a handler, the handler's register accesses are microsteps of      *)
(* their own, and those poll the timers and scan again.  The C stack is    *)
(* the variable todo: the calls still to be made, innermost first.  With   *)
(* todo = <<>> the firmware's main line runs; with a handler on top, that  *)
(* handler does; otherwise the machine takes the call on top.              *)
(***************************************************************************)
EXTENDS Naturals, Sequences, FiniteSets

CONSTANTS
  Uses,       \* the sets of interrupt sources a firmware uses, of 0 .. 5
  Reloading,  \* the timers that reload themselves (mode 2, T2R)
  IEValues,   \* the values the firmware writes to IE: sources and EA
  IPValues    \* the values it writes to IP: the sources of high priority

INT0 == 0   TIMER0 == 1   INT1 == 2   TIMER1 == 3   UART0 == 4   TIMER2 == 5
EA == 7                       \* the global enable, IE.7
RI == 10    TI == 11          \* the two flags of UART0

Sources == UNION Uses
Lines   == {INT0, INT1} \cap Sources
Timers  == {TIMER0, TIMER1, TIMER2} \cap Sources
\* the flags the hardware clears when it enters the handler
HwAutoClear == {INT0, TIMER0, INT1, TIMER1}
Flags == (Sources \ {UART0}) \cup {RI, TI}

ASSUME SourcesAssumption == Sources \subseteq 0 .. 5 /\ Reloading \subseteq Timers
ASSUME ValuesAssumption  == /\ IEValues \subseteq SUBSET (Sources \cup {EA})
                            /\ IPValues \subseteq SUBSET Sources

VARIABLES
  used,       \* the sources this firmware uses
  ie, ip,     \* the registers IE and IP
  edge,       \* the lines in edge mode (ITx)
  flag,       \* the request flags of TCON, SCON and T2IF that are set
  pending,    \* ctx->pending_interrupts
  prios,      \* ctx->in_service_prio_stack, up to in_service_depth
  suppress,   \* ctx->reti_suppress_one
  running,    \* the timers with TRx set
  armed,      \* the timers with next_ovf_us /= NO_OVERFLOW
  due,        \* the armed timers whose next_ovf_us has passed
  sampled,    \* the lines whose last sample was low
  todo,       \* the calls still to be made, the innermost first
  fresh,      \* history: the armed deadlines that have raised no request yet
  owed        \* history: the sources with an event since their last handler

registers == <<used, ie, ip, edge>>
timers    == <<running, armed, due, fresh>>
requests  == <<flag, pending, owed>>
service   == <<prios, suppress>>
vars == <<registers, timers, requests, service, sampled, todo>>

Main == todo = <<>>
InHandler == todo # <<>> /\ Head(todo)[1] = "isr"
Firmware  == Main \/ InHandler
Next_call(kind, x) == todo # <<>> /\ Head(todo) = <<kind, x>>
InService == prios # <<>>

(***************************************************************************)
(* The calls a microstep makes after it has charged its time: the polls in *)
(* the order of the peripheral table, and the scan.  A drain of the UART's *)
(* input ends with a scan of its own.  The catch-up of an exhausted quota  *)
(* steps the timers and scans, before the polls.                           *)
(***************************************************************************)
Call(kind) == << <<kind, 0>> >>
Step(t)    == IF t \in used THEN << <<"timer", t>> >> ELSE <<>>
StepTimers == Step(TIMER0) \o Step(TIMER1) \o Step(TIMER2)
PollUart   == IF UART0 \in used THEN Call("uart") \o Call("scan") ELSE <<>>
Polls   == StepTimers \o PollUart \o Call("lines") \o Call("scan")
CatchUp == StepTimers \o Call("scan")

\* wink_mcs51_charge_us: time passes, deadlines with it; on the main line the
\* quota may be used up, and the catch-up runs before what was to be done next
Charge(rest) ==
  /\ \E passed \in SUBSET armed : due' = due \cup passed
  /\ \/ todo' = rest
     \/ ~InService /\ todo' = CatchUp \o rest
  /\ UNCHANGED <<running, armed, fresh>>

\* wink_mcs51_microstep
Microstep(rest) == Charge(Polls \o rest) /\ suppress' = FALSE /\ UNCHANGED prios

(***************************************************************************)
(* The firmware: one register access at a time, each followed by the       *)
(* microstep it pays.  A write takes effect, and its hook runs, before.    *)
(***************************************************************************)
Idle ==    \* a read or a _nop_
  Firmware /\ Microstep(todo) /\ UNCHANGED <<registers, requests, sampled>>

WriteIE ==
  /\ Firmware /\ \E v \in IEValues : ie' = v \cap (used \cup {EA})
  /\ Microstep(todo)
  /\ UNCHANGED <<used, ip, edge, requests, sampled>>

WriteIP ==
  /\ Firmware /\ \E v \in IPValues : ip' = v \cap used
  /\ Microstep(todo)
  /\ UNCHANGED <<used, ie, edge, requests, sampled>>

WriteIT(line) ==
  /\ Firmware /\ line \in used
  /\ edge' = IF line \in edge THEN edge \ {line} ELSE edge \cup {line}
  /\ Microstep(todo)
  /\ UNCHANGED <<used, ie, ip, requests, sampled>>

\* a polled event, or a flag the hardware leaves to the software
ClearFlag(f) ==
  /\ Firmware /\ f \in flag /\ flag' = flag \ {f} /\ Microstep(todo)
  /\ UNCHANGED <<registers, pending, owed, sampled>>

\* timer_start and timer_stop, from the hook of TCON and T2CON; then a
\* microstep whose charge sees the new deadline
Schedule(t, late) ==    \* schedule_from_reload; late: the instant has passed
  /\ armed' = armed \cup {t}
  /\ due' = IF late THEN due \cup {t} ELSE due \ {t}
  /\ fresh' = fresh \cup {t}

Start(t) ==
  /\ Firmware /\ t \in used \ running /\ running' = running \cup {t}
  /\ Schedule(t, FALSE)
  /\ todo' = Call("step") \o todo
  /\ UNCHANGED <<registers, requests, service, sampled>>

Stop(t) ==
  /\ Firmware /\ t \in running /\ running' = running \ {t}
  /\ armed' = armed \ {t} /\ due' = due \ {t} /\ fresh' = fresh \ {t}
  /\ todo' = Call("step") \o todo
  /\ UNCHANGED <<registers, requests, service, sampled>>

\* a write of THx or TLx while the timer runs
Reload(t) ==
  /\ Firmware /\ t \in running /\ Schedule(t, FALSE)
  /\ todo' = Call("step") \o todo
  /\ UNCHANGED <<running, registers, requests, service, sampled>>

\* on_sbuf_write: the byte's time is charged before TI is set
Transmit ==
  /\ Firmware /\ UART0 \in used
  /\ Charge(Call("sent") \o todo)
  /\ suppress' = (suppress /\ InService)
  /\ UNCHANGED <<prios, registers, requests, sampled>>

\* the end of a handler, and of the scan that called it
Return ==
  /\ InHandler /\ todo' = Tail(todo)
  /\ prios' = SubSeq(prios, 1, Len(prios) - 1) /\ suppress' = TRUE
  /\ UNCHANGED <<registers, timers, requests, sampled>>

(***************************************************************************)
(* The machine: the call on top of todo.                                   *)
(***************************************************************************)
\* mcs51_raise_irq, by then with the source's flag set by the peripheral
Raise(s) == pending' = pending \cup {s}

\* the microstep after a write whose hook moved a deadline
DoStep ==
  /\ Next_call("step", 0) /\ Microstep(Tail(todo))
  /\ UNCHANGED <<registers, requests, sampled>>

Sent ==
  /\ Next_call("sent", 0)
  /\ flag' = flag \cup {TI} /\ Raise(UART0) /\ owed' = owed \cup {UART0}
  /\ todo' = Call("step") \o Tail(todo)
  /\ UNCHANGED <<registers, timers, service, sampled>>

(***************************************************************************)
(* on_overflow: the deadline is consumed BEFORE the handler runs, since    *)
(* the handler's own microsteps step the timers again.  A timer that does  *)
(* not reload itself is armed again after the dispatch, at the overflow's  *)
(* instant, which may be long past by then.                                *)
(***************************************************************************)
\* mutant: the deadline stays until the dispatch is over
ConsumeLater(t) == fresh' = fresh \ {t} /\ UNCHANGED <<due, armed>>
Consume(t) ==
  /\ due' = due \ {t}
  /\ armed' = IF t \in Reloading THEN armed ELSE armed \ {t}
  /\ fresh' = IF t \in Reloading THEN fresh \cup {t} ELSE fresh \ {t}

\* mutant: the loop of step_timer looks at the clock again
AfterOverflowAgain(t) == Call("scan") \o << <<"rearm", t>>, <<"timer", t>> >>
AfterOverflow(t) ==
  Call("scan") \o IF t \in {TIMER0, TIMER1} \ Reloading THEN << <<"rearm", t>> >> ELSE <<>>

TimerOverflow(t) ==
  /\ Next_call("timer", t) /\ t \in due
  /\ Consume(t)
  /\ flag' = flag \cup {t} /\ Raise(t) /\ owed' = owed \cup ({t} \cap fresh)
  /\ suppress' = FALSE
  /\ todo' = AfterOverflow(t) \o Tail(todo)
  /\ UNCHANGED <<running, registers, prios, sampled>>

TimerNotDue(t) ==
  /\ Next_call("timer", t) /\ t \notin due /\ todo' = Tail(todo)
  /\ UNCHANGED <<registers, timers, requests, service, sampled>>

Rearm(t) ==
  /\ Next_call("rearm", t) /\ todo' = Tail(todo)
  /\ IF t \in running
       THEN \E late \in BOOLEAN : Schedule(t, late) /\ UNCHANGED running
       ELSE UNCHANGED timers
  /\ UNCHANGED <<registers, requests, service, sampled>>

\* rx_deliver_one: a byte is there and RI is clear.  With RI set it waits
\* (in a handler) or is dropped (on the main line): neither is seen here.
Receive ==
  /\ Next_call("uart", 0) /\ RI \notin flag /\ todo' = Tail(todo)
  /\ flag' = flag \cup {RI} /\ Raise(UART0) /\ owed' = owed \cup {UART0}
  /\ UNCHANGED <<registers, timers, service, sampled>>

ReceiveNothing ==
  /\ Next_call("uart", 0) /\ todo' = Tail(todo)
  /\ UNCHANGED <<registers, timers, requests, service, sampled>>

\* mcs51_extint_poll: low are the lines at low level, of the lines `read'
\* that are sampled now (each at most once in SAMPLE_PERIOD_US) and driven
PollLines(read, low) ==
  LET falling == {l \in (read \cap low) \cap edge : l \notin sampled}
      flagged == flag \cup falling
      raised  == {l \in read : IF l \in edge THEN l \in flagged ELSE l \in low}
  IN /\ Next_call("lines", 0) /\ todo' = Tail(todo)
     /\ sampled' = (sampled \ read) \cup low
     /\ flag' = flagged
     /\ pending' = pending \cup raised
     /\ owed' = owed \cup falling \cup (raised \ edge)
     /\ UNCHANGED <<registers, timers, service>>

(***************************************************************************)
(* mcs51_irq_scan_and_dispatch.  A request whose flag is gone is dropped;  *)
(* of the others that are enabled, the highest priority above that of the  *)
(* handler in service wins, and among equals the lowest vector.            *)
(***************************************************************************)
Prio(s) == IF s \in ip THEN 1 ELSE 0
FlagSet(s) ==
  CASE s = UART0    -> flag \cap {RI, TI} # {}
    [] s \in Lines  -> s \notin edge \/ s \in flag
    [] OTHER        -> s \in flag

\* mutant: an equal priority pre-empts
OutranksOrEqual(s) == InService => Prio(s) >= prios[Len(prios)]
Outranks(s) == InService => Prio(s) > prios[Len(prios)]

\* mutant: a request whose IE bit is off is dropped too
StaleOrMasked == pending \ {s \in ie : FlagSet(s)}
Stale == {s \in pending \cap ie : ~FlagSet(s)}
Candidates == {s \in (pending \cap ie) \ Stale : Outranks(s)}
Best == CHOOSE s \in Candidates : \A r \in Candidates :
           Prio(s) > Prio(r) \/ (Prio(s) = Prio(r) /\ s <= r)

ScanSuppressed ==
  /\ Next_call("scan", 0) /\ suppress /\ suppress' = FALSE /\ todo' = Tail(todo)
  /\ UNCHANGED <<registers, timers, requests, prios, sampled>>

ScanDisabled ==
  /\ Next_call("scan", 0) /\ ~suppress /\ EA \notin ie /\ todo' = Tail(todo)
  /\ UNCHANGED <<registers, timers, requests, service, sampled>>

ScanNothing ==
  /\ Next_call("scan", 0) /\ ~suppress /\ EA \in ie /\ Candidates = {}
  /\ pending' = pending \ Stale /\ todo' = Tail(todo)
  /\ UNCHANGED <<flag, owed, registers, timers, service, sampled>>

Dispatch ==
  /\ Next_call("scan", 0) /\ ~suppress /\ EA \in ie /\ Candidates # {}
  /\ LET s == Best
     IN /\ pending' = pending \ (Stale \cup {s})
        /\ flag' = flag \ ({s} \cap HwAutoClear)
        /\ prios' = Append(prios, Prio(s))
        /\ todo' = << <<"isr", s>> >> \o Tail(todo)
        /\ owed' = owed \ {s}
  /\ UNCHANGED <<suppress, registers, timers, sampled>>

-----------------------------------------------------------------------------
Init ==
  /\ used \in Uses /\ ie = {} /\ ip = {} /\ edge = {} /\ flag = {} /\ pending = {}
  /\ prios = <<>> /\ suppress = FALSE
  /\ running = {} /\ armed = {} /\ due = {} /\ sampled = {} /\ todo = <<>>
  /\ fresh = {} /\ owed = {}

FirmwareAccess ==
  \/ Idle \/ WriteIE \/ WriteIP \/ Transmit
  \/ \E l \in Lines  : WriteIT(l)
  \/ \E f \in Flags  : ClearFlag(f)
  \/ \E t \in Timers : Start(t) \/ Stop(t) \/ Reload(t)

Machine ==
  \/ DoStep \/ Sent \/ Receive \/ ReceiveNothing
  \/ ScanSuppressed \/ ScanDisabled \/ ScanNothing \/ Dispatch
  \/ \E t \in Timers : TimerOverflow(t) \/ TimerNotDue(t) \/ Rearm(t)
  \/ \E read \in SUBSET (Lines \cap used) : \E low \in SUBSET read : PollLines(read, low)

Next == FirmwareAccess \/ Return \/ Machine

Spec == Init /\ [][Next]_vars

\* the machine never stops in the middle of a call, and a handler, at whatever
\* depth, that keeps getting the processor back returns
FairSpec == /\ Spec /\ WF_vars(Machine)
            /\ \A depth \in 1 .. 2 : SF_vars(Return /\ Len(prios) = depth)

-----------------------------------------------------------------------------
Calls == ({"isr"} \X Sources) \cup ({"timer", "rearm"} \X Timers)
           \cup ({"step", "sent", "uart", "lines", "scan"} \X {0})

TypeOK ==
  /\ used \in Uses /\ ie \subseteq used \cup {EA} /\ ip \subseteq Sources /\ edge \subseteq Lines
  /\ flag \subseteq Flags /\ pending \subseteq used /\ sampled \subseteq Lines
  /\ suppress \in BOOLEAN
  /\ running \subseteq Timers /\ due \subseteq armed /\ armed \subseteq running
  /\ fresh = armed /\ owed \subseteq used
  /\ todo \in Seq(Calls)
  /\ prios \in Seq({0, 1})

\* The places of the handlers on the C stack.
HandlersIn(stack) == {i \in DOMAIN stack : stack[i][1] = "isr"}

(***************************************************************************)
(* Handlers nest by strictly rising priority, so at most two deep, and the *)
(* controller's own stack, by which it judges the next request, counts     *)
(* exactly the handlers on the C stack, whatever the firmware writes to IP *)
(* meanwhile and wherever in a poll the next scan happens.                 *)
(***************************************************************************)
NestingIsMasked ==
  /\ Len(prios) = Cardinality(HandlersIn(todo))
  /\ \A i, j \in DOMAIN prios : i < j => prios[i] < prios[j]

(***************************************************************************)
(* An event whose flag is still set keeps its request latched until its    *)
(* handler is entered, however long IE, EA, a suppressed scan or a handler *)
(* of the same priority hold it back.                                      *)
(***************************************************************************)
NoRequestForgotten ==
  \A s \in owed :
    (IF s = UART0 THEN flag \cap {RI, TI} # {} ELSE s \in flag) => s \in pending

(***************************************************************************)
(* A handler is entered once for an event: never again for an overflow     *)
(* that has been served, although the handler's own accesses step the very *)
(* timer that called it (the ordering invariant of ADR-0078).              *)
(***************************************************************************)
OncePerEvent ==
  [][\A s \in Sources :
       Len(prios') > Len(prios) /\ Head(todo')[2] = s => s \in owed]_vars

(***************************************************************************)
(* The main line is never starved: every access it makes is over some      *)
(* time, however often the timers it pays for, or the handlers they call,  *)
(* bring new overflows and levels about.                                   *)
(***************************************************************************)
MainlineRuns == []<>Main
=============================================================================
