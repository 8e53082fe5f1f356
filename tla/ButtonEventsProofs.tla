------------------------- MODULE ButtonEventsProofs -------------------------
(***************************************************************************)
(* Proofs about ButtonEvents, for any number of buttons, slots and timers: *)
(* type correctness, the ownership of the timers, that no edge of an       *)
(* interrupt-driven button is forgotten, and that events come in order.    *)
(***************************************************************************)
EXTENDS ButtonEvents, WellFoundedInduction, TLAPS

USE CountsAssumption, ButtonsAssumption

-----------------------------------------------------------------------------
(* The inductive invariant.                                                *)

TimerSet == [Handles -> [cb : {"free", "other", "debounce", "longpress", "poll"},
                         arg : Slots \cup Buttons \cup {None},
                         left : 0 .. Debounce + LongPress, active : BOOLEAN]]
SlotRecord == [btn : Buttons \cup {None}, drive : {"irq", "poll"},
               debounceH : Handles \cup {-1}, longpressH : Handles \cup {-1},
               pollH : Handles \cup {-1}, last : BOOLEAN, fired : BOOLEAN]
SlotSet == [Slots -> SlotRecord]
DalSet == [Buttons -> [stable : BOOLEAN, count : 0 .. Samples - 1, prev : BOOLEAN,
                       fired : BOOLEAN, held : 0 .. LongPress,
                       backend : {"none", "poll", "irq"}, pending : BOOLEAN]]

IrqSlot(i) == slots[i].drive = "irq"

\* an enabled slot has the timers its backend needs, and no others
Served(i) == LET s == slots[i] IN
  /\ s.btn = None => s = FreeSlot
  /\ s.btn # None /\ s.drive = "poll" =>
       /\ s.debounceH = -1 /\ s.longpressH = -1 /\ s.pollH # -1
       /\ timers[s.pollH].cb = "poll" /\ timers[s.pollH].arg = s.btn
  /\ s.drive = "irq" =>
       /\ s.btn # None /\ s.pollH = -1 /\ s.debounceH # -1 /\ s.longpressH # -1
       /\ timers[s.debounceH].cb = "debounce" /\ timers[s.debounceH].arg = i
       /\ timers[s.longpressH].cb = "longpress" /\ timers[s.longpressH].arg = i

SlotsServed == \A i \in Slots : Served(i)

\* a timer of a button is the one its slot names
Named(h) == LET t == timers[h] IN
  /\ t.cb = "free" => t = FreeTimer
  /\ t.cb = "other" => ~t.active
  /\ t.cb = "debounce" => t.arg \in Slots /\ slots[t.arg].debounceH = h
  /\ t.cb = "longpress" => t.arg \in Slots /\ slots[t.arg].longpressH = h
  /\ t.cb = "poll" => \E i \in Slots : slots[i].pollH = h

TimersNamed == \A h \in Handles : Named(h)

OneStream == \A i, j \in Slots :
  i # j /\ slots[i].btn # None => slots[i].btn # slots[j].btn

\* the driver's idea of the backend, and where edges are recorded
BackendsAgree ==
  /\ \A i \in Slots : IrqSlot(i) => dal[slots[i].btn].backend = "irq"
  /\ \A b \in Buttons : dal[b].backend = "irq" \/ b \in edged =>
       \E i \in Slots : IrqSlot(i) /\ slots[i].btn = b

LoopInTimer == pc \in {"store", "call"} => timers[ti].cb \notin {"free", "other"}

DaemonInPlace ==
  /\ daemon.pc \in {"absent", "wait"} => daemon.i = 0
  /\ daemon.pc \in {"stop", "start"} => daemon.h # -1 /\ timers[daemon.h].cb # "other"

\* where an edge of slot i is while its button's last event is out of date
EdgeUnderWay(i) ==
  LET b == slots[i].btn  dh == slots[i].debounceH
  IN \/ b \in latched
     \/ /\ dal[b].pending
        /\ \/ isr # None
           \/ sem
           \/ daemon.pc = "scan" /\ daemon.i <= i
           \/ daemon.pc \in {"recheck", "stop", "start"} /\ daemon.i < i
     \/ daemon.i = i /\ daemon.pc \in {"recheck", "stop"}
     \/ daemon.i = i /\ daemon.pc = "start" /\ daemon.h = dh
     \/ timers[dh].active /\ ~(pc = "finish" /\ ti = dh /\ ~restarted)

OutOfDate(i) == /\ IrqSlot(i) /\ slots[i].btn \in edged \ missed
                /\ slots[i].last # (slots[i].btn \in pin)

EdgesKept == \A i \in Slots : OutOfDate(i) => EdgeUnderWay(i)

TableOK == SlotsServed /\ TimersNamed /\ OneStream /\ BackendsAgree

IInv == TypeOK /\ TableOK /\ LoopInTimer /\ DaemonInPlace /\ EdgesKept

-----------------------------------------------------------------------------
(* The operators.                                                          *)

\* A search for the first free entry that finds one returns a free entry.
LEMMA FirstIn ==
  ASSUME NEW S, S \subseteq Nat, S # {}
  PROVE  First(S) \in S
<1> DEFINE Less == {ss \in Nat \X Nat : ss[1] < ss[2]}
<1>1. IsWellFoundedOn(Less, Nat)
  BY NatLessThanWellFounded DEF OpToRel
<1>2. \A x, y \in Nat : x < y => <<x, y>> \in Less
  OBVIOUS
<1> HIDE DEF Less
<1>3. PICK x \in S : \A y \in S : ~(<<y, x>> \in Less)
  BY <1>1, WFMin
<1>4. ASSUME NEW y \in S PROVE x <= y
  <2>1. ~(y < x)
    BY <1>2, <1>3
  <2>2. QED BY <2>1
<1>5. QED BY <1>4 DEF First

\* The first free timer is a free timer.
LEMMA FirstFreeTimer ==
  ASSUME NEW ts, Free(ts) # {}
  PROVE  First(Free(ts)) \in Handles /\ ts[First(Free(ts))].cb = "free"
<1>1. Free(ts) \subseteq Nat
  BY DEF Free, Handles
<1>2. First(Free(ts)) \in Free(ts)
  BY <1>1, FirstIn
<1>3. QED BY <1>2 DEF Free

\* Creating a timer fills one free entry and leaves the others alone.
LEMMA CreatedOne ==
  ASSUME NEW ts \in TimerSet, Free(ts) # {},
         NEW cb \in {"debounce", "longpress", "poll"}, NEW arg \in Slots \cup Buttons
  PROVE  LET h == First(Free(ts)) IN
         /\ Created(ts, cb, arg) \in TimerSet
         /\ h \in Handles /\ ts[h].cb = "free"
         /\ Created(ts, cb, arg)[h] = [cb |-> cb, arg |-> arg, left |-> Period(cb), active |-> FALSE]
         /\ \A g \in Handles \ {h} : Created(ts, cb, arg)[g] = ts[g]
<1> DEFINE h == First(Free(ts))
<1>1. h \in Handles /\ ts[h].cb = "free"
  BY FirstFreeTimer
<1>2. Period(cb) \in 0 .. Debounce + LongPress
  BY DEF Period
<1> HIDE DEF h
<1>3. Created(ts, cb, arg) = [ts EXCEPT ![h] =
        [cb |-> cb, arg |-> arg, left |-> Period(cb), active |-> FALSE]]
  BY DEF Created, h
<1>4. QED BY <1>1, <1>2, <1>3 DEF TimerSet, h

\* Starting a timer in use sets its time and makes it active.
LEMMA StartedOne ==
  ASSUME NEW ts \in TimerSet, NEW h \in Handles
  PROVE  /\ Started(ts, h) \in TimerSet
         /\ \A g \in Handles : /\ Started(ts, h)[g].cb = ts[g].cb
                               /\ Started(ts, h)[g].arg = ts[g].arg
                               /\ g # h \/ ts[g].cb = "free" => Started(ts, h)[g] = ts[g]
         /\ ts[h].cb # "free" => Started(ts, h)[h].active
<1>1. Period(ts[h].cb) \in 0 .. Debounce + LongPress
  BY DEF Period
<1>2. QED BY <1>1 DEF Started, TimerSet

\* Stopping a timer makes it inactive.
LEMMA StoppedOne ==
  ASSUME NEW ts \in TimerSet, NEW h \in Handles
  PROVE  /\ Stopped(ts, h) \in TimerSet
         /\ \A g \in Handles : /\ Stopped(ts, h)[g].cb = ts[g].cb
                               /\ Stopped(ts, h)[g].arg = ts[g].arg
                               /\ Stopped(ts, h)[g].left = ts[g].left
                               /\ g # h => Stopped(ts, h)[g] = ts[g]
                               /\ Stopped(ts, h)[g].active => ts[g].active
<1>1. Stopped(ts, h) \in TimerSet
  BY DEF Stopped, TimerSet
<1>2. ASSUME NEW g \in Handles
      PROVE  /\ Stopped(ts, h)[g].cb = ts[g].cb /\ Stopped(ts, h)[g].arg = ts[g].arg
             /\ Stopped(ts, h)[g].left = ts[g].left
             /\ g # h => Stopped(ts, h)[g] = ts[g]
             /\ Stopped(ts, h)[g].active => ts[g].active
  BY DEF Stopped, TimerSet
<1>3. QED BY <1>1, <1>2

\* Stopping a free entry changes nothing.
LEMMA StoppedFree ==
  ASSUME NEW ts \in TimerSet, NEW h \in Handles, ts[h] = FreeTimer
  PROVE  Stopped(ts, h)[h] = ts[h]
<1>1. FreeTimer = [cb |-> "free", arg |-> None, left |-> 0, active |-> FALSE]
  BY DEF FreeTimer
<1>2. Stopped(ts, h)[h] = [cb |-> ts[h].cb, arg |-> ts[h].arg,
                           left |-> ts[h].left, active |-> FALSE]
  BY DEF Stopped, TimerSet
<1>3. ts[h].cb = "free" /\ ts[h].arg = None /\ ts[h].left = 0
  BY <1>1
<1>4. Stopped(ts, h)[h] = [cb |-> "free", arg |-> None, left |-> 0, active |-> FALSE]
  BY <1>2, <1>3
<1>5. QED BY <1>1, <1>4

\* Destroying timers frees them and leaves the others alone.
LEMMA DestroyedAll ==
  ASSUME NEW ts \in TimerSet, NEW hs
  PROVE  /\ Destroyed(ts, hs) \in TimerSet
         /\ \A g \in Handles : Destroyed(ts, hs)[g] = IF g \in hs THEN FreeTimer ELSE ts[g]
<1>1. FreeTimer \in [cb : {"free", "other", "debounce", "longpress", "poll"},
                     arg : Slots \cup Buttons \cup {None},
                     left : 0 .. Debounce + LongPress, active : BOOLEAN]
  BY DEF FreeTimer
<1>2. QED BY <1>1 DEF Destroyed, TimerSet

\* The initial states satisfy the invariant.
LEMMA InitInvariant == Init => IInv
<1> SUFFICES ASSUME Init PROVE IInv
  OBVIOUS
<1>1. PICK n \in 0 .. Others : timers = [h \in Handles |-> IF h < n THEN OtherTimer ELSE FreeTimer]
  BY DEF Init
<1>2. /\ 0 \in Handles /\ 0 \in Slots /\ -1 \notin Handles
  BY DEF Handles, Slots
<1>3. TypeOK
  <2>1. timers \in TimerSet /\ \A h \in Free(timers) : timers[h] = FreeTimer
    BY <1>1 DEF TimerSet, OtherTimer, FreeTimer, Free
  <2>2. slots \in SlotSet
    BY DEF SlotSet, SlotRecord, FreeSlot, Init
  <2>3. dal \in DalSet
    BY DEF DalSet, Init
  <2>4. evt \in [Buttons -> Events] /\ age \in [Buttons -> 0 .. LongPress]
    BY DEF Events, Init
  <2>5. /\ daemon \in [pc : {"absent", "wait", "scan", "recheck", "stop", "start"},
                      i : Slots, h : Handles \cup {-1}]
        /\ pc = "app" /\ ti \in Handles /\ seen \in 0 .. Debounce + LongPress
    BY <1>2 DEF Init
  <2>6. flips \in 0 .. MaxFlips /\ enables \in 0 .. MaxEnables
    BY DEF Init
  <2>7. /\ sem \in BOOLEAN /\ isr = None /\ latched = {} /\ pin \subseteq Buttons
        /\ edged = {} /\ missed = {} /\ restarted \in BOOLEAN
    BY Zenon DEF Init
  <2>8. QED
    BY <2>1, <2>2, <2>3, <2>4, <2>5, <2>6, <2>7 DEF TypeOK, TimerSet, SlotSet, SlotRecord, DalSet
<1>4. /\ \A h \in Handles : timers[h] \in {OtherTimer, FreeTimer}
      /\ \A i \in Slots : slots[i] = FreeSlot
  BY <1>1 DEF Init
<1>5. TableOK
  BY <1>4 DEF TableOK, SlotsServed, Served, TimersNamed, Named, OneStream, BackendsAgree, IrqSlot, Init,
              OtherTimer, FreeTimer, FreeSlot
<1>6. LoopInTimer /\ DaemonInPlace
  BY DEF LoopInTimer, DaemonInPlace, Init
<1>7. EdgesKept
  BY <1>4 DEF EdgesKept, OutOfDate, IrqSlot, FreeSlot
<1>8. QED BY <1>3, <1>5, <1>6, <1>7 DEF IInv

-----------------------------------------------------------------------------
(* What the steps of the main loop, the interrupt and the daemon leave alone. *)

\* A step that neither hands a timer on nor enables or disables a button keeps
\* the table and the slots in agreement.
LEMMA TableStays ==
  ASSUME TableOK,
         \A i \in Slots : /\ slots'[i].btn = slots[i].btn /\ slots'[i].drive = slots[i].drive
                          /\ slots'[i].debounceH = slots[i].debounceH
                          /\ slots'[i].longpressH = slots[i].longpressH
                          /\ slots'[i].pollH = slots[i].pollH
                          /\ slots[i].btn = None => slots'[i] = slots[i],
         \A h \in Handles : /\ timers'[h].cb = timers[h].cb /\ timers'[h].arg = timers[h].arg
                            /\ timers[h].cb = "free" => timers'[h] = timers[h]
                            /\ timers[h].cb = "other" => ~timers'[h].active,
         \A b \in Buttons : dal'[b].backend = "irq" <=> dal[b].backend = "irq",
         \A b \in edged' : b \in edged \/ dal[b].backend = "irq",
         TypeOK
  PROVE  TableOK'
<1>0. \A i \in Slots : slots[i].drive = "irq" => slots[i].btn \in Buttons
  BY DEF TableOK, SlotsServed, Served, TypeOK
<1>1. SlotsServed'
  BY DEF TableOK, SlotsServed, Served, TypeOK
<1>2. TimersNamed'
  <2> SUFFICES ASSUME NEW h \in Handles PROVE Named(h)'
    BY DEF TimersNamed
  <2>1. Named(h)
    BY DEF TableOK, TimersNamed
  <2>2. /\ timers'[h].cb = timers[h].cb /\ timers'[h].arg = timers[h].arg
        /\ timers[h].cb = "free" => timers'[h] = timers[h]
        /\ timers[h].cb = "other" => ~timers'[h].active
    OBVIOUS
  <2>3. \A i \in Slots : /\ slots'[i].debounceH = slots[i].debounceH
                         /\ slots'[i].longpressH = slots[i].longpressH
                         /\ slots'[i].pollH = slots[i].pollH
    OBVIOUS
  <2> QED BY <2>1, <2>2, <2>3 DEF Named
<1>3. OneStream'
  BY DEF TableOK, OneStream
<1>4. BackendsAgree'
  BY <1>0 DEF TableOK, BackendsAgree, IrqSlot
<1>5. QED BY <1>1, <1>2, <1>3, <1>4 DEF TableOK

\* A step that leaves timers, slots and drivers alone keeps them in agreement.
LEMMA TableSame ==
  ASSUME TableOK, TypeOK, UNCHANGED <<timers, slots, dal, edged>>
  PROVE  TableOK'
<1>1. \A h \in Handles : timers[h].cb = "other" => ~timers'[h].active
  BY DEF TableOK, TimersNamed, Named
<1>2. QED BY <1>1, TableStays

\* The button, the slot and the verdict of a callback are what they are taken for.
LEMMA CallbackServes ==
  ASSUME IInv, pc = "call"
  PROVE  /\ SlotAt \in Slots /\ ButtonAt \in Buttons /\ Verdict \in Events
         /\ timers[ti].cb = "poll" => slots[SlotAt].drive = "poll" /\ slots[SlotAt].pollH = ti
         /\ timers[ti].cb = "debounce" => IrqSlot(SlotAt) /\ slots[SlotAt].debounceH = ti
         /\ timers[ti].cb = "longpress" => IrqSlot(SlotAt) /\ slots[SlotAt].longpressH = ti
         /\ timers[ti].cb \in {"debounce", "longpress", "poll"}
<1> USE DEF IInv
<1>1. timers[ti].cb \in {"debounce", "longpress", "poll"} /\ ti \in Handles /\ ti # -1
  BY DEF LoopInTimer, TypeOK, Handles
<1>2. CASE timers[ti].cb = "poll"
  <2>1. PICK i \in Slots : slots[i].pollH = ti
    BY <1>1, <1>2 DEF TableOK, TimersNamed, Named
  <2>2. slots[i].btn # None /\ slots[i].drive = "poll" /\ timers[ti].arg = slots[i].btn
    BY <1>1, <2>1 DEF TableOK, SlotsServed, Served, FreeSlot, TypeOK
  <2>3. \A j \in Slots : slots[j].btn = timers[ti].arg => j = i
    BY <2>2 DEF TableOK, OneStream
  <2>4. SlotAt = i
    BY <1>2, <2>2, <2>3 DEF SlotAt
  <2>5. Verdict \in Events
    BY <1>2 DEF Verdict, PollVerdict, Events
  <2>6. QED BY <1>2, <2>1, <2>2, <2>4, <2>5 DEF ButtonAt, TypeOK
<1>3. CASE timers[ti].cb \in {"debounce", "longpress"}
  <2>1. SlotAt = timers[ti].arg /\ SlotAt \in Slots
    BY <1>1, <1>3 DEF SlotAt, TableOK, TimersNamed, Named
  <2>2. /\ timers[ti].cb = "debounce" => slots[SlotAt].debounceH = ti
        /\ timers[ti].cb = "longpress" => slots[SlotAt].longpressH = ti
    BY <1>1, <1>3, <2>1 DEF TableOK, TimersNamed, Named
  <2>3. IrqSlot(SlotAt) /\ slots[SlotAt].btn # None
    BY <1>1, <1>3, <2>1, <2>2 DEF TableOK, SlotsServed, Served, FreeSlot, TypeOK, IrqSlot
  <2>4. Verdict \in Events
    BY <1>3 DEF Verdict, Events
  <2>5. QED BY <1>3, <2>1, <2>2, <2>3, <2>4 DEF ButtonAt, TypeOK
<1>4. QED BY <1>1, <1>2, <1>3

-----------------------------------------------------------------------------
(* The main loop.                                                          *)

\* A step that only moves the main loop, to a place other than the end of a
\* callback, loses no edge.
LEMMA LoopMoves ==
  ASSUME IInv, UNCHANGED <<timers, slots, dal, daemon, sem, irqVars, pin, boundVars, edged,
                           missed, restarted, evtVars>>,
         pc' \in {"app", "load", "store", "call", "sleep"},
         ti' \in Handles, seen' \in 0 .. Debounce + LongPress,
         LoopInTimer'
  PROVE  IInv'
<1> USE DEF IInv
<1>1. TypeOK'
  BY DEF TypeOK, irqVars, boundVars, evtVars, Free
<1>2. TableOK'
  BY TableSame
<1>3. DaemonInPlace'
  BY DEF DaemonInPlace
<1>4. EdgesKept'
  BY DEF EdgesKept, EdgeUnderWay, OutOfDate, IrqSlot, irqVars
<1>5. QED BY <1>1, <1>2, <1>3, <1>4

\* The loop starts a pass.
LEMMA StartPassKeeps == IInv /\ StartPass => IInv'
<1> SUFFICES ASSUME IInv, StartPass PROVE IInv'
  OBVIOUS
<1>1. pc' = "load" /\ ti' \in Handles
  BY DEF StartPass, Handles
<1>2. seen' \in 0 .. Debounce + LongPress
  BY DEF StartPass, IInv, TypeOK
<1>3. LoopInTimer'
  BY <1>1 DEF LoopInTimer
<1>4. QED BY <1>1, <1>2, <1>3, LoopMoves DEF StartPass

\* Where the loop is after a timer.
LEMMA NextTimerMoves ==
  ASSUME NextTimer, ti \in Handles
  PROVE  pc' \in {"load", "sleep"} /\ ti' \in Handles /\ seen' \in 0 .. Debounce + LongPress
BY DEF NextTimer, Handles

\* The loop reads a timer; an active one is a button's.
LEMMA LoadKeeps == IInv /\ Load => IInv'
<1> SUFFICES ASSUME IInv, Load PROVE IInv'
  OBVIOUS
<1>0. ti \in Handles
  BY DEF IInv, TypeOK
<1>1. CASE timers[ti].active
  <2>1. pc' = "store" /\ ti' = ti /\ seen' = timers[ti].left
    BY <1>1 DEF Load
  <2>2. seen' \in 0 .. Debounce + LongPress
    BY <1>0, <2>1 DEF IInv, TypeOK
  <2>3. timers[ti].cb \notin {"free", "other"}
    BY <1>0, <1>1 DEF IInv, TableOK, TimersNamed, Named, FreeTimer
  <2>4. LoopInTimer'
    BY <2>1, <2>3 DEF LoopInTimer, Load
  <2>5. QED BY <1>0, <2>1, <2>2, <2>4, LoopMoves DEF Load
<1>2. CASE ~timers[ti].active
  <2>1. NextTimer
    BY <1>2 DEF Load
  <2>2. LoopInTimer'
    BY <1>0, <2>1, NextTimerMoves DEF LoopInTimer
  <2>3. QED BY <1>0, <2>1, <2>2, NextTimerMoves, LoopMoves DEF Load
<1>3. QED BY <1>1, <1>2

\* The loop finds a timer restarted and lets it be.
LEMMA RereadKeeps == IInv /\ Reread => IInv'
<1> SUFFICES ASSUME IInv, Reread PROVE IInv'
  OBVIOUS
<1>1. ti \in Handles /\ NextTimer
  BY DEF IInv, TypeOK, Reread
<1>2. LoopInTimer'
  BY <1>1, NextTimerMoves DEF LoopInTimer
<1>3. QED BY <1>1, <1>2, NextTimerMoves, LoopMoves DEF Reread

\* The loop writes the time that is left.
LEMMA StoreKeeps == IInv /\ Store => IInv'
<1> SUFFICES ASSUME IInv, Store PROVE IInv'
  OBVIOUS
<1> USE DEF IInv
<1>0. /\ ti \in Handles /\ timers[ti].cb \notin {"free", "other"}
      /\ seen \in 0 .. Debounce + LongPress
  BY DEF TypeOK, LoopInTimer, Store
<1>1. /\ timers' \in TimerSet
      /\ \A h \in Handles : /\ timers'[h].cb = timers[h].cb
                            /\ timers'[h].arg = timers[h].arg
                            /\ timers'[h].active = timers[h].active
                            /\ h # ti => timers'[h] = timers[h]
  <2> DEFINE n == IF seen > 0 THEN seen - 1 ELSE 0
  <2>1. n \in 0 .. Debounce + LongPress
    BY <1>0
  <2> HIDE DEF n
  <2>2. timers' = [timers EXCEPT ![ti].left = n]
    BY DEF Store, n
  <2>3. timers \in TimerSet
    BY DEF TypeOK, TimerSet
  <2>4. timers' \in TimerSet
    BY <1>0, <2>1, <2>2, <2>3 DEF TimerSet
  <2>5. QED BY <1>0, <2>2, <2>3, <2>4 DEF TimerSet
<1>2. /\ pc' \in {"load", "sleep", "call"} /\ ti' \in Handles
      /\ pc' = "call" => ti' = ti
      /\ seen' \in 0 .. Debounce + LongPress
  BY <1>0, NextTimerMoves DEF Store
<1>3. \A h \in Free(timers)' : timers'[h] = FreeTimer
  BY <1>0, <1>1 DEF TypeOK, Free
<1>4. TypeOK'
  BY <1>1, <1>2, <1>3 DEF TypeOK, TimerSet, Store, irqVars, boundVars, evtVars
<1>5. TableOK'
  <2>1. \A h \in Handles : /\ timers[h].cb = "free" => timers'[h] = timers[h]
                           /\ timers[h].cb = "other" => ~timers'[h].active
    BY <1>0, <1>1 DEF TableOK, TimersNamed, Named
  <2>2. QED BY <1>1, <2>1, TableStays DEF Store
<1>6. LoopInTimer'
  BY <1>0, <1>1, <1>2 DEF LoopInTimer
<1>7. DaemonInPlace'
  BY <1>1 DEF DaemonInPlace, Store, TypeOK
<1>8. EdgesKept'
  <2> SUFFICES ASSUME NEW i \in Slots, OutOfDate(i)' PROVE EdgeUnderWay(i)'
    BY DEF EdgesKept
  <2>1. OutOfDate(i) /\ EdgeUnderWay(i)
    BY DEF OutOfDate, IrqSlot, Store, EdgesKept
  <2>2. slots[i].debounceH \in Handles
    BY <2>1 DEF OutOfDate, IrqSlot, TableOK, SlotsServed, Served, TypeOK
  <2>3. QED BY <1>1, <1>2, <2>1, <2>2 DEF EdgeUnderWay, Store, irqVars
<1>9. QED BY <1>4, <1>5, <1>6, <1>7, <1>8

\* The end of a tick.
LEMMA SleepKeeps == IInv /\ Sleep => IInv'
<1> SUFFICES ASSUME IInv, Sleep PROVE IInv'
  OBVIOUS
<1> USE DEF IInv
<1>1. \A n \in 0 .. LongPress : Older(n) \in 0 .. LongPress
  BY DEF Older
<1>2. /\ dal' \in DalSet
      /\ \A b \in Buttons : /\ dal'[b].backend = dal[b].backend
                            /\ dal'[b].pending = dal[b].pending
  <2>1. dal \in DalSet
    BY DEF TypeOK, DalSet
  <2>2. \A b \in Buttons : Older(dal[b].held) \in 0 .. LongPress
    BY <1>1, <2>1 DEF DalSet
  <2>3. dal' = [b \in Buttons |-> [dal[b] EXCEPT !.held = Older(dal[b].held)]]
    BY DEF Sleep
  <2>4. QED BY <2>1, <2>2, <2>3 DEF DalSet
<1>3. age' \in [Buttons -> 0 .. LongPress]
  BY <1>1 DEF Sleep, TypeOK
<1>4. TypeOK'
  BY <1>2, <1>3 DEF TypeOK, DalSet, Sleep, irqVars, boundVars, Free
<1>5. TableOK'
  <2>1. \A h \in Handles : timers[h].cb = "other" => ~timers'[h].active
    BY DEF TableOK, TimersNamed, Named, Sleep
  <2>2. QED BY <1>2, <2>1, TableStays DEF Sleep
<1>6. LoopInTimer' /\ DaemonInPlace'
  BY DEF LoopInTimer, DaemonInPlace, Sleep
<1>7. EdgesKept'
  <2> SUFFICES ASSUME NEW i \in Slots, OutOfDate(i)' PROVE EdgeUnderWay(i)'
    BY DEF EdgesKept
  <2>1. OutOfDate(i) /\ EdgeUnderWay(i)
    BY DEF OutOfDate, IrqSlot, Sleep, EdgesKept
  <2>2. slots[i].btn \in Buttons
    BY <2>1 DEF OutOfDate, IrqSlot, TableOK, SlotsServed, Served, TypeOK
  <2>3. QED BY <1>2, <2>1, <2>2 DEF EdgeUnderWay, Sleep, irqVars
<1>8. QED BY <1>4, <1>5, <1>6, <1>7

\* What a timer says of the slot that owns it.
LEMMA OwnedNames ==
  ASSUME TypeOK, TableOK, NEW i \in Slots, NEW h \in Handles, h \in Owned(slots[i])
  PROVE  /\ slots[i].btn # None
         /\ timers[h].cb \in {"debounce", "longpress", "poll"}
         /\ timers[h].arg = IF timers[h].cb = "poll" THEN slots[i].btn ELSE i
<1>1. h # -1
  BY DEF Handles
<1>2. h \in {slots[i].debounceH, slots[i].longpressH, slots[i].pollH}
  BY DEF Owned
<1>3. slots[i].btn # None
  BY <1>1, <1>2 DEF TableOK, SlotsServed, Served, FreeSlot
<1>4. CASE slots[i].drive = "poll"
  BY <1>1, <1>2, <1>3, <1>4 DEF TableOK, SlotsServed, Served
<1>5. CASE slots[i].drive = "irq"
  BY <1>1, <1>2, <1>3, <1>5 DEF TableOK, SlotsServed, Served
<1>6. slots[i].drive \in {"poll", "irq"}
  BY DEF TypeOK
<1>7. QED BY <1>4, <1>5, <1>6

\* The timers of two slots are different ones.
LEMMA OwnedApart ==
  ASSUME TypeOK, TableOK, NEW i \in Slots, NEW j \in Slots, i # j, NEW h \in Handles,
         h \in Owned(slots[i])
  PROVE  h \notin Owned(slots[j])
<1>1. slots[i].btn # None /\ slots[i].btn # slots[j].btn
  BY OwnedNames DEF TableOK, OneStream
<1>2. QED BY <1>1, OwnedNames

\* A step that leaves the drivers' pending flags, the interrupt and the daemon
\* alone, and of the timers at most long-press timers and the one at the cursor.
LEMMA EdgeStays ==
  ASSUME IInv, NEW j \in Slots, EdgeUnderWay(j), IrqSlot(j),
         slots'[j].btn = slots[j].btn, slots'[j].debounceH = slots[j].debounceH,
         dal'[slots[j].btn].pending = dal[slots[j].btn].pending,
         slots[j].btn \in latched => slots[j].btn \in latched',
         UNCHANGED <<isr, sem, daemon>>,
         timers[slots[j].debounceH].active /\ ~(pc = "finish" /\ ti = slots[j].debounceH /\ ~restarted)
           => /\ timers'[slots[j].debounceH].active
              /\ ~(pc' = "finish" /\ ti' = slots[j].debounceH /\ ~restarted')
  PROVE  EdgeUnderWay(j)'
BY DEF EdgeUnderWay

\* Dispatch ends a callback.
LEMMA FinishKeeps == IInv /\ Finish => IInv'
<1> SUFFICES ASSUME IInv, Finish PROVE IInv'
  OBVIOUS
<1> USE DEF IInv
<1>0. ti \in Handles /\ ti # -1
  BY DEF TypeOK, Handles
<1>1. /\ timers' \in TimerSet
      /\ \A h \in Handles : /\ timers'[h].cb = timers[h].cb
                            /\ timers'[h].arg = timers[h].arg
                            /\ timers[h].cb = "free" => timers'[h] = timers[h]
                            /\ timers[h].cb = "other" => ~timers'[h].active
                            /\ h # ti => timers'[h] = timers[h]
  <2>1. timers \in TimerSet
    BY DEF TypeOK, TimerSet
  <2>2. Period(timers[ti].cb) \in 0 .. Debounce + LongPress
    BY DEF Period
  <2>3. CASE OneShot(timers[ti].cb)
    <3>1. timers' = [timers EXCEPT ![ti].active = FALSE]
      BY <2>3 DEF Finish
    <3>2. timers' = Stopped(timers, ti) /\ timers' \in TimerSet
      BY <1>0, <2>1, <3>1, StoppedOne DEF Stopped
    <3>3. timers[ti].cb = "free" => timers'[ti] = timers[ti]
      BY <1>0, <2>1, <3>2, StoppedFree DEF TypeOK, Free
    <3>4. QED BY <1>0, <2>1, <3>1, <3>2, <3>3 DEF TimerSet, TableOK, TimersNamed, Named
  <2>4. CASE ~OneShot(timers[ti].cb)
    <3>1. timers' = [timers EXCEPT ![ti].left = Period(timers[ti].cb)] /\ timers[ti].cb = "poll"
      BY <2>4 DEF Finish, OneShot
    <3>2. timers' \in TimerSet
      BY <1>0, <2>1, <2>2, <3>1 DEF TimerSet
    <3>3. QED BY <1>0, <2>1, <3>1, <3>2 DEF TimerSet, TableOK, TimersNamed, Named
  <2>5. QED BY <2>3, <2>4
<1>2. pc' \in {"load", "sleep"} /\ ti' \in Handles /\ seen' \in 0 .. Debounce + LongPress
  BY <1>0, NextTimerMoves DEF Finish
<1>3. ASSUME timers[ti].cb = "debounce"
      PROVE  /\ timers[ti].arg \in Slots /\ slots[timers[ti].arg].debounceH = ti
             /\ ButtonAt = slots[timers[ti].arg].btn /\ ButtonAt \in Buttons
  <2>1. timers[ti].arg \in Slots /\ slots[timers[ti].arg].debounceH = ti
    BY <1>0, <1>3 DEF TableOK, TimersNamed, Named
  <2>2. slots[timers[ti].arg].btn # None
    BY <1>0, <2>1 DEF TableOK, SlotsServed, Served, FreeSlot
  <2>3. QED BY <1>3, <2>1, <2>2 DEF ButtonAt, SlotAt, TypeOK
<1>4. missed' \subseteq Buttons /\ missed \subseteq missed'
  BY <1>3 DEF Finish, TypeOK
<1>5. TypeOK'
  <2>1. \A h \in Free(timers)' : timers'[h] = FreeTimer
    BY <1>1 DEF TypeOK, Free
  <2>2. QED BY <1>1, <1>2, <1>4, <2>1 DEF TypeOK, TimerSet, Finish, irqVars, boundVars, evtVars
<1>6. TableOK'
  BY <1>1, TableStays DEF Finish
<1>7. LoopInTimer'
  BY <1>2 DEF LoopInTimer
<1>8. DaemonInPlace'
  BY <1>1 DEF DaemonInPlace, Finish, TypeOK
<1>9. EdgesKept'
  <2> SUFFICES ASSUME NEW j \in Slots, OutOfDate(j)' PROVE EdgeUnderWay(j)'
    BY DEF EdgesKept
  <2>1. OutOfDate(j) /\ EdgeUnderWay(j) /\ IrqSlot(j)
    BY <1>4 DEF OutOfDate, IrqSlot, Finish, EdgesKept
  <2>2. slots[j].debounceH \in Handles /\ timers[slots[j].debounceH].cb = "debounce"
        /\ timers[slots[j].debounceH].arg = j
    BY <2>1 DEF OutOfDate, IrqSlot, TableOK, SlotsServed, Served, TypeOK
  <2>3. ti = slots[j].debounceH => ~restarted
    BY <1>3, <2>2 DEF OutOfDate, Finish
  <2>4. QED BY <1>1, <1>2, <2>1, <2>2, <2>3, EdgeStays DEF Finish, irqVars
<1>10. QED BY <1>5, <1>6, <1>7, <1>8, <1>9

DriverSet == [stable : BOOLEAN, count : 0 .. Samples - 1, prev : BOOLEAN,
              fired : BOOLEAN, held : 0 .. LongPress,
              backend : {"none", "poll", "irq"}, pending : BOOLEAN]

\* The driver's record after debouncing and after its event.
LEMMA DriverTypes ==
  ASSUME NEW d \in DriverSet, NEW down \in BOOLEAN, NEW e \in Events
  PROVE  /\ Polled(d, down) \in DriverSet /\ Driven(d, e) \in DriverSet
         /\ Polled(d, down).backend = d.backend /\ Driven(d, e).backend = d.backend
         /\ Polled(d, down).pending = d.pending /\ Driven(d, e).pending = d.pending
<1>1. Polled(d, down) \in DriverSet /\ Polled(d, down).backend = d.backend
      /\ Polled(d, down).pending = d.pending
  <2>1. CASE down = d.stable
    BY <2>1 DEF Polled, DriverSet
  <2>2. CASE down # d.stable /\ d.count + 1 >= Samples
    <3>1. Polled(d, down) = [d EXCEPT !.stable = down, !.count = 0]
      BY <2>2 DEF Polled
    <3>2. 0 \in 0 .. Samples - 1
      OBVIOUS
    <3>3. Polled(d, down) \in DriverSet
      BY <3>1, <3>2 DEF DriverSet
    <3>4. QED BY <3>1, <3>3 DEF DriverSet
  <2>3. CASE down # d.stable /\ ~(d.count + 1 >= Samples)
    <3>1. Polled(d, down) = [d EXCEPT !.count = d.count + 1]
      BY <2>3 DEF Polled
    <3>2. d.count + 1 \in 0 .. Samples - 1
      BY <2>3 DEF DriverSet
    <3>3. QED BY <3>1, <3>2 DEF DriverSet
  <2>4. QED BY <2>1, <2>2, <2>3
<1>2. Driven(d, e) \in DriverSet /\ Driven(d, e).backend = d.backend
      /\ Driven(d, e).pending = d.pending
  <2>1. CASE e = "PRESS"
    <3>1. Driven(d, e) = [d EXCEPT !.prev = TRUE, !.fired = FALSE, !.held = 0]
      BY <2>1 DEF Driven
    <3>2. 0 \in 0 .. LongPress
      OBVIOUS
    <3>3. Driven(d, e) \in DriverSet
      BY <3>1, <3>2 DEF DriverSet
    <3>4. QED BY <3>1, <3>3 DEF DriverSet
  <2>2. CASE e = "RELEASE"
    BY <2>2 DEF Driven, DriverSet
  <2>3. CASE e = "LONG"
    BY <2>3 DEF Driven, DriverSet
  <2>4. CASE e = "NONE"
    BY <2>4 DEF Driven, DriverSet
  <2>5. QED BY <2>1, <2>2, <2>3, <2>4 DEF Events
<1>3. QED BY <1>1, <1>2

\* Disabling the events of a button, from the loop or from a callback, takes
\* the button's timers and nothing of the others.
LEMMA DisablingKeeps ==
  ASSUME IInv, NEW b \in Buttons, NEW i \in Slots, slots[i].btn = b,
         NEW d \in DriverSet, DisableFrom(b, i, timers, d),
         UNCHANGED <<ti, seen, daemon, sem, isr, pin, boundVars>>, restarted' \in BOOLEAN,
         pc' \in {"app", "finish"}, pc' = "finish" => ti \in Owned(slots[i]), pc # "finish"
  PROVE  IInv'
<1> USE DEF IInv
<1>1. /\ timers' \in TimerSet
      /\ \A h \in Handles : timers'[h] = IF h \in Owned(slots[i]) THEN FreeTimer ELSE timers[h]
  BY DestroyedAll DEF DisableFrom, TypeOK, TimerSet
<1>2. slots' \in SlotSet /\ slots'[i] = FreeSlot /\ \A j \in Slots \ {i} : slots'[j] = slots[j]
  BY DEF DisableFrom, TypeOK, SlotSet, SlotRecord, FreeSlot
<1>3. dal' \in DalSet /\ dal'[b].backend = "none" /\ \A c \in Buttons \ {b} : dal'[c] = dal[c]
  <2> DEFINE e == IF slots[i].drive = "irq" THEN [d EXCEPT !.backend = "none"]
                  ELSE [d EXCEPT !.backend = "none", !.prev = d.stable, !.fired = FALSE]
  <2>1. e \in DriverSet /\ e.backend = "none"
    BY DEF DriverSet
  <2> HIDE DEF e
  <2>2. dal' = [dal EXCEPT ![b] = e]
    BY DEF DisableFrom, e
  <2>3. QED BY <2>1, <2>2 DEF TypeOK, DalSet, DriverSet
<1>4. /\ latched' = latched \ {b} /\ edged' = edged \ {b} /\ missed' = missed \ {b}
      /\ evt' \in [Buttons -> Events] /\ age' \in [Buttons -> 0 .. LongPress]
  BY DEF DisableFrom, TypeOK, Events
<1>5. TypeOK'
  <2>1. \A h \in Free(timers)' : timers'[h] = FreeTimer
    BY <1>1 DEF TypeOK, Free
  <2>2. QED BY <1>1, <1>2, <1>3, <1>4, <2>1 DEF TypeOK, TimerSet, SlotSet, SlotRecord, DalSet, boundVars
<1>6. \A j \in Slots \ {i} : \A h \in Owned(slots[j]) \cap Handles : timers'[h] = timers[h]
  BY <1>1, OwnedApart
<1>7. \A j \in Slots \ {i} : slots[j].btn # b
  BY DEF TableOK, OneStream, TypeOK
<1>8. SlotsServed'
  <2> SUFFICES ASSUME NEW j \in Slots PROVE Served(j)'
    BY DEF SlotsServed
  <2>1. CASE j = i
    BY <1>2, <2>1 DEF Served, FreeSlot
  <2>2. CASE j # i
    <3>1. \A h \in Owned(slots[j]) : timers'[h] = timers[h]
      BY <1>6, <2>2 DEF Owned, TypeOK
    <3>2. slots'[j] = slots[j] /\ Served(j)
      BY <1>2, <2>2 DEF TableOK, SlotsServed
    <3>3. QED BY <3>1, <3>2 DEF Served, Owned
  <2>3. QED BY <2>1, <2>2
<1>9. TimersNamed'
  <2> SUFFICES ASSUME NEW h \in Handles PROVE Named(h)'
    BY DEF TimersNamed
  <2>1. CASE h \in Owned(slots[i])
    <3>1. timers'[h] = FreeTimer
      BY <1>1, <2>1
    <3>2. timers'[h].cb = "free"
      BY <3>1 DEF FreeTimer
    <3>3. QED BY <3>1, <3>2, Zenon DEF Named, FreeTimer
  <2>2. CASE h \notin Owned(slots[i])
    <3>1. h \notin {slots[i].debounceH, slots[i].longpressH, slots[i].pollH}
      BY <2>2 DEF Owned, Handles
    <3>2. timers'[h] = timers[h] /\ Named(h)
      BY <1>1, <2>2 DEF TableOK, TimersNamed
    <3>3. QED BY <1>2, <3>1, <3>2 DEF Named
  <2>3. QED BY <2>1, <2>2
<1>10. OneStream'
  BY <1>2 DEF TableOK, OneStream, FreeSlot
<1>11. BackendsAgree'
  <2>1. \A j \in Slots \ {i} : IrqSlot(j) => slots[j].btn \in Buttons \ {b}
    BY <1>7 DEF IrqSlot, TableOK, SlotsServed, Served, TypeOK
  <2>2. \A j \in Slots : IrqSlot(j)' => dal'[slots'[j].btn].backend = "irq"
    BY <1>2, <1>3, <2>1 DEF IrqSlot, TableOK, BackendsAgree, FreeSlot
  <2>3. ASSUME NEW c \in Buttons, dal'[c].backend = "irq" \/ c \in edged'
        PROVE  \E j \in Slots : IrqSlot(j)' /\ slots'[j].btn = c
    <3>1. c # b /\ (dal[c].backend = "irq" \/ c \in edged)
      BY <1>3, <1>4, <2>3
    <3>2. PICK j \in Slots : IrqSlot(j) /\ slots[j].btn = c
      BY <3>1 DEF TableOK, BackendsAgree
    <3>3. QED BY <1>2, <3>1, <3>2 DEF IrqSlot
  <2>4. QED BY <2>2, <2>3 DEF BackendsAgree
<1>12. LoopInTimer'
  BY DEF LoopInTimer
<1>13. DaemonInPlace'
  <2>1. timers'[daemon.h].cb # "other" \/ ~(daemon.h \in Handles) \/ timers[daemon.h].cb = "other"
    BY <1>1 DEF FreeTimer
  <2>2. QED BY <2>1 DEF DaemonInPlace, TypeOK
<1>14. EdgesKept'
  <2> SUFFICES ASSUME NEW j \in Slots, OutOfDate(j)' PROVE EdgeUnderWay(j)'
    BY DEF EdgesKept
  <2>1. j # i
    BY <1>2 DEF OutOfDate, IrqSlot, FreeSlot
  <2>2. slots'[j] = slots[j] /\ slots[j].btn # b
    BY <1>2, <1>7, <2>1
  <2>3. OutOfDate(j) /\ EdgeUnderWay(j) /\ IrqSlot(j)
    BY <1>4, <2>2 DEF OutOfDate, IrqSlot, EdgesKept
  <2>4. slots[j].btn \in Buttons \ {b} /\ slots[j].debounceH \in Owned(slots[j]) \cap Handles
    BY <2>2, <2>3 DEF IrqSlot, TableOK, SlotsServed, Served, TypeOK, Owned
  <2>5. timers'[slots[j].debounceH] = timers[slots[j].debounceH]
    BY <1>6, <2>1, <2>4
  <2>6. ti = slots[j].debounceH => pc' # "finish"
    BY <2>1, <2>4, OwnedApart
  <2>7. QED BY <1>3, <1>4, <2>2, <2>3, <2>4, <2>5, <2>6, EdgeStays
<1>15. QED
  BY <1>5, <1>8, <1>9, <1>10, <1>11, <1>12, <1>13, <1>14 DEF TableOK

\* The application disables a button between two passes.
LEMMA DisableKeeps == ASSUME IInv, NEW b \in Buttons, Disable(b) PROVE IInv'
<1>1. PICK i \in Slots : slots[i].btn = b /\ DisableFrom(b, i, timers, dal[b])
  BY DEF Disable
<1>2. dal[b] \in DriverSet
  BY DEF IInv, TypeOK, DriverSet
<1>3. /\ UNCHANGED <<ti, seen, daemon, sem, isr, pin, boundVars>>
      /\ pc = "app" /\ pc' = "app" /\ restarted' = restarted
  BY DEF Disable, mainVars
<1>4. restarted' \in BOOLEAN
  BY <1>3 DEF IInv, TypeOK
<1>5. QED BY <1>1, <1>2, <1>3, <1>4, DisablingKeeps

\* A callback reports its event.
LEMMA CallKeeps == IInv /\ Call => IInv'
<1> SUFFICES ASSUME IInv, Call PROVE IInv'
  OBVIOUS
<1> DEFINE i == SlotAt
           b == ButtonAt
           e == Verdict
           d == IF timers[ti].cb = "poll" THEN Driven(Polled(dal[b], b \in pin), e) ELSE dal[b]
<1>1. /\ pc = "call" /\ pc' = "finish" /\ restarted' = FALSE
      /\ UNCHANGED <<ti, seen, daemon, sem, isr, pin, boundVars>>
  BY DEF Call
<1>2. /\ i \in Slots /\ b \in Buttons /\ e \in Events /\ slots[i].btn = b
      /\ timers[ti].cb = "poll" => slots[i].drive = "poll" /\ slots[i].pollH = ti
      /\ timers[ti].cb = "debounce" => IrqSlot(i) /\ slots[i].debounceH = ti
      /\ timers[ti].cb = "longpress" => IrqSlot(i) /\ slots[i].longpressH = ti
      /\ timers[ti].cb \in {"debounce", "longpress", "poll"}
      /\ ti \in Handles /\ ti # -1
  <2>1. slots[i].btn = b
    BY DEF ButtonAt
  <2>2. ti \in Handles /\ ti # -1
    BY DEF IInv, TypeOK, Handles
  <2>3. QED BY <1>1, <2>1, <2>2, CallbackServes
<1>3. d \in DriverSet /\ d.backend = dal[b].backend /\ d.pending = dal[b].pending
  <2>1. dal[b] \in DriverSet /\ (b \in pin) \in BOOLEAN
    BY <1>2 DEF IInv, TypeOK, DriverSet
  <2>2. /\ Polled(dal[b], b \in pin) \in DriverSet
        /\ Polled(dal[b], b \in pin).backend = dal[b].backend
        /\ Polled(dal[b], b \in pin).pending = dal[b].pending
    BY <1>2, <2>1, DriverTypes
  <2>3. QED BY <1>2, <2>1, <2>2, DriverTypes
<1>4. CASE e # "NONE" /\ DisableFrom(b, i, timers, d)
  <2>1. ti \in Owned(slots[i])
    BY <1>2 DEF Owned
  <2>2. restarted' \in BOOLEAN
    BY <1>1
  <2> HIDE DEF i, b, e, d
  <2>3. QED BY <1>1, <1>2, <1>3, <1>4, <2>1, <2>2, DisablingKeeps
<1>5. CASE /\ timers' = Rearmed(timers, slots[i], e)
           /\ slots' = [slots EXCEPT ![i] = Reported(slots[i], e)]
           /\ dal' = [dal EXCEPT ![b] = d]
           /\ IF e = "NONE" THEN UNCHANGED evtVars
              ELSE evt' = [evt EXCEPT ![b] = e] /\ age' = [age EXCEPT ![b] = 0]
           /\ UNCHANGED <<latched, edged, missed>>
  <2> HIDE DEF d
  <2>0. IInv /\ TypeOK /\ TableOK
    BY DEF IInv
  <2>1. /\ timers' \in TimerSet
        /\ \A h \in Handles : /\ timers'[h].cb = timers[h].cb /\ timers'[h].arg = timers[h].arg
                              /\ timers[h].cb = "free" => timers'[h] = timers[h]
                              /\ timers[h].cb = "other" => ~timers'[h].active
                              /\ timers[h].cb = "debounce" => timers'[h] = timers[h]
    <3>1. timers \in TimerSet
      BY <2>0 DEF TypeOK, TimerSet
    <3>2. \A h \in Handles : timers[h].cb = "other" => ~timers[h].active
      BY <2>0 DEF TableOK, TimersNamed, Named
    <3>3. slots[i].drive = "irq" => /\ slots[i].longpressH \in Handles
                                    /\ timers[slots[i].longpressH].cb = "longpress"
      BY <1>2, <2>0 DEF TableOK, SlotsServed, Served, TypeOK
    <3>4. CASE slots[i].drive = "irq" /\ e = "PRESS"
      <4>1. timers' = Started(timers, slots[i].longpressH)
        BY <1>5, <3>4 DEF Rearmed
      <4>2. QED BY <3>1, <3>2, <3>3, <3>4, <4>1, StartedOne
    <3>5. CASE slots[i].drive = "irq" /\ e = "RELEASE"
      <4>1. timers' = Stopped(timers, slots[i].longpressH)
        BY <1>5, <3>5 DEF Rearmed
      <4>2. QED BY <3>1, <3>2, <3>3, <3>5, <4>1, StoppedOne
    <3>6. CASE ~(slots[i].drive = "irq" /\ e \in {"PRESS", "RELEASE"})
      <4>1. timers' = timers
        BY <1>5, <3>6 DEF Rearmed
      <4>2. QED BY <3>1, <3>2, <4>1
    <3>7. QED BY <3>4, <3>5, <3>6
  <2>2. /\ slots' \in SlotSet /\ \A j \in Slots \ {i} : slots'[j] = slots[j]
        /\ slots'[i].btn = slots[i].btn /\ slots'[i].drive = slots[i].drive
        /\ slots'[i].debounceH = slots[i].debounceH
        /\ slots'[i].longpressH = slots[i].longpressH /\ slots'[i].pollH = slots[i].pollH
        /\ slots'[i].last \in BOOLEAN /\ slots[i].last \in BOOLEAN
        /\ e = "PRESS" => slots'[i].last
        /\ e = "RELEASE" => ~slots'[i].last
        /\ e \notin {"PRESS", "RELEASE"} => slots'[i].last = slots[i].last
    <3>1. slots \in SlotSet
      BY <2>0 DEF TypeOK, SlotSet, SlotRecord
    <3>2. slots' = [slots EXCEPT ![i] = Reported(slots[i], e)]
      BY <1>5
    <3> HIDE DEF i, e, b
    <3>3. CASE e = "PRESS"
      <4>1. slots' = [slots EXCEPT ![i] = [slots[i] EXCEPT !.last = TRUE, !.fired = FALSE]]
        BY <3>2, <3>3 DEF Reported
      <4>2. slots' \in SlotSet
        <5>1. slots[i] \in SlotRecord
          BY <1>2, <3>1 DEF SlotSet
        <5>2. [slots[i] EXCEPT !.last = TRUE, !.fired = FALSE] \in SlotRecord
          BY <5>1 DEF SlotRecord
        <5>3. QED BY <1>2, <3>1, <4>1, <5>2 DEF SlotSet
      <4>3. QED BY <1>2, <3>1, <3>3, <4>1, <4>2 DEF SlotSet, SlotRecord
    <3>4. CASE e = "RELEASE"
      <4>1. slots' = [slots EXCEPT ![i] = [slots[i] EXCEPT !.last = FALSE, !.fired = FALSE]]
        BY <3>2, <3>4 DEF Reported
      <4>2. slots' \in SlotSet
        <5>1. slots[i] \in SlotRecord
          BY <1>2, <3>1 DEF SlotSet
        <5>2. [slots[i] EXCEPT !.last = FALSE, !.fired = FALSE] \in SlotRecord
          BY <5>1 DEF SlotRecord
        <5>3. QED BY <1>2, <3>1, <4>1, <5>2 DEF SlotSet
      <4>3. QED
        <5>1. slots'[i].last = FALSE /\ slots'[i].fired = FALSE
          BY <1>2, <3>1, <4>1 DEF SlotSet, SlotRecord
        <5>2. QED BY <1>2, <3>1, <3>4, <4>1, <4>2 DEF SlotSet, SlotRecord
    <3>5. CASE e = "LONG"
      <4>1. slots' = [slots EXCEPT ![i] = [slots[i] EXCEPT !.fired = TRUE]]
        BY <3>2, <3>5 DEF Reported
      <4>2. slots' \in SlotSet
        <5>1. slots[i] \in SlotRecord
          BY <1>2, <3>1 DEF SlotSet
        <5>2. [slots[i] EXCEPT !.fired = TRUE] \in SlotRecord
          BY <5>1 DEF SlotRecord
        <5>3. QED BY <1>2, <3>1, <4>1, <5>2 DEF SlotSet
      <4>3. slots'[i].last = slots[i].last
        BY <1>2, <3>1, <4>1 DEF SlotSet, SlotRecord
      <4>4. QED BY <1>2, <3>1, <3>5, <4>1, <4>2, <4>3 DEF SlotSet, SlotRecord
    <3>6. CASE e = "NONE"
      BY <1>2, <3>1, <3>2, <3>6 DEF Reported, SlotSet, SlotRecord
    <3>7. QED BY <1>2, <3>3, <3>4, <3>5, <3>6 DEF Events
  <2>3. dal' \in DalSet /\ \A c \in Buttons : /\ dal'[c].backend = dal[c].backend
                                              /\ dal'[c].pending = dal[c].pending
    BY <1>2, <1>3, <1>5, <2>0 DEF TypeOK, DalSet, DriverSet
  <2>4. evt' \in [Buttons -> Events] /\ age' \in [Buttons -> 0 .. LongPress]
    <3>1. evt \in [Buttons -> Events] /\ age \in [Buttons -> 0 .. LongPress]
      BY <2>0 DEF TypeOK
    <3>2. CASE e = "NONE"
      BY <1>5, <3>1, <3>2 DEF evtVars
    <3>3. CASE e # "NONE"
      <4>1. evt' = [evt EXCEPT ![b] = e] /\ age' = [age EXCEPT ![b] = 0]
        BY <1>5, <3>3
      <4> HIDE DEF b, e
      <4>2. QED BY <1>2, <3>1, <4>1
    <3>4. QED BY <3>2, <3>3
  <2>5. /\ timers[ti].cb = "debounce" => (slots'[i].last <=> b \in pin)
        /\ timers[ti].cb = "longpress" => slots'[i].last = slots[i].last
    <3>1. CASE timers[ti].cb = "debounce"
      <4>1. /\ b \in pin /\ ~slots[i].last => e = "PRESS"
            /\ b \notin pin /\ slots[i].last => e = "RELEASE"
            /\ (b \in pin /\ slots[i].last) \/ (b \notin pin /\ ~slots[i].last) => e = "NONE"
        <5>1. e = IF (b \in pin) = slots[i].last THEN "NONE"
                  ELSE IF b \in pin THEN "PRESS" ELSE "RELEASE"
          BY <3>1 DEF Verdict
        <5> HIDE DEF i, e, b
        <5>2. (b \in pin) = slots[i].last <=> (b \in pin <=> slots[i].last)
          BY <2>2
        <5>3. QED BY <5>1, <5>2
      <4> HIDE DEF i, e, b
      <4>2. CASE e = "NONE"
        <5>1. slots'[i].last = slots[i].last
          BY <2>2, <4>2
        <5>2. slots[i].last <=> b \in pin
          BY <4>1, <4>2
        <5>3. QED BY <2>2, <3>1, <5>1, <5>2
      <4>3. CASE e # "NONE"
        <5>1. CASE b \in pin
          <6>1. e = "PRESS"
            BY <4>1, <4>3, <5>1
          <6>2. slots'[i].last
            BY <2>2, <6>1
          <6>3. QED BY <3>1, <5>1, <6>2
        <5>2. CASE b \notin pin
          <6>1. e = "RELEASE"
            BY <4>1, <4>3, <5>2
          <6>2. ~slots'[i].last
            BY <2>2, <6>1
          <6>3. QED BY <3>1, <5>2, <6>2
        <5>3. QED BY <5>1, <5>2
      <4>4. QED BY <4>2, <4>3
    <3>2. CASE timers[ti].cb = "longpress"
      <4>1. e \in {"LONG", "NONE"}
        BY <3>2 DEF Verdict
      <4> HIDE DEF i, e, b
      <4>2. QED BY <2>2, <3>2, <4>1
    <3>3. QED BY <3>1, <3>2, <1>2
  <2> HIDE DEF i, e, b
  <2>6. TypeOK'
    <3>1. \A h \in Free(timers)' : timers'[h] = FreeTimer
      BY <2>0, <2>1 DEF TypeOK, Free
    <3>2. QED
      BY <1>1, <1>5, <2>0, <2>1, <2>2, <2>3, <2>4, <3>1
      DEF TypeOK, TimerSet, SlotSet, SlotRecord, DalSet, boundVars
  <2>7. TableOK'
    <3>1. b # None /\ slots[i].btn # None
      BY <1>2
    <3>2. \A c \in edged' : c \in edged
      BY <1>5
    <3>3. QED BY <2>0, <2>1, <2>2, <2>3, <3>1, <3>2, TableStays
  <2>8. LoopInTimer'
    BY <1>1 DEF LoopInTimer
  <2>9. DaemonInPlace'
    BY <1>1, <2>0, <2>1 DEF IInv, DaemonInPlace, TypeOK
  <2>10. EdgesKept'
    <3> SUFFICES ASSUME NEW j \in Slots, OutOfDate(j)' PROVE EdgeUnderWay(j)'
      BY DEF EdgesKept
    <3>1. /\ slots'[j].btn = slots[j].btn /\ slots'[j].debounceH = slots[j].debounceH
          /\ slots'[j].drive = slots[j].drive
      BY <2>2
    <3>2. IrqSlot(j)
      <4>1. IrqSlot(j)'
        BY Zenon DEF OutOfDate
      <4>2. QED BY <3>1, <4>1 DEF IrqSlot
    <3>3. /\ slots[j].debounceH \in Handles /\ timers[slots[j].debounceH].cb = "debounce"
          /\ timers[slots[j].debounceH].arg = j /\ slots[j].btn \in Buttons
      BY <2>0, <3>2 DEF IrqSlot, TableOK, SlotsServed, Served, TypeOK
    <3>4. ~(timers[ti].cb = "debounce" /\ j = i)
      <4>1. slots'[j].last # (slots'[j].btn \in pin')
        BY Zenon DEF OutOfDate
      <4>2. ASSUME timers[ti].cb = "debounce", j = i PROVE FALSE
        <5>1. slots'[i].last # (b \in pin)
          BY <1>1, <1>2, <3>1, <4>1, <4>2
        <5>2. QED BY <2>2, <2>5, <4>2, <5>1
      <4>3. QED BY <4>2
    <3>5. ti # slots[j].debounceH
      <4>1. ASSUME ti = slots[j].debounceH PROVE FALSE
        <5>1. timers[ti].cb = "debounce" /\ timers[ti].arg = j
          BY <3>3, <4>1
        <5>2. i = j
          BY <5>1 DEF SlotAt, i
        <5>3. QED BY <3>4, <5>1, <5>2
      <4>2. QED BY <4>1
    <3>6. slots'[j].last = slots[j].last
      <4>1. CASE j # i
        BY <2>2, <4>1
      <4>2. CASE j = i
        <5>1. timers[ti].cb = "longpress"
          BY <1>2, <3>2, <3>4, <4>2 DEF IrqSlot
        <5>2. QED BY <2>5, <4>2, <5>1
      <4>3. QED BY <4>1, <4>2
    <3>7. OutOfDate(j) /\ EdgeUnderWay(j)
      BY <1>1, <1>5, <2>0, <3>1, <3>2, <3>6 DEF IInv, EdgesKept, OutOfDate, IrqSlot
    <3>8. QED BY <1>1, <1>5, <2>0, <2>1, <2>3, <3>1, <3>2, <3>3, <3>5, <3>7, EdgeStays
  <2>11. QED BY <2>6, <2>7, <2>8, <2>9, <2>10 DEF IInv
<1>6. QED BY <1>4, <1>5 DEF Call

-----------------------------------------------------------------------------
(* The application enables a button.                                       *)

\* What the application finds when it may enable a button.
LEMMA SlotForRequest ==
  ASSUME IInv, NEW b \in Buttons, NEW drive, Request(b, drive)
  PROVE  LET i == First(Available(b)) IN
         /\ i \in Slots /\ slots[i].btn = None /\ slots[i] = FreeSlot
         /\ \A j \in Slots : slots[j].btn # b
         /\ b \notin edged /\ dal[b].backend # "irq"
         /\ pc = "app" /\ enables' \in 0 .. MaxEnables
         /\ UNCHANGED <<pc, ti, seen, sem, isr, latched, pin, flips, edged, missed, restarted,
                        evt, age>>
         /\ Retuned(b) \in DriverSet /\ Retuned(b).pending = dal[b].pending
         /\ Retuned(b).backend = dal[b].backend
<1> DEFINE i == First(Available(b))
<1>1. Available(b) \subseteq Nat /\ Available(b) # {}
  BY DEF Request, Available, Slots
<1>2. i \in Available(b)
  BY <1>1, FirstIn
<1>3. i \in Slots /\ slots[i].btn = None /\ \A j \in Slots : slots[j].btn # b
  BY <1>2 DEF Available
<1>4. slots[i] = FreeSlot
  BY <1>3 DEF IInv, TableOK, SlotsServed, Served
<1>5. b \notin edged /\ dal[b].backend # "irq"
  BY <1>3 DEF IInv, TableOK, BackendsAgree
<1>6. enables' \in 0 .. MaxEnables
  BY DEF Request, IInv, TypeOK
<1>7. Retuned(b) \in DriverSet /\ Retuned(b).pending = dal[b].pending
      /\ Retuned(b).backend = dal[b].backend
  <2>1. dal[b] \in DriverSet /\ 0 \in 0 .. Samples - 1
    BY DEF IInv, TypeOK, DriverSet
  <2>2. QED BY <2>1 DEF Retuned, DriverSet
<1>8. QED
  BY <1>3, <1>4, <1>5, <1>6, <1>7 DEF Request, mainVars, irqVars, evtVars

\* The daemon is started, or runs already.
DaemonReady == daemon' = daemon \/ (daemon.pc = "absent" /\ daemon' = [daemon EXCEPT !.pc = "wait"])

\* Starting the daemon leaves the edges where they are.
LEMMA EdgeWaits ==
  ASSUME TypeOK, NEW j \in Slots, EdgeUnderWay(j), DaemonReady,
         slots'[j].btn = slots[j].btn, slots'[j].debounceH = slots[j].debounceH,
         dal'[slots[j].btn].pending = dal[slots[j].btn].pending,
         timers'[slots[j].debounceH].active = timers[slots[j].debounceH].active,
         UNCHANGED <<latched, isr, sem, pc, ti, restarted>>
  PROVE  EdgeUnderWay(j)'
<1>1. CASE daemon' = daemon
  BY <1>1 DEF EdgeUnderWay
<1>2. CASE daemon.pc = "absent"
  BY <1>2 DEF EdgeUnderWay
<1>3. QED BY <1>1, <1>2 DEF DaemonReady

\* The daemon's type and place once it is ready.
LEMMA ReadyInPlace ==
  ASSUME IInv, DaemonReady,
         \A h \in Handles : timers'[h].cb = "other" => timers[h].cb = "other"
  PROVE  /\ DaemonInPlace'
         /\ daemon' \in [pc : {"absent", "wait", "scan", "recheck", "stop", "start"},
                         i : Slots, h : Handles \cup {-1}]
<1>1. daemon \in [pc : {"absent", "wait", "scan", "recheck", "stop", "start"},
                  i : Slots, h : Handles \cup {-1}]
  BY DEF IInv, TypeOK
<1>2. CASE daemon' = daemon
  BY <1>1, <1>2 DEF IInv, DaemonInPlace
<1>3. CASE daemon.pc = "absent" /\ daemon' = [daemon EXCEPT !.pc = "wait"]
  BY <1>1, <1>3 DEF IInv, DaemonInPlace
<1>4. QED BY <1>2, <1>3 DEF DaemonReady

\* Enabling that fails leaves the timers and the slots as they were.
LEMMA FailingKeeps ==
  ASSUME IInv, NEW b \in Buttons, NEW d \in DriverSet, dal' = [dal EXCEPT ![b] = d],
         d.backend # "irq", dal[b].backend # "irq", d.pending = dal[b].pending,
         timers' \in TimerSet, \A h \in Handles : timers'[h] = timers[h],
         slots' = slots, DaemonReady, pc = "app", enables' \in 0 .. MaxEnables,
         UNCHANGED <<pc, ti, seen, sem, isr, latched, pin, flips, edged, missed, restarted,
                     evt, age>>
  PROVE  IInv'
<1> USE DEF IInv
<1>1. dal' \in DalSet /\ \A c \in Buttons : /\ dal'[c].backend = "irq" <=> dal[c].backend = "irq"
                                            /\ dal'[c].pending = dal[c].pending
  BY DEF TypeOK, DalSet, DriverSet
<1>2. DaemonInPlace' /\ daemon' \in [pc : {"absent", "wait", "scan", "recheck", "stop", "start"},
                                     i : Slots, h : Handles \cup {-1}]
  BY ReadyInPlace
<1>3. TypeOK'
  <2>1. \A h \in Free(timers)' : timers'[h] = FreeTimer
    BY DEF TypeOK, Free
  <2>2. QED BY <1>1, <1>2, <2>1 DEF TypeOK, TimerSet, DalSet
<1>4. TableOK'
  <2>1. \A h \in Handles : timers[h].cb = "other" => ~timers'[h].active
    BY DEF TableOK, TimersNamed, Named
  <2>2. QED BY <1>1, <2>1, TableStays
<1>5. LoopInTimer'
  BY DEF LoopInTimer
<1>6. EdgesKept'
  <2> SUFFICES ASSUME NEW j \in Slots, OutOfDate(j)' PROVE EdgeUnderWay(j)'
    BY DEF EdgesKept
  <2>1. OutOfDate(j) /\ EdgeUnderWay(j)
    BY DEF OutOfDate, IrqSlot, EdgesKept
  <2>2. slots[j].btn \in Buttons /\ slots[j].debounceH \in Handles
    BY <2>1 DEF OutOfDate, IrqSlot, TableOK, SlotsServed, Served, TypeOK
  <2>3. QED BY <1>1, <2>1, <2>2, EdgeWaits
<1>7. QED BY <1>2, <1>3, <1>4, <1>5, <1>6

\* Enabling that succeeds fills a free slot with new timers.
LEMMA FillingKeeps ==
  ASSUME IInv, NEW b \in Buttons, NEW i \in Slots, slots[i] = FreeSlot,
         \A j \in Slots : slots[j].btn # b, b \notin edged,
         NEW s \in SlotRecord, s.btn = b, slots' = [slots EXCEPT ![i] = s],
         timers' \in TimerSet, Served(i)',
         \A h \in Handles : /\ h \in Owned(s) => Named(h)' /\ timers[h].cb = "free"
                                                 /\ timers'[h].cb \notin {"free", "other"}
                            /\ h \notin Owned(s) => timers'[h] = timers[h],
         NEW d \in DriverSet, dal' = [dal EXCEPT ![b] = d],
         d.backend = "irq" <=> s.drive = "irq",
         DaemonReady, pc = "app", enables' \in 0 .. MaxEnables,
         UNCHANGED <<pc, ti, seen, sem, isr, latched, pin, flips, edged, missed, restarted,
                     evt, age>>
  PROVE  IInv'
<1> USE DEF IInv
<1>1. dal' \in DalSet /\ dal'[b] = d /\ \A c \in Buttons \ {b} : dal'[c] = dal[c]
  BY DEF TypeOK, DalSet, DriverSet
<1>2. slots' \in SlotSet /\ slots'[i] = s /\ \A j \in Slots \ {i} : slots'[j] = slots[j]
  BY DEF TypeOK, SlotSet, SlotRecord
<1>3. DaemonInPlace' /\ daemon' \in [pc : {"absent", "wait", "scan", "recheck", "stop", "start"},
                                     i : Slots, h : Handles \cup {-1}]
  BY ReadyInPlace
<1>4. TypeOK'
  <2>1. \A h \in Free(timers)' : timers'[h] = FreeTimer
    BY DEF TypeOK, Free
  <2>2. QED BY <1>1, <1>2, <1>3, <2>1 DEF TypeOK, TimerSet, SlotSet, SlotRecord, DalSet
<1>5. \A j \in Slots \ {i} : \A h \in Owned(slots[j]) : h \in Handles /\ timers'[h] = timers[h]
  <2> SUFFICES ASSUME NEW j \in Slots \ {i}, NEW h \in Owned(slots[j])
               PROVE  h \in Handles /\ timers'[h] = timers[h]
    OBVIOUS
  <2>1. h \in Handles
    BY DEF Owned, TypeOK
  <2>2. timers[h].cb # "free"
    BY <2>1, OwnedNames
  <2>3. QED BY <2>1, <2>2
<1>6. SlotsServed'
  <2> SUFFICES ASSUME NEW j \in Slots PROVE Served(j)'
    BY DEF SlotsServed
  <2>1. CASE j = i
    BY <2>1
  <2>2. CASE j # i
    <3>1. slots'[j] = slots[j] /\ Served(j) /\ \A h \in Owned(slots[j]) : timers'[h] = timers[h]
      BY <1>2, <1>5, <2>2 DEF TableOK, SlotsServed
    <3>2. QED BY <3>1 DEF Served, Owned
  <2>3. QED BY <2>1, <2>2
<1>7. TimersNamed'
  <2> SUFFICES ASSUME NEW h \in Handles, h \notin Owned(s) PROVE Named(h)'
    BY DEF TimersNamed
  <2>1. timers'[h] = timers[h] /\ Named(h) /\ h # -1
    BY DEF TableOK, TimersNamed, Handles
  <2>2. h \notin {slots[i].debounceH, slots[i].longpressH, slots[i].pollH}
    BY <2>1 DEF FreeSlot
  <2>3. QED BY <1>2, <2>1, <2>2 DEF Named
<1>8. OneStream'
  BY <1>2 DEF TableOK, OneStream
<1>9. BackendsAgree'
  <2>1. ~IrqSlot(i)
    BY DEF IrqSlot, FreeSlot
  <2>2. \A j \in Slots \ {i} : IrqSlot(j) => slots[j].btn \in Buttons \ {b}
    BY DEF IrqSlot, TableOK, SlotsServed, Served, TypeOK
  <2>3. \A j \in Slots : IrqSlot(j)' => dal'[slots'[j].btn].backend = "irq"
    BY <1>1, <1>2, <2>2 DEF IrqSlot, TableOK, BackendsAgree
  <2>4. ASSUME NEW c \in Buttons, dal'[c].backend = "irq" \/ c \in edged'
        PROVE  \E j \in Slots : IrqSlot(j)' /\ slots'[j].btn = c
    <3>1. CASE c = b
      BY <1>1, <1>2, <2>4, <3>1 DEF IrqSlot
    <3>2. CASE c # b
      <4>1. PICK j \in Slots : IrqSlot(j) /\ slots[j].btn = c
        BY <1>1, <2>4, <3>2 DEF TableOK, BackendsAgree
      <4>2. QED BY <1>2, <2>1, <4>1 DEF IrqSlot
    <3>3. QED BY <3>1, <3>2
  <2>5. QED BY <2>3, <2>4 DEF BackendsAgree
<1>10. LoopInTimer'
  BY DEF LoopInTimer
<1>11. EdgesKept'
  <2> SUFFICES ASSUME NEW j \in Slots, OutOfDate(j)' PROVE EdgeUnderWay(j)'
    BY DEF EdgesKept
  <2>1. j # i /\ slots'[j] = slots[j]
    BY <1>2 DEF OutOfDate
  <2>2. OutOfDate(j) /\ EdgeUnderWay(j) /\ IrqSlot(j)
    BY <2>1 DEF OutOfDate, IrqSlot, EdgesKept
  <2>3. slots[j].btn \in Buttons \ {b} /\ slots[j].debounceH \in Owned(slots[j])
    BY <2>2 DEF IrqSlot, TableOK, SlotsServed, Served, TypeOK, Owned
  <2>4. QED BY <1>1, <1>5, <2>1, <2>2, <2>3, EdgeWaits
<1>12. QED BY <1>3, <1>4, <1>6, <1>7, <1>8, <1>9, <1>10, <1>11 DEF TableOK

\* Arming the interrupt: whichever step fails, what was created is given back.
LEMMA EnableIrqKeeps == ASSUME IInv, NEW b \in Buttons, EnableIrq(b) PROVE IInv'
<1>a. PICK i : i = First(Available(b))
  OBVIOUS
<1>b. PICK dh : dh = First(Free(timers))
  OBVIOUS
<1>c. PICK t1 : t1 = Created(timers, "debounce", i)
  OBVIOUS
<1>d. PICK lh : lh = First(Free(t1))
  OBVIOUS
<1>e. PICK t2 : t2 = Created(t1, "longpress", i)
  OBVIOUS
<1> DEFINE started == IF daemon.pc = "absent" THEN [daemon EXCEPT !.pc = "wait"] ELSE daemon
<1>1. /\ i \in Slots /\ slots[i] = FreeSlot /\ \A j \in Slots : slots[j].btn # b
      /\ b \notin edged /\ dal[b].backend # "irq"
      /\ pc = "app" /\ enables' \in 0 .. MaxEnables
      /\ UNCHANGED <<pc, ti, seen, sem, isr, latched, pin, flips, edged, missed, restarted,
                     evt, age>>
      /\ Retuned(b) \in DriverSet /\ Retuned(b).pending = dal[b].pending
      /\ Retuned(b).backend = dal[b].backend
  BY <1>a, SlotForRequest DEF EnableIrq
<1>2. /\ [Retuned(b) EXCEPT !.backend = "none"] \in DriverSet
      /\ [Retuned(b) EXCEPT !.backend = "none"].backend = "none"
      /\ [Retuned(b) EXCEPT !.backend = "none"].pending = dal[b].pending
      /\ [Retuned(b) EXCEPT !.backend = "irq"] \in DriverSet
      /\ [Retuned(b) EXCEPT !.backend = "irq"].backend = "irq"
  BY <1>1 DEF DriverSet
<1>3. timers \in TimerSet /\ \A h \in Handles : timers[h].cb = "free" => timers[h] = FreeTimer
  BY DEF IInv, TypeOK, TimerSet, Free
<1>4. ASSUME Free(timers) # {}
      PROVE  /\ t1 \in TimerSet /\ dh \in Handles /\ timers[dh].cb = "free"
             /\ t1[dh] = [cb |-> "debounce", arg |-> i, left |-> Period("debounce"), active |-> FALSE]
             /\ \A g \in Handles \ {dh} : t1[g] = timers[g]
  <2>1. i \in Slots \cup Buttons
    BY <1>1
  <2>2. QED BY <1>b, <1>c, <1>3, <1>4, <2>1, CreatedOne
<1>5. ASSUME Free(timers) # {}, Free(t1) # {}
      PROVE  /\ t2 \in TimerSet /\ lh \in Handles /\ timers[lh].cb = "free" /\ lh # dh
             /\ t2[lh] = [cb |-> "longpress", arg |-> i, left |-> Period("longpress"), active |-> FALSE]
             /\ \A g \in Handles \ {lh} : t2[g] = t1[g]
  <2>1. t1 \in TimerSet /\ i \in Slots \cup Buttons
    BY <1>1, <1>4, <1>5
  <2>2. /\ t2 \in TimerSet /\ lh \in Handles /\ t1[lh].cb = "free"
        /\ t2[lh] = [cb |-> "longpress", arg |-> i, left |-> Period("longpress"), active |-> FALSE]
        /\ \A g \in Handles \ {lh} : t2[g] = t1[g]
    BY <1>d, <1>e, <1>5, <2>1, CreatedOne
  <2>3. QED BY <1>4, <1>5, <2>2
<1>6. CASE /\ Free(timers) = {}
           /\ UNCHANGED <<timers, slots, daemon>>
           /\ dal' = [dal EXCEPT ![b] = Retuned(b)]
  BY <1>1, <1>3, <1>6, FailingKeeps DEF DaemonReady
<1>7. CASE /\ Free(timers) # {} /\ Free(t1) = {}
           /\ timers' = RolledBack(t1, {dh})
           /\ UNCHANGED <<slots, daemon>>
           /\ dal' = [dal EXCEPT ![b] = Retuned(b)]
  <2>1. timers' \in TimerSet
        /\ \A g \in Handles : timers'[g] = IF g \in {dh} THEN FreeTimer ELSE t1[g]
    BY <1>4, <1>7, DestroyedAll DEF RolledBack
  <2>2. \A g \in Handles : timers'[g] = timers[g]
    BY <1>3, <1>4, <1>7, <2>1
  <2>3. QED BY <1>1, <1>7, <2>1, <2>2, FailingKeeps DEF DaemonReady
<1>8. CASE /\ Free(timers) # {} /\ Free(t1) # {}
           /\ timers' = RolledBack(t2, {dh, lh})
           /\ UNCHANGED slots
           /\ daemon' \in {daemon, started}
           /\ dal' = [dal EXCEPT ![b] = [Retuned(b) EXCEPT !.backend = "none"]]
  <2>1. timers' \in TimerSet
        /\ \A g \in Handles : timers'[g] = IF g \in {dh, lh} THEN FreeTimer ELSE t2[g]
    BY <1>5, <1>8, DestroyedAll DEF RolledBack
  <2>2. \A g \in Handles : timers'[g] = timers[g]
    BY <1>3, <1>4, <1>5, <1>8, <2>1
  <2>3. DaemonReady
    BY <1>8 DEF DaemonReady
  <2> DEFINE d == [Retuned(b) EXCEPT !.backend = "none"]
  <2>4. dal' = [dal EXCEPT ![b] = d] /\ d \in DriverSet /\ d.backend # "irq"
        /\ d.pending = dal[b].pending
    BY <1>2, <1>8
  <2> HIDE DEF d
  <2>5. QED BY <1>1, <1>8, <2>1, <2>2, <2>3, <2>4, FailingKeeps
<1>9. CASE /\ Free(timers) # {} /\ Free(t1) # {}
           /\ timers' = t2
           /\ slots' = [slots EXCEPT ![i] =
                          [FreeSlot EXCEPT !.btn = b, !.drive = "irq", !.debounceH = dh,
                                           !.longpressH = lh, !.last = dal[b].stable]]
           /\ daemon' = started
           /\ dal' = [dal EXCEPT ![b] = [Retuned(b) EXCEPT !.backend = "irq"]]
  <2>s. PICK s : s = [FreeSlot EXCEPT !.btn = b, !.drive = "irq", !.debounceH = dh,
                                      !.longpressH = lh, !.last = dal[b].stable]
    OBVIOUS
  <2>d. PICK d : d = [Retuned(b) EXCEPT !.backend = "irq"]
    OBVIOUS
  <2>1. dal[b].stable \in BOOLEAN
    BY DEF IInv, TypeOK
  <2>2. /\ s \in SlotRecord /\ s.btn = b /\ s.drive = "irq" /\ s.debounceH = dh
        /\ s.longpressH = lh /\ s.pollH = -1
    BY <1>4, <1>5, <1>9, <2>s, <2>1 DEF SlotRecord, FreeSlot
  <2>3. slots' = [slots EXCEPT ![i] = s] /\ slots'[i] = s
    BY <1>1, <1>9, <2>s DEF IInv, TypeOK
  <2>4. dal' = [dal EXCEPT ![b] = d] /\ d \in DriverSet /\ d.backend = "irq"
    BY <1>2, <1>9, <2>d
  <2>5. -1 \notin Handles /\ b # None
    BY DEF Handles
  <2>6. Owned(s) = {dh, lh}
    BY <1>4, <1>5, <1>9, <2>2, <2>5 DEF Owned
  <2>7. Served(i)'
    <3>1. /\ timers'[dh].cb = "debounce" /\ timers'[dh].arg = i /\ dh # -1
          /\ timers'[lh].cb = "longpress" /\ timers'[lh].arg = i /\ lh # -1
      BY <1>4, <1>5, <1>9, <2>5
    <3>2. QED BY <2>2, <2>3, <2>5, <3>1 DEF Served
  <2>8. \A h \in Handles : /\ h \in Owned(s) => Named(h)' /\ timers[h].cb = "free"
                                                /\ timers'[h].cb \notin {"free", "other"}
                           /\ h \notin Owned(s) => timers'[h] = timers[h]
    BY <1>1, <1>4, <1>5, <1>9, <2>2, <2>3, <2>6 DEF Named
  <2>9. DaemonReady /\ timers' \in TimerSet
    BY <1>5, <1>9 DEF DaemonReady
  <2>10. QED BY <1>1, <2>2, <2>3, <2>4, <2>7, <2>8, <2>9, FillingKeeps
<1>10. QED BY <1>6, <1>7, <1>8, <1>9, <1>a, <1>b, <1>c, <1>d, <1>e DEF EnableIrq

\* Enabling the polling timer.
LEMMA EnablePollKeeps == ASSUME IInv, NEW b \in Buttons, EnablePoll(b) PROVE IInv'
<1>a. PICK i : i = First(Available(b))
  OBVIOUS
<1>b. PICK h : h = First(Free(timers))
  OBVIOUS
<1>c. PICK t1 : t1 = Created(timers, "poll", b)
  OBVIOUS
<1>d. PICK hooked : hooked = [Retuned(b) EXCEPT !.prev = dal[b].stable, !.fired = FALSE]
  OBVIOUS
<1>1. /\ i \in Slots /\ slots[i] = FreeSlot /\ \A j \in Slots : slots[j].btn # b
      /\ b \notin edged /\ dal[b].backend # "irq"
      /\ pc = "app" /\ enables' \in 0 .. MaxEnables
      /\ UNCHANGED <<pc, ti, seen, sem, isr, latched, pin, flips, edged, missed, restarted,
                     evt, age>>
      /\ Retuned(b) \in DriverSet /\ Retuned(b).pending = dal[b].pending
      /\ Retuned(b).backend = dal[b].backend
  BY <1>a, SlotForRequest DEF EnablePoll
<1>2. dal[b].stable \in BOOLEAN /\ daemon' = daemon /\ DaemonReady
  BY DEF IInv, TypeOK, EnablePoll, DaemonReady
<1>3. hooked \in DriverSet /\ hooked.backend = dal[b].backend /\ hooked.pending = dal[b].pending
  BY <1>d, <1>1, <1>2 DEF DriverSet
<1>4. timers \in TimerSet
  BY DEF IInv, TypeOK, TimerSet
<1>5. ASSUME Free(timers) # {}
      PROVE  /\ t1 \in TimerSet /\ h \in Handles /\ timers[h].cb = "free"
             /\ t1[h] = [cb |-> "poll", arg |-> b, left |-> Period("poll"), active |-> FALSE]
             /\ \A g \in Handles \ {h} : t1[g] = timers[g]
  BY <1>b, <1>c, <1>4, <1>5, CreatedOne
<1>6. CASE /\ Free(timers) = {}
           /\ UNCHANGED <<timers, slots>>
           /\ dal' = [dal EXCEPT ![b] = hooked]
  BY <1>1, <1>2, <1>3, <1>4, <1>6, FailingKeeps
<1>7. CASE /\ Free(timers) # {}
           /\ timers' = Started(t1, h)
           /\ slots' = [slots EXCEPT ![i] =
                          [FreeSlot EXCEPT !.btn = b, !.pollH = h, !.last = dal[b].stable]]
           /\ dal' = [dal EXCEPT ![b] = [hooked EXCEPT !.backend = "poll"]]
  <2>s. PICK s : s = [FreeSlot EXCEPT !.btn = b, !.pollH = h, !.last = dal[b].stable]
    OBVIOUS
  <2>d. PICK d : d = [hooked EXCEPT !.backend = "poll"]
    OBVIOUS
  <2>1. /\ s \in SlotRecord /\ s.btn = b /\ s.drive = "poll" /\ s.debounceH = -1
        /\ s.longpressH = -1 /\ s.pollH = h
    BY <1>2, <1>5, <1>7, <2>s DEF SlotRecord, FreeSlot
  <2>2. slots' = [slots EXCEPT ![i] = s] /\ slots'[i] = s
    BY <1>1, <1>7, <2>s DEF IInv, TypeOK
  <2>3. dal' = [dal EXCEPT ![b] = d] /\ d \in DriverSet /\ d.backend = "poll"
    BY <1>3, <1>7, <2>d DEF DriverSet
  <2>4. -1 \notin Handles /\ b # None
    BY DEF Handles
  <2>5. Owned(s) = {h}
    BY <1>5, <1>7, <2>1, <2>4 DEF Owned
  <2>6. /\ timers' \in TimerSet /\ timers'[h].cb = "poll" /\ timers'[h].arg = b
        /\ \A g \in Handles \ {h} : timers'[g] = timers[g]
    BY <1>5, <1>7, StartedOne
  <2>7. Served(i)'
    BY <1>5, <1>7, <2>1, <2>2, <2>4, <2>6 DEF Served
  <2>8. Named(h)'
    BY <1>1, <2>1, <2>2, <2>6 DEF Named
  <2>9. \A g \in Handles : /\ g \in Owned(s) => Named(g)' /\ timers[g].cb = "free"
                                                /\ timers'[g].cb \notin {"free", "other"}
                           /\ g \notin Owned(s) => timers'[g] = timers[g]
    BY <1>5, <1>7, <2>5, <2>6, <2>8
  <2>10. QED BY <1>1, <1>2, <2>1, <2>2, <2>3, <2>6, <2>7, <2>9, FillingKeeps
<1>8. QED BY <1>6, <1>7, <1>a, <1>b, <1>c, <1>d DEF EnablePoll

-----------------------------------------------------------------------------
(* The finger, the interrupt and the daemon.                               *)

\* A finger moves.
LEMMA FlipKeeps == ASSUME IInv, NEW b \in Buttons, Flip(b) PROVE IInv'
<1> USE DEF IInv
<1>1. /\ UNCHANGED <<timers, slots, dal, pc, ti, seen, daemon, sem, isr, enables, restarted,
                     evt, age>>
      /\ pin' = (pin \ {b}) \cup ({b} \ pin) /\ flips' \in 0 .. MaxFlips
  BY DEF Flip, mainVars, evtVars, TypeOK
<1>2. /\ latched \subseteq latched' /\ latched' \subseteq latched \cup {b}
      /\ edged' \subseteq edged \cup {b} /\ missed' \subseteq missed
      /\ dal[b].backend # "irq" => edged' = edged /\ missed' = missed
      /\ dal[b].backend = "irq" => b \in latched'
      /\ \A c \in Buttons \ {b} : (c \in edged' <=> c \in edged) /\ (c \in missed' <=> c \in missed)
  <2>1. CASE dal[b].backend = "irq"
    BY <2>1 DEF Flip
  <2>2. CASE dal[b].backend # "irq"
    BY <2>2 DEF Flip
  <2>3. QED BY <2>1, <2>2
<1>3. TypeOK'
  BY <1>1, <1>2 DEF TypeOK, Free
<1>4. TableOK'
  <2>1. \A h \in Handles : timers[h].cb = "other" => ~timers'[h].active
    BY <1>1 DEF TableOK, TimersNamed, Named
  <2>2. \A c \in edged' : c \in edged \/ dal[c].backend = "irq"
    BY <1>2
  <2>3. QED BY <1>1, <2>1, <2>2, TableStays
<1>5. LoopInTimer' /\ DaemonInPlace'
  BY <1>1 DEF LoopInTimer, DaemonInPlace
<1>6. EdgesKept'
  <2> SUFFICES ASSUME NEW j \in Slots, OutOfDate(j)' PROVE EdgeUnderWay(j)'
    BY DEF EdgesKept
  <2>1. IrqSlot(j) /\ slots[j].btn \in Buttons /\ dal[slots[j].btn].backend = "irq"
    <3>1. IrqSlot(j)
      BY <1>1 DEF OutOfDate, IrqSlot
    <3>2. QED
      BY <3>1 DEF IrqSlot, TableOK, SlotsServed, Served, BackendsAgree, TypeOK
  <2>2. CASE slots[j].btn = b
    BY <1>1, <1>2, <2>1, <2>2 DEF EdgeUnderWay
  <2>3. CASE slots[j].btn # b
    <3>1. slots[j].btn \in pin' <=> slots[j].btn \in pin
      BY <1>1, <2>3
    <3>2. OutOfDate(j)
      BY <1>1, <1>2, <2>1, <2>3, <3>1 DEF OutOfDate, IrqSlot
    <3>3. EdgeUnderWay(j)
      BY <3>2 DEF EdgesKept
    <3>4. QED BY <1>1, <1>2, <2>1, <3>3, EdgeStays
  <2>4. QED BY <2>2, <2>3
<1>7. QED BY <1>3, <1>4, <1>5, <1>6

\* A step of the interrupt or the daemon that leaves the timers alone.
LEMMA HandlerMoves ==
  ASSUME IInv, UNCHANGED <<timers, slots, pc, ti, seen, pin, boundVars, edged, missed, restarted,
                           evtVars>>,
         dal' \in DalSet, \A b \in Buttons : dal'[b].backend = dal[b].backend,
         daemon' \in [pc : {"absent", "wait", "scan", "recheck", "stop", "start"},
                      i : Slots, h : Handles \cup {-1}],
         DaemonInPlace', sem' \in BOOLEAN, isr' \in Buttons \cup {None}, latched' \subseteq Buttons,
         \A j \in Slots : OutOfDate(j) /\ EdgeUnderWay(j) => EdgeUnderWay(j)'
  PROVE  IInv'
<1> USE DEF IInv
<1>1. TypeOK'
  BY DEF TypeOK, DalSet, boundVars, evtVars, Free
<1>2. TableOK'
  <2>1. \A h \in Handles : timers[h].cb = "other" => ~timers'[h].active
    BY DEF TableOK, TimersNamed, Named
  <2>2. QED BY <2>1, TableStays
<1>3. LoopInTimer'
  BY DEF LoopInTimer
<1>4. EdgesKept'
  <2> SUFFICES ASSUME NEW j \in Slots, OutOfDate(j)' PROVE EdgeUnderWay(j)'
    BY DEF EdgesKept
  <2>1. OutOfDate(j)
    BY DEF OutOfDate, IrqSlot
  <2>2. QED BY <2>1 DEF EdgesKept
<1>5. QED BY <1>1, <1>2, <1>3, <1>4

\* The button of a slot that is out of date.
LEMMA OutOfDateButton ==
  ASSUME TypeOK, TableOK, NEW j \in Slots, OutOfDate(j)
  PROVE  /\ slots[j].drive = "irq" /\ slots[j].btn \in Buttons
         /\ slots[j].debounceH \in Handles /\ timers[slots[j].debounceH].cb = "debounce"
         /\ timers[slots[j].debounceH].arg = j
BY DEF OutOfDate, IrqSlot, TableOK, SlotsServed, Served, TypeOK

\* Setting or clearing a pending flag.
LEMMA PendingSet ==
  ASSUME dal \in DalSet, NEW b \in Buttons, NEW v \in BOOLEAN,
         dal' = [dal EXCEPT ![b].pending = v]
  PROVE  /\ dal' \in DalSet /\ dal'[b].pending = v
         /\ \A c \in Buttons : /\ dal'[c].backend = dal[c].backend
                               /\ c # b => dal'[c] = dal[c]
<1> DEFINE e == [dal[b] EXCEPT !.pending = v]
<1>1. dal[b] \in DriverSet
  BY DEF DalSet, DriverSet
<1>2. e \in DriverSet /\ e.pending = v /\ e.backend = dal[b].backend
  BY <1>1 DEF DriverSet
<1> HIDE DEF e
<1>3. dal' = [dal EXCEPT ![b] = e]
  BY DEF e
<1>4. QED BY <1>2, <1>3 DEF DalSet, DriverSet

\* The interrupt marks its button pending.
LEMMA IsrMarkKeeps == ASSUME IInv, NEW b \in Buttons, IsrMark(b) PROVE IInv'
<1> USE DEF IInv
<1>1. dal' \in DalSet /\ \A c \in Buttons : /\ dal'[c].backend = dal[c].backend
                                            /\ dal[c].pending => dal'[c].pending
  <2>1. dal \in DalSet
    BY DEF TypeOK, DalSet
  <2>2. dal' = [dal EXCEPT ![b].pending = TRUE]
    BY DEF IsrMark
  <2>3. QED BY <2>1, <2>2, PendingSet
<1>2. dal'[b].pending
  BY DEF IsrMark, TypeOK
<1>3. isr' = b /\ b # None /\ latched' = latched \ {b} /\ sem' = sem /\ daemon' = daemon
  BY DEF IsrMark
<1>4. DaemonInPlace'
  BY DEF DaemonInPlace, IsrMark
<1>5. ASSUME NEW j \in Slots, OutOfDate(j), EdgeUnderWay(j) PROVE EdgeUnderWay(j)'
  <2>1. slots[j].btn \in Buttons
    BY <1>5, OutOfDateButton
  <2>2. QED BY <1>1, <1>2, <1>3, <1>5, <2>1 DEF EdgeUnderWay, IsrMark, mainVars
<1>6. latched' \subseteq Buttons /\ sem' \in BOOLEAN /\ isr' \in Buttons \cup {None}
      /\ daemon' \in [pc : {"absent", "wait", "scan", "recheck", "stop", "start"},
                      i : Slots, h : Handles \cup {-1}]
  BY <1>3 DEF TypeOK
<1>7. QED BY <1>1, <1>4, <1>5, <1>6, HandlerMoves DEF IsrMark, mainVars

\* The interrupt wakes the daemon.
LEMMA IsrGiveKeeps == IInv /\ IsrGive => IInv'
<1> SUFFICES ASSUME IInv, IsrGive PROVE IInv'
  OBVIOUS
<1> USE DEF IInv
<1>1. dal' \in DalSet /\ dal' = dal /\ isr' = None /\ sem' = TRUE /\ latched' = latched
      /\ daemon' = daemon
  BY DEF IsrGive, TypeOK, DalSet
<1>2. DaemonInPlace'
  BY DEF DaemonInPlace, IsrGive
<1>3. ASSUME NEW j \in Slots, OutOfDate(j), EdgeUnderWay(j) PROVE EdgeUnderWay(j)'
  BY <1>1, <1>3 DEF EdgeUnderWay, IsrGive, mainVars
<1>4. latched' \subseteq Buttons /\ sem' \in BOOLEAN /\ isr' \in Buttons \cup {None}
      /\ daemon' \in [pc : {"absent", "wait", "scan", "recheck", "stop", "start"},
                      i : Slots, h : Handles \cup {-1}]
  BY <1>1 DEF TypeOK
<1>5. QED BY <1>1, <1>2, <1>3, <1>4, HandlerMoves DEF IsrGive, mainVars

\* The daemon takes the semaphore and begins at the first slot.
LEMMA DaemonTakeKeeps == IInv /\ DaemonTake => IInv'
<1> SUFFICES ASSUME IInv, DaemonTake PROVE IInv'
  OBVIOUS
<1> USE DEF IInv
<1>1. /\ dal' \in DalSet /\ dal' = dal /\ isr' = isr /\ sem' = FALSE /\ latched' = latched
      /\ daemon' = [daemon EXCEPT !.pc = "scan"] /\ daemon.pc = "wait" /\ daemon.i = 0
  BY DEF DaemonTake, TypeOK, DalSet, irqVars, DaemonInPlace
<1>2. daemon' \in [pc : {"absent", "wait", "scan", "recheck", "stop", "start"},
                   i : Slots, h : Handles \cup {-1}]
      /\ daemon'.pc = "scan" /\ daemon'.i = 0
  BY <1>1 DEF TypeOK
<1>3. DaemonInPlace'
  BY <1>2 DEF DaemonInPlace
<1>4. ASSUME NEW j \in Slots, OutOfDate(j), EdgeUnderWay(j) PROVE EdgeUnderWay(j)'
  <2>1. 0 <= j
    BY DEF Slots
  <2>2. QED BY <1>1, <1>2, <1>4, <2>1 DEF EdgeUnderWay, DaemonTake, mainVars
<1>5. latched' \subseteq Buttons /\ sem' \in BOOLEAN /\ isr' \in Buttons \cup {None}
  BY <1>1 DEF TypeOK
<1>6. QED BY <1>1, <1>2, <1>3, <1>4, <1>5, HandlerMoves DEF DaemonTake, mainVars

\* Where the daemon is after a slot.
LEMMA NextSlotMoves ==
  ASSUME TypeOK
  PROVE  /\ NextSlot \in [pc : {"absent", "wait", "scan", "recheck", "stop", "start"},
                          i : Slots, h : Handles \cup {-1}]
         /\ NextSlot.pc \in {"scan", "wait"}
         /\ NextSlot.pc = "wait" => NextSlot.i = 0
         /\ \A j \in Slots : daemon.i < j => NextSlot.pc = "scan" /\ NextSlot.i <= j
<1>1. daemon.i \in Slots /\ 0 \in Slots
  BY DEF TypeOK, Slots
<1>2. CASE daemon.i + 1 \in Slots
  BY <1>1, <1>2 DEF NextSlot, Slots
<1>3. CASE daemon.i + 1 \notin Slots
  BY <1>1, <1>3 DEF NextSlot, Slots
<1>4. QED BY <1>2, <1>3

\* The daemon looks at a slot.
LEMMA DaemonScanKeeps == IInv /\ DaemonScan => IInv'
<1> SUFFICES ASSUME IInv, DaemonScan PROVE IInv'
  OBVIOUS
<1> USE DEF IInv
<1>1. /\ isr' = isr /\ sem' = sem /\ latched' = latched /\ daemon.pc = "scan"
      /\ UNCHANGED <<timers, slots, pc, ti, seen, pin, boundVars, edged, missed, restarted, evtVars>>
  BY DEF DaemonScan, irqVars, mainVars
<1>2. latched' \subseteq Buttons /\ sem' \in BOOLEAN /\ isr' \in Buttons \cup {None}
      /\ daemon.i \in Slots /\ dal \in DalSet
  BY <1>1 DEF TypeOK, DalSet
<1>3. CASE slots[daemon.i].drive = "irq" /\ dal[slots[daemon.i].btn].pending
  <2>1. /\ dal' = [dal EXCEPT ![slots[daemon.i].btn].pending = FALSE]
        /\ daemon' = [daemon EXCEPT !.pc = "recheck"]
    BY <1>3 DEF DaemonScan
  <2>2. slots[daemon.i].btn \in Buttons
    BY <1>2, <1>3 DEF TableOK, SlotsServed, Served, TypeOK
  <2>3. dal' \in DalSet /\ \A c \in Buttons : /\ dal'[c].backend = dal[c].backend
                                              /\ c # slots[daemon.i].btn => dal'[c] = dal[c]
    BY <1>2, <2>1, <2>2, PendingSet
  <2>4. /\ daemon' \in [pc : {"absent", "wait", "scan", "recheck", "stop", "start"},
                        i : Slots, h : Handles \cup {-1}]
        /\ daemon'.pc = "recheck" /\ daemon'.i = daemon.i
    BY <2>1 DEF TypeOK
  <2>5. DaemonInPlace'
    BY <2>4 DEF DaemonInPlace
  <2>6. ASSUME NEW j \in Slots, OutOfDate(j), EdgeUnderWay(j) PROVE EdgeUnderWay(j)'
    <3>1. CASE j = daemon.i
      BY <1>1, <2>4, <3>1 DEF EdgeUnderWay
    <3>2. CASE j # daemon.i
      <4>1. slots[j].btn \in Buttons /\ slots[j].btn # slots[daemon.i].btn
        BY <1>2, <2>2, <2>6, <3>2, OutOfDateButton DEF TableOK, OneStream
      <4>2. daemon.i <= j => daemon.i < j
        BY <1>2, <3>2 DEF Slots
      <4>3. QED BY <1>1, <2>3, <2>4, <2>6, <3>2, <4>1, <4>2 DEF EdgeUnderWay
    <3>3. QED BY <3>1, <3>2
  <2>7. QED BY <1>1, <1>2, <2>3, <2>4, <2>5, <2>6, HandlerMoves
<1>4. CASE ~(slots[daemon.i].drive = "irq" /\ dal[slots[daemon.i].btn].pending)
  <2>1. daemon' = NextSlot /\ dal' = dal
    BY <1>4 DEF DaemonScan
  <2>2. DaemonInPlace'
    BY <2>1, NextSlotMoves DEF DaemonInPlace
  <2>3. ASSUME NEW j \in Slots, OutOfDate(j), EdgeUnderWay(j) PROVE EdgeUnderWay(j)'
    <3>1. slots[j].drive = "irq"
      BY <2>3, OutOfDateButton
    <3>2. j = daemon.i => ~dal[slots[j].btn].pending
      BY <1>4, <3>1
    <3>3. dal[slots[j].btn].pending /\ daemon.i <= j => daemon.i < j
      BY <1>2, <3>2 DEF Slots
    <3>4. daemon.i < j => daemon'.pc = "scan" /\ daemon'.i <= j
      BY <2>1, NextSlotMoves
    <3>5. QED BY <1>1, <2>1, <2>3, <3>3, <3>4 DEF EdgeUnderWay
  <2>4. daemon' \in [pc : {"absent", "wait", "scan", "recheck", "stop", "start"},
                     i : Slots, h : Handles \cup {-1}]
    BY <2>1, NextSlotMoves
  <2>5. QED BY <1>1, <1>2, <2>1, <2>2, <2>3, <2>4, HandlerMoves
<1>5. QED BY <1>3, <1>4

\* The daemon reads the slot's handle, if the slot is armed still.
LEMMA DaemonRecheckKeeps == IInv /\ DaemonRecheck => IInv'
<1> SUFFICES ASSUME IInv, DaemonRecheck PROVE IInv'
  OBVIOUS
<1> USE DEF IInv
<1>1. /\ isr' = isr /\ sem' = sem /\ latched' = latched /\ daemon.pc = "recheck" /\ dal' = dal
      /\ UNCHANGED <<timers, slots, pc, ti, seen, pin, boundVars, edged, missed, restarted, evtVars>>
  BY DEF DaemonRecheck, irqVars, mainVars
<1>2. latched' \subseteq Buttons /\ sem' \in BOOLEAN /\ isr' \in Buttons \cup {None}
      /\ daemon.i \in Slots /\ dal' \in DalSet
  BY <1>1 DEF TypeOK, DalSet
<1>3. CASE slots[daemon.i].drive = "irq"
  <2>1. daemon' = [daemon EXCEPT !.pc = "stop", !.h = slots[daemon.i].debounceH]
    BY <1>3 DEF DaemonRecheck
  <2>2. /\ slots[daemon.i].debounceH \in Handles
        /\ timers[slots[daemon.i].debounceH].cb = "debounce"
    BY <1>2, <1>3 DEF TableOK, SlotsServed, Served, TypeOK
  <2>3. /\ daemon' \in [pc : {"absent", "wait", "scan", "recheck", "stop", "start"},
                        i : Slots, h : Handles \cup {-1}]
        /\ daemon'.pc = "stop" /\ daemon'.i = daemon.i /\ daemon'.h = slots[daemon.i].debounceH
    BY <2>1, <2>2 DEF TypeOK
  <2>4. DaemonInPlace'
    BY <1>1, <2>2, <2>3 DEF DaemonInPlace, Handles
  <2>5. ASSUME NEW j \in Slots, OutOfDate(j), EdgeUnderWay(j) PROVE EdgeUnderWay(j)'
    BY <1>1, <2>3, <2>5 DEF EdgeUnderWay
  <2>6. QED BY <1>1, <1>2, <2>3, <2>4, <2>5, HandlerMoves
<1>4. CASE slots[daemon.i].drive # "irq"
  <2>1. daemon' = NextSlot
    BY <1>4 DEF DaemonRecheck
  <2>2. DaemonInPlace'
    BY <2>1, NextSlotMoves DEF DaemonInPlace
  <2>3. ASSUME NEW j \in Slots, OutOfDate(j), EdgeUnderWay(j) PROVE EdgeUnderWay(j)'
    <3>1. j # daemon.i
      BY <1>4, <2>3, OutOfDateButton
    <3>2. daemon.i < j => daemon'.pc = "scan" /\ daemon'.i <= j
      BY <2>1, NextSlotMoves
    <3>3. QED BY <1>1, <2>3, <3>1, <3>2 DEF EdgeUnderWay
  <2>4. daemon' \in [pc : {"absent", "wait", "scan", "recheck", "stop", "start"},
                     i : Slots, h : Handles \cup {-1}]
    BY <2>1, NextSlotMoves
  <2>5. QED BY <1>1, <1>2, <2>1, <2>2, <2>3, <2>4, HandlerMoves
<1>5. QED BY <1>3, <1>4

\* The daemon stops the timer whose handle it read.
LEMMA DaemonStopKeeps == IInv /\ DaemonStop => IInv'
<1> SUFFICES ASSUME IInv, DaemonStop PROVE IInv'
  OBVIOUS
<1> USE DEF IInv
<1>1. /\ daemon.pc = "stop" /\ daemon.i \in Slots /\ daemon.h \in Handles
      /\ timers' = Stopped(timers, daemon.h) /\ timers \in TimerSet
      /\ UNCHANGED <<slots, dal, pc, ti, seen, sem, isr, latched, pin, flips, enables, edged,
                     restarted, evt, age>>
  BY DEF DaemonStop, DaemonInPlace, TypeOK, TimerSet, irqVars, mainVars, boundVars, evtVars
<1>2. /\ timers' \in TimerSet
      /\ \A g \in Handles : /\ timers'[g].cb = timers[g].cb
                            /\ timers'[g].arg = timers[g].arg
                            /\ timers[g].cb = "free" => timers'[g] = timers[g]
                            /\ timers[g].cb = "other" => ~timers'[g].active
                            /\ g # daemon.h => timers'[g] = timers[g]
  <2>1. /\ timers' \in TimerSet
        /\ \A g \in Handles : /\ timers'[g].cb = timers[g].cb
                              /\ timers'[g].arg = timers[g].arg
                              /\ timers'[g].left = timers[g].left
                              /\ g # daemon.h => timers'[g] = timers[g]
                              /\ timers'[g].active => timers[g].active
    BY <1>1, StoppedOne
  <2>2. \A g \in Handles : timers[g].cb = "other" => ~timers[g].active
    BY DEF TableOK, TimersNamed, Named
  <2>3. timers[daemon.h].cb = "free" => timers'[daemon.h] = timers[daemon.h]
    BY <1>1, StoppedFree DEF TypeOK, Free
  <2>4. QED BY <1>1, <2>1, <2>2, <2>3
<1>3. /\ missed \subseteq missed' /\ missed' \subseteq Buttons
      /\ timers[daemon.h].cb = "debounce" /\ timers[daemon.h].arg # daemon.i
           => slots[timers[daemon.h].arg].btn \in missed'
  <2>1. timers[daemon.h].cb = "debounce" => slots[timers[daemon.h].arg].btn \in Buttons
    <3> DEFINE j == timers[daemon.h].arg
    <3> SUFFICES ASSUME timers[daemon.h].cb = "debounce" PROVE slots[j].btn \in Buttons
      OBVIOUS
    <3>1. j \in Slots /\ slots[j].debounceH = daemon.h /\ daemon.h # -1
      BY <1>1 DEF TableOK, TimersNamed, Named, Handles
    <3> HIDE DEF j
    <3>2. slots[j].btn # None
      BY <3>1 DEF TableOK, SlotsServed, Served, FreeSlot
    <3> QED BY <3>1, <3>2 DEF TypeOK
  <2>2. missed' = IF timers[daemon.h].cb = "debounce" /\ timers[daemon.h].arg # daemon.i
                  THEN missed \cup {slots[timers[daemon.h].arg].btn} ELSE missed
    BY DEF DaemonStop
  <2>3. QED BY <2>1, <2>2 DEF TypeOK
<1>4. /\ daemon' \in [pc : {"absent", "wait", "scan", "recheck", "stop", "start"},
                      i : Slots, h : Handles \cup {-1}]
      /\ slots[daemon.i].debounceH = -1 => daemon' = NextSlot
      /\ slots[daemon.i].debounceH # -1 =>
           /\ daemon'.pc = "start" /\ daemon'.i = daemon.i
           /\ daemon'.h = slots[daemon.i].debounceH
  <2>1. slots[daemon.i].debounceH \in Handles \cup {-1}
    BY <1>1 DEF TypeOK
  <2>2. CASE slots[daemon.i].debounceH = -1
    BY <2>2, NextSlotMoves DEF DaemonStop
  <2>3. CASE slots[daemon.i].debounceH # -1
    <3>1. daemon' = [daemon EXCEPT !.pc = "start", !.h = slots[daemon.i].debounceH]
      BY <2>3 DEF DaemonStop
    <3>2. QED BY <2>1, <2>3, <3>1 DEF TypeOK
  <2>4. QED BY <2>2, <2>3
<1>5. TypeOK'
  <2>1. \A h \in Free(timers)' : timers'[h] = FreeTimer
    BY <1>2 DEF TypeOK, Free
  <2>2. QED BY <1>1, <1>2, <1>3, <1>4, <2>1 DEF TypeOK, TimerSet
<1>6. TableOK'
  BY <1>1, <1>2, TableStays
<1>7. LoopInTimer'
  BY <1>1, <1>2 DEF LoopInTimer, TypeOK
<1>8. DaemonInPlace'
  <2>1. CASE slots[daemon.i].debounceH = -1
    BY <1>4, <2>1, NextSlotMoves DEF DaemonInPlace
  <2>2. CASE slots[daemon.i].debounceH # -1
    <3>1. slots[daemon.i].debounceH \in Handles
      BY <1>1, <2>2 DEF TypeOK
    <3>2. timers[slots[daemon.i].debounceH].cb = "debounce"
      BY <1>1, <2>2 DEF TableOK, SlotsServed, Served, FreeSlot, TypeOK
    <3>3. QED BY <1>2, <1>4, <2>2, <3>1, <3>2 DEF DaemonInPlace
  <2>3. QED BY <2>1, <2>2
<1>9. EdgesKept'
  <2> SUFFICES ASSUME NEW j \in Slots, OutOfDate(j)' PROVE EdgeUnderWay(j)'
    BY DEF EdgesKept
  <2>1. OutOfDate(j) /\ EdgeUnderWay(j)
    BY <1>1, <1>3 DEF OutOfDate, IrqSlot, EdgesKept
  <2>2. /\ slots[j].btn \in Buttons /\ slots[j].debounceH \in Handles
        /\ timers[slots[j].debounceH].cb = "debounce" /\ timers[slots[j].debounceH].arg = j
    BY <2>1, OutOfDateButton
  <2>3. CASE j = daemon.i
    <3>1. slots[j].debounceH # -1
      BY <2>2 DEF Handles
    <3>2. QED BY <1>1, <1>4, <2>3, <3>1 DEF EdgeUnderWay
  <2>4. CASE j # daemon.i
    <3>1. daemon.h # slots[j].debounceH
      <4>1. slots[j].btn \notin missed'
        BY <1>1 DEF OutOfDate
      <4>2. QED BY <1>3, <2>2, <2>4, <4>1
    <3>2. timers'[slots[j].debounceH] = timers[slots[j].debounceH]
      BY <1>2, <2>2, <3>1
    <3>3. daemon.i < j => \/ daemon'.pc = "scan" /\ daemon'.i <= j
                          \/ daemon'.pc = "start" /\ daemon'.i < j
      BY <1>4, NextSlotMoves
    <3>4. QED BY <1>1, <2>1, <2>4, <3>2, <3>3 DEF EdgeUnderWay
  <2>5. QED BY <2>3, <2>4
<1>10. QED BY <1>5, <1>6, <1>7, <1>8, <1>9

\* The daemon starts the timer.
LEMMA DaemonStartKeeps == IInv /\ DaemonStart => IInv'
<1> SUFFICES ASSUME IInv, DaemonStart PROVE IInv'
  OBVIOUS
<1> USE DEF IInv
<1>1. /\ daemon.pc = "start" /\ daemon.i \in Slots /\ daemon.h \in Handles
      /\ timers[daemon.h].cb # "other"
      /\ timers' = Started(timers, daemon.h) /\ timers \in TimerSet /\ daemon' = NextSlot
      /\ UNCHANGED <<slots, dal, pc, ti, seen, sem, isr, latched, pin, flips, enables, edged,
                     missed, evt, age>>
  BY DEF DaemonStart, DaemonInPlace, TypeOK, TimerSet, irqVars, mainVars, boundVars, evtVars
<1>2. /\ timers' \in TimerSet
      /\ \A g \in Handles : /\ timers'[g].cb = timers[g].cb
                            /\ timers'[g].arg = timers[g].arg
                            /\ timers[g].cb = "free" => timers'[g] = timers[g]
                            /\ timers[g].cb = "other" => ~timers'[g].active
                            /\ g # daemon.h => timers'[g] = timers[g]
      /\ timers[daemon.h].cb # "free" => timers'[daemon.h].active
  <2>1. \A g \in Handles : timers[g].cb = "other" => ~timers[g].active
    BY DEF TableOK, TimersNamed, Named
  <2>2. QED BY <1>1, <2>1, StartedOne
<1>3. /\ restarted => restarted'
      /\ pc = "finish" /\ daemon.h = ti => restarted'
  BY DEF DaemonStart
<1>4. daemon' \in [pc : {"absent", "wait", "scan", "recheck", "stop", "start"},
                   i : Slots, h : Handles \cup {-1}]
  BY <1>1, NextSlotMoves
<1>5. TypeOK'
  <2>1. \A h \in Free(timers)' : timers'[h] = FreeTimer
    BY <1>2 DEF TypeOK, Free
  <2>2. restarted' \in BOOLEAN
    BY DEF DaemonStart
  <2>3. QED BY <1>1, <1>2, <1>4, <2>1, <2>2 DEF TypeOK, TimerSet
<1>6. TableOK'
  BY <1>1, <1>2, TableStays
<1>7. LoopInTimer'
  BY <1>1, <1>2 DEF LoopInTimer, TypeOK
<1>8. DaemonInPlace'
  BY <1>1, NextSlotMoves DEF DaemonInPlace
<1>9. EdgesKept'
  <2> SUFFICES ASSUME NEW j \in Slots, OutOfDate(j)' PROVE EdgeUnderWay(j)'
    BY DEF EdgesKept
  <2>1. OutOfDate(j) /\ EdgeUnderWay(j)
    BY <1>1 DEF OutOfDate, IrqSlot, EdgesKept
  <2>2. /\ slots[j].btn \in Buttons /\ slots[j].debounceH \in Handles
        /\ timers[slots[j].debounceH].cb = "debounce"
    BY <2>1, OutOfDateButton
  <2>3. CASE daemon.h = slots[j].debounceH
    BY <1>1, <1>2, <1>3, <2>2, <2>3 DEF EdgeUnderWay
  <2>4. CASE daemon.h # slots[j].debounceH
    <3>1. timers'[slots[j].debounceH] = timers[slots[j].debounceH]
      BY <1>2, <2>2, <2>4
    <3>2. daemon.i < j => daemon'.pc = "scan" /\ daemon'.i <= j
      BY <1>1, NextSlotMoves
    <3>3. CASE timers[slots[j].debounceH].active
               /\ ~(pc = "finish" /\ ti = slots[j].debounceH /\ ~restarted)
      <4>1. ~(pc = "finish" /\ ti = slots[j].debounceH /\ ~restarted')
        BY <1>3, <3>3
      <4>2. QED BY <1>1, <3>1, <3>3, <4>1 DEF EdgeUnderWay
    <3>4. CASE ~(timers[slots[j].debounceH].active
                 /\ ~(pc = "finish" /\ ti = slots[j].debounceH /\ ~restarted))
      <4>1. \/ slots[j].btn \in latched
            \/ /\ dal[slots[j].btn].pending
               /\ isr # None \/ sem \/ daemon.i < j
        BY <1>1, <2>1, <2>4, <3>4 DEF EdgeUnderWay
      <4>2. QED BY <1>1, <3>2, <4>1 DEF EdgeUnderWay
    <3>5. QED BY <3>3, <3>4
  <2>5. QED BY <2>3, <2>4
<1>10. QED BY <1>5, <1>6, <1>7, <1>8, <1>9

-----------------------------------------------------------------------------
(* The theorems.                                                           *)

\* Every step keeps the invariant.
LEMMA StepInvariant == IInv /\ [Next]_vars => IInv'
<1> SUFFICES ASSUME IInv, [Next]_vars PROVE IInv'
  OBVIOUS
<1>1. CASE MainLoop
  BY <1>1, StartPassKeeps, LoadKeeps, StoreKeeps, RereadKeeps, CallKeeps, FinishKeeps, SleepKeeps
  DEF MainLoop
<1>2. CASE App
  BY <1>2, EnableIrqKeeps, EnablePollKeeps, DisableKeeps DEF App
<1>3. CASE Isr
  BY <1>3, IsrMarkKeeps, IsrGiveKeeps DEF Isr
<1>4. CASE Daemon
  BY <1>4, DaemonTakeKeeps, DaemonScanKeeps, DaemonRecheckKeeps, DaemonStopKeeps, DaemonStartKeeps
  DEF Daemon
<1>5. CASE Finger
  BY <1>5, FlipKeeps DEF Finger
<1>6. CASE UNCHANGED vars
  <2>1. UNCHANGED <<timers, slots, dal, daemon, sem, irqVars, pin, boundVars, edged, missed,
                    restarted, evtVars, pc, ti, seen>>
    BY <1>6 DEF vars, mainVars
  <2>2. TypeOK'
    BY <2>1 DEF IInv, TypeOK, irqVars, boundVars, evtVars, Free
  <2>3. TableOK'
    BY <2>1, TableSame DEF IInv
  <2>4. LoopInTimer' /\ DaemonInPlace'
    BY <2>1 DEF IInv, LoopInTimer, DaemonInPlace
  <2>5. EdgesKept'
    BY <2>1 DEF IInv, EdgesKept, OutOfDate, EdgeUnderWay, IrqSlot, irqVars
  <2>6. QED BY <2>2, <2>3, <2>4, <2>5 DEF IInv
<1>7. QED BY <1>1, <1>2, <1>3, <1>4, <1>5, <1>6 DEF Next

\* The inductive invariant of timers, slots, daemon and edges always holds.
THEOREM Invariant == Spec => []IInv
BY InitInvariant, StepInvariant, PTL DEF Spec

\* Every variable of the soft timers, the buttons, the daemon and the interrupt
\* keeps its type; dal_button_poll's count never reaches the threshold.
THEOREM TypeCorrect == Spec => []TypeOK
<1>1. IInv => TypeOK
  BY DEF IInv
<1>2. QED BY <1>1, Invariant, PTL

\* Whatever step of wink_button_events_irq_arm fails, whoever disables what and
\* in which callback, no timer leaks and none serves two buttons.
THEOREM NoTimerLeaks == Spec => []TimersAreOwned
<1>1. IInv => TimersAreOwned
  <2> SUFFICES ASSUME IInv PROVE TimersAreOwned
    OBVIOUS
  <2> USE DEF IInv
  <2>1. ASSUME NEW h \in Handles
        PROVE  timers[h].cb \notin {"free", "other"} <=> \E i \in Slots : h \in Owned(slots[i])
    <3>1. ASSUME timers[h].cb \notin {"free", "other"}
          PROVE  \E i \in Slots : h \in Owned(slots[i])
      <4>1. timers[h].cb \in {"debounce", "longpress", "poll"} /\ h # -1
        BY <3>1 DEF TypeOK, Handles
      <4>2. QED BY <4>1 DEF TableOK, TimersNamed, Named, Owned
    <3>2. ASSUME NEW i \in Slots, h \in Owned(slots[i])
          PROVE  timers[h].cb \notin {"free", "other"}
      BY <3>2, OwnedNames
    <3>3. QED BY <3>1, <3>2
  <2>2. ASSUME NEW i \in Slots, NEW j \in Slots, i # j
        PROVE  Owned(slots[i]) \cap Owned(slots[j]) = {}
    <3>1. Owned(slots[i]) \subseteq Handles
      BY DEF Owned, TypeOK
    <3>2. QED BY <2>2, <3>1, OwnedApart
  <2>3. ASSUME NEW i \in Slots, slots[i].drive = "irq"
        PROVE  /\ timers[slots[i].debounceH].cb = "debounce" /\ timers[slots[i].debounceH].arg = i
               /\ timers[slots[i].longpressH].cb = "longpress" /\ timers[slots[i].longpressH].arg = i
    BY <2>3 DEF TableOK, SlotsServed, Served
  <2>4. QED BY <2>1, <2>2, <2>3 DEF TimersAreOwned
<1>2. QED BY <1>1, Invariant, PTL

\* When dal_button_gpio_isr, the daemon task and the debounce timer are all at
\* rest, the last event of an IRQ-driven button that moved says where it is.
THEOREM EdgesAreSeen == Spec => []NoEdgeForgotten
<1>1. IInv => NoEdgeForgotten
  <2> SUFFICES ASSUME IInv, NEW i \in Slots, slots[i].drive = "irq",
                      slots[i].btn \in edged \ missed,
                      isr = None, slots[i].btn \notin latched, ~sem, daemon.pc = "wait",
                      ~timers[slots[i].debounceH].active
               PROVE  slots[i].last = (slots[i].btn \in pin)
    BY DEF NoEdgeForgotten
  <2>1. ~EdgeUnderWay(i)
    BY DEF EdgeUnderWay
  <2>2. ~OutOfDate(i)
    BY <2>1 DEF IInv, EdgesKept
  <2>3. QED BY <2>2 DEF OutOfDate, IrqSlot
<1>2. QED BY <1>1, Invariant, PTL
-----------------------------------------------------------------------------
(* Events in order.                                                        *)

\* the loop has passed timer h in this pass
Past(h) ==
  \/ pc = "sleep"
  \/ pc \in {"load", "store", "call", "finish"} /\ ti > h
  \/ pc \in {"call", "finish"} /\ ti = h

\* the long-press timer h, a ticks after the press: it will not expire early
Timed(h, a) ==
  /\ timers[h].active => timers[h].left + a >= IF Past(h) THEN LongPress - 1 ELSE LongPress
  /\ pc = "store" /\ ti = h => seen + a >= LongPress
  /\ pc = "call" /\ ti = h => a >= LongPress - 1

\* slot s of button b knows the last event
Known(s, b) ==
  /\ evt[b] = "PRESS"   => s.last /\ ~s.fired
  /\ evt[b] = "LONG"    => s.last /\ s.fired
  /\ evt[b] = "RELEASE" => ~s.last

\* so does the driver of a button that is polled
Followed(s, d) == d.stable = s.last /\ d.prev = s.last /\ d.fired = s.fired

InStep(i) == LET s == slots[i]  b == s.btn IN
  b # None =>
    /\ Known(s, b)
    /\ s.drive = "poll" => /\ Followed(s, dal[b])
                           /\ evt[b] = "PRESS" => dal[b].held = age[b]
    /\ s.drive = "irq" /\ evt[b] = "PRESS" => Timed(s.longpressH, age[b])

\* no events of a button without a stream
Silent == \A b \in Buttons : (\A i \in Slots : slots[i].btn # b) => evt[b] = "NONE"

Streams == Silent /\ \A i \in Slots : InStep(i)

\* the loop is no further at timer h than it was, or has just loaded or stored it
Meanwhile(h) ==
  /\ Past(h) => Past(h)'
  /\ pc' = "store" /\ ti' = h =>
       \/ pc = "store" /\ ti = h /\ seen' = seen
       \/ pc = "load" /\ ti = h /\ timers[h].active /\ seen' = timers[h].left
  /\ pc' = "call" /\ ti' = h =>
       \/ pc = "call" /\ ti = h
       \/ pc = "store" /\ ti = h /\ seen <= 1

\* timer h is as it was, off, started afresh, or one tick on
RunsOn(h) ==
  \/ timers'[h] = timers[h]
  \/ ~timers'[h].active
  \/ timers'[h].left = LongPress
  \/ pc = "store" /\ ti = h /\ timers'[h].left >= seen - 1 /\ Past(h)'

\* what a stream goes by in the driver's record
SameDriver(d, e) ==
  d.stable = e.stable /\ d.prev = e.prev /\ d.fired = e.fired /\ d.held = e.held

\* A long-press timer that runs on is no less on time than it was.
LEMMA TimedStays ==
  ASSUME TypeOK, TypeOK', NEW h \in Handles, NEW a \in 0 .. LongPress, Timed(h, a),
         Meanwhile(h), RunsOn(h)
  PROVE  Timed(h, a)'
<1>1. /\ timers[h].left \in Int /\ timers'[h].left \in Int /\ seen \in Int /\ seen' \in Int
      /\ a \in Int /\ a >= 0 /\ LongPress \in Int
  BY DEF TypeOK
<1>2. timers'[h].active => timers'[h].left + a >= IF Past(h)' THEN LongPress - 1 ELSE LongPress
  <2>1. CASE timers'[h] = timers[h]
    BY <1>1, <2>1 DEF Timed, Meanwhile
  <2>2. CASE timers'[h].left = LongPress
    BY <1>1, <2>2
  <2>3. CASE pc = "store" /\ ti = h /\ timers'[h].left >= seen - 1 /\ Past(h)'
    <3>1. seen + a >= LongPress
      BY <2>3 DEF Timed
    <3>2. timers'[h].left + a >= LongPress - 1
      BY <1>1, <2>3, <3>1
    <3> QED BY <2>3, <3>2
  <2> QED BY <2>1, <2>2, <2>3 DEF RunsOn
<1>3. pc' = "store" /\ ti' = h => seen' + a >= LongPress
  <2>1. ASSUME pc = "load", ti = h, timers[h].active
        PROVE  timers[h].left + a >= LongPress
    <3>1. ~Past(h)
      BY <1>1, <2>1 DEF Past, Handles
    <3> QED BY <2>1, <3>1 DEF Timed
  <2> QED BY <2>1 DEF Timed, Meanwhile
<1>4. pc' = "call" /\ ti' = h => a >= LongPress - 1
  <2>1. ASSUME pc = "store", ti = h, seen <= 1
        PROVE  a >= LongPress - 1
    <3>1. seen + a >= LongPress
      BY <2>1 DEF Timed
    <3> QED BY <1>1, <2>1, <3>1
  <2> QED BY <2>1 DEF Timed, Meanwhile
<1> QED BY <1>2, <1>3, <1>4 DEF Timed

\* A step in which nothing happens to the stream of slot j.
LEMMA InStepStays ==
  ASSUME IInv, IInv', NEW j \in Slots, InStep(j), slots'[j] = slots[j],
         slots[j].btn # None =>
           /\ evt'[slots[j].btn] = evt[slots[j].btn] /\ age'[slots[j].btn] = age[slots[j].btn]
           /\ SameDriver(dal'[slots[j].btn], dal[slots[j].btn]),
         IrqSlot(j) => \A h \in Handles : h = slots[j].longpressH => Meanwhile(h) /\ RunsOn(h)
  PROVE  InStep(j)'
<1> SUFFICES ASSUME slots[j].btn # None
             PROVE  InStep(j)'
  BY DEF InStep
<1>0. TypeOK /\ TypeOK' /\ slots[j].btn \in Buttons
  BY DEF IInv, TypeOK
<1> DEFINE b == slots[j].btn
<1>1. Known(slots[j], b)' /\ (slots[j].drive = "poll" =>
        Followed(slots[j], dal[b])' /\ (evt'[b] = "PRESS" => dal'[b].held = age'[b]))
  BY DEF InStep, Known, Followed, SameDriver
<1>2. ASSUME IrqSlot(j), evt[b] = "PRESS"
      PROVE  Timed(slots[j].longpressH, age[b])'
  <2>1. slots[j].longpressH \in Handles
    BY <1>0, <1>2 DEF IInv, TableOK, SlotsServed, Served, IrqSlot, TypeOK
  <2>2. age[b] \in 0 .. LongPress
    BY <1>0 DEF TypeOK
  <2>3. Timed(slots[j].longpressH, age[b])
    BY <1>2 DEF InStep, IrqSlot
  <2>4. \A h \in Handles : \A a \in 0 .. LongPress :
          h = slots[j].longpressH /\ a = age[b] => Timed(h, a)'
    BY <1>0, <1>2, <2>3, TimedStays
  <2>5. slots'[j].longpressH = slots[j].longpressH /\ age'[slots'[j].btn] = age[b]
    OBVIOUS
  <2> QED BY <2>1, <2>2, <2>4, <2>5 DEF Timed, Past
<1> QED BY <1>1, <1>2 DEF InStep, IrqSlot

\* A step in which nothing happens to any stream.
LEMMA StreamsStay ==
  ASSUME IInv, IInv', Streams, UNCHANGED <<slots, evt, age>>,
         \A b \in Buttons : (\E i \in Slots : slots[i].btn = b) => SameDriver(dal'[b], dal[b]),
         \A h \in Handles : timers[h].cb = "longpress" => Meanwhile(h) /\ RunsOn(h)
  PROVE  Streams'
<1>1. Silent'
  BY DEF Streams, Silent
<1>2. ASSUME NEW j \in Slots
      PROVE  InStep(j)'
  <2>1. slots[j].btn # None => slots[j].btn \in Buttons
    BY DEF IInv, TypeOK
  <2>2. slots[j].btn # None => SameDriver(dal'[slots[j].btn], dal[slots[j].btn])
    BY <2>1
  <2>3. IrqSlot(j) => timers[slots[j].longpressH].cb = "longpress"
    BY DEF IInv, TableOK, SlotsServed, Served, IrqSlot
  <2>4. InStep(j)
    BY DEF Streams
  <2> QED BY <2>2, <2>3, <2>4, InStepStays
<1> QED BY <1>1, <1>2 DEF Streams

\* A step that leaves the main loop where it is.
LEMMA LoopStands ==
  ASSUME IInv, IInv', Streams, UNCHANGED <<slots, evt, age, pc, ti, seen>>,
         \A b \in Buttons : (\E i \in Slots : slots[i].btn = b) => SameDriver(dal'[b], dal[b]),
         \A h \in Handles : timers[h].cb = "longpress" => RunsOn(h)
  PROVE  Streams'
<1>1. \A h \in Handles : Meanwhile(h)
  BY DEF Meanwhile, Past
<1> QED BY <1>1, StreamsStay

\* The loop goes on to the next timer.
LEMMA NextTimerPasses ==
  ASSUME TypeOK, NextTimer, pc \in {"load", "store", "call", "finish"}, NEW h \in Handles
  PROVE  /\ Meanwhile(h)
         /\ h = ti => Past(h)'
<1>1. ti \in Int /\ h \in Int
  BY DEF TypeOK, Handles
<1>2. pc' = "sleep" \/ (pc' = "load" /\ ti' = ti + 1)
  BY DEF NextTimer
<1>3. Past(h) => Past(h)'
  BY <1>1, <1>2 DEF Past
<1>4. h = ti => Past(h)'
  BY <1>1, <1>2 DEF Past
<1>5. pc' \notin {"store", "call"}
  BY <1>2
<1> QED BY <1>3, <1>4, <1>5 DEF Meanwhile

\* The steps of the main loop between callbacks.
LEMMA LoopInStep ==
  IInv /\ IInv' /\ Streams /\ (StartPass \/ Load \/ Store \/ Reread \/ Finish) => Streams'
<1> SUFFICES ASSUME IInv, IInv', Streams, StartPass \/ Load \/ Store \/ Reread \/ Finish
             PROVE  Streams'
  OBVIOUS
<1>0. TypeOK /\ TypeOK' /\ ti \in Handles /\ seen \in Int
  BY DEF IInv, TypeOK
<1>1. /\ UNCHANGED <<slots, evt, age>>
      /\ \A b \in Buttons : SameDriver(dal'[b], dal[b])
  BY DEF StartPass, Load, Store, Reread, Finish, SameDriver, evtVars
<1>2. \A h \in Handles : timers[h].cb = "longpress" => Meanwhile(h) /\ RunsOn(h)
  <2>1. CASE StartPass
    <3>1. \A h \in Handles : Meanwhile(h)
      BY <2>1 DEF StartPass, Meanwhile, Past
    <3> QED BY <2>1, <3>1 DEF StartPass, RunsOn
  <2>2. CASE Load
    <3>1. CASE timers[ti].active
      <4>1. pc = "load" /\ pc' = "store" /\ ti' = ti /\ seen' = timers[ti].left
        BY <2>2, <3>1 DEF Load
      <4>2. \A h \in Handles : Meanwhile(h)
        BY <3>1, <4>1 DEF Meanwhile, Past
      <4> QED BY <2>2, <4>2 DEF Load, RunsOn
    <3>2. CASE ~timers[ti].active
      BY <1>0, <2>2, <3>2, NextTimerPasses DEF Load, RunsOn
    <3> QED BY <3>1, <3>2
  <2>3. CASE Store
    <3>1. pc = "store" /\ \A h \in Handles \ {ti} : timers'[h] = timers[h]
      BY <1>0, <2>3 DEF Store, TypeOK
    <3>2. timers'[ti].left >= seen - 1
      <4>1. timers'[ti].left = IF seen > 0 THEN seen - 1 ELSE 0
        BY <1>0, <2>3 DEF Store, TypeOK
      <4> QED BY <1>0, <4>1
    <3>3. CASE seen > 1
      <4>1. NextTimer
        BY <2>3, <3>3 DEF Store
      <4>2. \A h \in Handles : Meanwhile(h) /\ (h = ti => Past(h)')
        BY <1>0, <3>1, <4>1, NextTimerPasses
      <4> QED BY <3>1, <3>2, <4>2 DEF RunsOn
    <3>4. CASE ~(seen > 1)
      <4>1. pc' = "call" /\ ti' = ti /\ seen <= 1
        BY <1>0, <2>3, <3>4 DEF Store
      <4>2. \A h \in Handles : Meanwhile(h) /\ (h = ti => Past(h)')
        BY <3>1, <4>1 DEF Meanwhile, Past
      <4> QED BY <3>1, <3>2, <4>2 DEF RunsOn
    <3> QED BY <3>3, <3>4
  <2>4. CASE Reread
    BY <1>0, <2>4, NextTimerPasses DEF Reread, RunsOn
  <2>5. CASE Finish
    <3>1. \A h \in Handles : Meanwhile(h)
      BY <1>0, <2>5, NextTimerPasses DEF Finish
    <3>2. ASSUME NEW h \in Handles, timers[h].cb = "longpress"
          PROVE  RunsOn(h)
      <4>1. CASE h = ti
        <5>1. timers' = [timers EXCEPT ![ti].active = FALSE]
          BY <2>5, <3>2, <4>1 DEF Finish, OneShot
        <5> QED BY <1>0, <4>1, <5>1 DEF RunsOn, TypeOK
      <4>2. CASE h # ti
        BY <1>0, <2>5, <4>2 DEF Finish, RunsOn, TypeOK
      <4> QED BY <4>1, <4>2
    <3> QED BY <3>1, <3>2
  <2> QED BY <2>1, <2>2, <2>3, <2>4, <2>5
<1> QED BY <1>1, <1>2, StreamsStay

\* The finger, the interrupt and the daemon: a long-press timer they stop or
\* start is only later.
LEMMA OutsideInStep ==
  IInv /\ IInv' /\ Streams /\ (Isr \/ Daemon \/ Finger) => Streams'
<1> SUFFICES ASSUME IInv, IInv', Streams, Isr \/ Daemon \/ Finger
             PROVE  Streams'
  OBVIOUS
<1>0. TypeOK /\ DaemonInPlace
  BY DEF IInv
<1>1. UNCHANGED <<slots, evt, age, pc, ti, seen>>
  BY DEF Isr, Daemon, Finger, Flip, IsrMark, IsrGive, DaemonTake, DaemonScan, DaemonRecheck,
         DaemonStop, DaemonStart, evtVars, mainVars
<1>2. \A b \in Buttons : SameDriver(dal'[b], dal[b])
  <2>1. CASE \E c \in Buttons : IsrMark(c)
    BY <1>0, <2>1 DEF IsrMark, SameDriver, TypeOK
  <2>2. CASE DaemonScan
    <3>1. \/ dal' = dal
          \/ dal' = [dal EXCEPT ![slots[daemon.i].btn] = [dal[slots[daemon.i].btn] EXCEPT !.pending = FALSE]]
      BY <2>2 DEF DaemonScan
    <3> QED BY <1>0, <3>1 DEF SameDriver, TypeOK
  <2>3. CASE dal' = dal
    BY <2>3 DEF SameDriver
  <2> QED BY <2>1, <2>2, <2>3 DEF Isr, Daemon, Finger, Flip, IsrGive, DaemonTake, DaemonRecheck,
                                  DaemonStop, DaemonStart
<1>3. \A h \in Handles : timers[h].cb = "longpress" => RunsOn(h)
  <2>1. CASE DaemonStop
    <3>1. timers' = [timers EXCEPT ![daemon.h].active = FALSE]
      BY <2>1 DEF DaemonStop, Stopped
    <3> QED BY <1>0, <3>1 DEF RunsOn, TypeOK
  <2>2. CASE DaemonStart
    <3>1. timers' = Started(timers, daemon.h)
      BY <2>2 DEF DaemonStart
    <3>2. timers' = timers \/
          timers' = [timers EXCEPT ![daemon.h].left = Period(timers[daemon.h].cb), ![daemon.h].active = TRUE]
      BY <3>1 DEF Started
    <3> QED BY <1>0, <3>2 DEF RunsOn, TypeOK, Period
  <2>3. CASE timers' = timers
    BY <2>3 DEF RunsOn
  <2> QED BY <2>1, <2>2, <2>3 DEF Isr, Daemon, Finger, Flip, IsrMark, IsrGive, DaemonTake, DaemonScan,
                                  DaemonRecheck
<1> QED BY <1>1, <1>2, <1>3, LoopStands

\* A tick: the press and the timers are one tick older.
LEMMA SleepInStep == IInv /\ IInv' /\ Streams /\ Sleep => Streams'
<1> SUFFICES ASSUME IInv, IInv', Streams, Sleep
             PROVE  Streams'
  OBVIOUS
<1>0. TypeOK /\ TypeOK'
  BY DEF IInv
<1>1. /\ UNCHANGED <<timers, slots, evt, ti, seen>> /\ pc = "sleep" /\ pc' = "app"
      /\ \A b \in Buttons : age'[b] = IF evt[b] = "PRESS" THEN Older(age[b]) ELSE 0
  BY DEF Sleep
<1>2. \A b \in Buttons : /\ dal'[b].stable = dal[b].stable /\ dal'[b].prev = dal[b].prev
                         /\ dal'[b].fired = dal[b].fired
                         /\ dal'[b].held = Older(dal[b].held)
  BY <1>0 DEF Sleep, TypeOK
<1>3. Silent'
  BY <1>1 DEF Streams, Silent
<1>4. ASSUME NEW j \in Slots
      PROVE  InStep(j)'
  <2> SUFFICES ASSUME slots[j].btn # None
               PROVE  InStep(j)'
    BY <1>1 DEF InStep
  <2> DEFINE b == slots[j].btn
  <2>1. b \in Buttons /\ InStep(j)
    BY <1>0 DEF TypeOK, Streams
  <2>2. Known(slots[j], b)'
    BY <1>1, <2>1 DEF InStep, Known
  <2>3. slots[j].drive = "poll" =>
          Followed(slots[j], dal[b])' /\ (evt'[b] = "PRESS" => dal'[b].held = age'[b])
    BY <1>1, <1>2, <2>1 DEF InStep, Followed
  <2>4. ASSUME slots[j].drive = "irq", evt[b] = "PRESS"
        PROVE  Timed(slots[j].longpressH, age[b])'
    <3> DEFINE h == slots[j].longpressH
    <3>1. Timed(h, age[b]) /\ h \in Handles
      BY <2>1, <2>4 DEF InStep, IInv, TableOK, SlotsServed, Served, TypeOK
    <3>2. /\ timers[h].active => timers[h].left + age[b] >= LongPress - 1
          /\ timers[h].left \in Nat /\ age[b] \in 0 .. LongPress /\ LongPress \in Nat
      BY <1>0, <1>1, <2>1, <3>1 DEF Timed, Past, TypeOK
    <3>3. age'[b] = Older(age[b])
      BY <1>1, <2>1, <2>4
    <3>4. timers[h].active => timers[h].left + age'[b] >= LongPress
      BY <3>2, <3>3 DEF Older
    <3> QED BY <1>1, <3>4 DEF Timed, Past
  <2> QED BY <1>1, <2>2, <2>3, <2>4 DEF InStep
<1> QED BY <1>3, <1>4 DEF Streams

\* What the verdict of a callback says of the stream it is about.
LEMMA VerdictSays ==
  ASSUME IInv, Streams, pc = "call"
  PROVE  LET s == slots[SlotAt]  b == ButtonAt  p == Polled(dal[b], b \in pin) IN
         /\ Verdict = "PRESS"   => ~s.last
         /\ Verdict = "RELEASE" => s.last
         /\ Verdict = "LONG"    => /\ s.last /\ ~s.fired
                                   /\ evt[b] = "PRESS" => age[b] >= LongPress - 1
         /\ s.drive = "poll" =>
              /\ p.prev = s.last /\ p.fired = s.fired /\ p.held = dal[b].held
              /\ p.stable = IF Verdict \in {"PRESS", "RELEASE"} THEN Verdict = "PRESS" ELSE s.last
         /\ s.drive = "irq" => timers[ti].cb # "poll"
<1> DEFINE i == SlotAt
           s == slots[i]
           b == ButtonAt
           p == Polled(dal[b], b \in pin)
<1>1. /\ i \in Slots /\ b \in Buttons /\ b # None /\ s.btn = b
      /\ timers[ti].cb = "poll" => s.drive = "poll"
      /\ timers[ti].cb = "debounce" => s.drive = "irq"
      /\ timers[ti].cb = "longpress" => s.drive = "irq" /\ s.longpressH = ti
      /\ timers[ti].cb \in {"debounce", "longpress", "poll"}
  BY CallbackServes DEF ButtonAt, IrqSlot
<1>2. InStep(i) /\ s.last \in BOOLEAN /\ s.fired \in BOOLEAN
  BY <1>1 DEF Streams, IInv, TypeOK
<1>3. CASE timers[ti].cb = "debounce"
  <2>1. Verdict = IF (b \in pin) = s.last THEN "NONE" ELSE IF b \in pin THEN "PRESS" ELSE "RELEASE"
    BY <1>3 DEF Verdict
  <2> HIDE DEF i, b
  <2>2. (b \in pin) = s.last <=> (b \in pin <=> s.last)
    BY <1>2
  <2>3. /\ Verdict = "PRESS" => ~s.last
        /\ Verdict = "RELEASE" => s.last
        /\ Verdict # "LONG"
    BY <2>1, <2>2
  <2> QED BY <1>1, <1>3, <2>3 DEF i, b
<1>4. CASE timers[ti].cb = "longpress"
  <2>1. Verdict = IF s.last /\ ~s.fired THEN "LONG" ELSE "NONE"
    BY <1>4 DEF Verdict
  <2>2. evt[b] = "PRESS" => age[b] >= LongPress - 1
    BY <1>1, <1>2, <1>4 DEF InStep, Timed
  <2> QED BY <1>1, <1>4, <2>1, <2>2
<1>5. CASE timers[ti].cb = "poll"
  <2>1. Verdict = PollVerdict(p)
    BY <1>5 DEF Verdict
  <2>2. /\ dal[b].stable = s.last /\ dal[b].prev = s.last /\ dal[b].fired = s.fired
        /\ evt[b] = "PRESS" => dal[b].held = age[b]
    BY <1>1, <1>2, <1>5 DEF InStep, Followed
  <2>3. dal[b] \in DriverSet /\ (b \in pin) \in BOOLEAN /\ age[b] \in Nat /\ LongPress \in Nat
    BY <1>1 DEF IInv, TypeOK, DriverSet
  <2> HIDE DEF i, b
  <2>4. /\ p.prev = dal[b].prev /\ p.fired = dal[b].fired /\ p.held = dal[b].held
        /\ p \in DriverSet
    <3>1. p \in DriverSet
      BY <2>3, DriverTypes DEF Events
    <3> QED BY <2>3, <3>1 DEF Polled, DriverSet
  <2>5. p.stable \in BOOLEAN
    BY <2>4 DEF DriverSet
  <2>6. /\ Verdict = "PRESS"   <=> p.stable /\ ~p.prev
        /\ Verdict = "RELEASE" <=> ~p.stable /\ p.prev
        /\ Verdict = "LONG" => p.stable /\ p.prev /\ ~p.fired /\ p.held >= LongPress
    <3>1. p.prev \in BOOLEAN /\ (p.stable # p.prev <=> ~(p.stable <=> p.prev))
      BY <1>2, <2>2, <2>4, <2>5
    <3>2. CASE p.stable # p.prev
      <4>1. Verdict = IF p.stable THEN "PRESS" ELSE "RELEASE"
        BY <2>1, <3>2 DEF PollVerdict
      <4> QED BY <3>1, <3>2, <4>1
    <3>3. CASE p.stable = p.prev
      <4>1. Verdict = IF p.stable /\ ~p.fired /\ p.held >= LongPress THEN "LONG" ELSE "NONE"
        BY <2>1, <3>3 DEF PollVerdict
      <4> QED BY <3>1, <3>3, <4>1
    <3> QED BY <3>2, <3>3
  <2>7. /\ Verdict = "PRESS"   => ~s.last
        /\ Verdict = "RELEASE" => s.last
        /\ Verdict = "LONG"    => s.last /\ ~s.fired /\ (evt[b] = "PRESS" => age[b] >= LongPress - 1)
    BY <1>2, <2>2, <2>3, <2>4, <2>6
  <2>8. p.stable = IF Verdict \in {"PRESS", "RELEASE"} THEN Verdict = "PRESS" ELSE s.last
    <3>1. CASE Verdict = "PRESS"
      BY <2>5, <2>6, <3>1
    <3>2. CASE Verdict = "RELEASE"
      BY <2>5, <2>6, <3>2
    <3>3. CASE Verdict \notin {"PRESS", "RELEASE"}
      <4>1. p.prev \in BOOLEAN /\ p.prev = s.last
        BY <1>2, <2>2, <2>4
      <4>2. p.stable <=> p.prev
        BY <2>6, <3>3, <4>1
      <4> QED BY <2>5, <3>3, <4>1, <4>2
    <3> QED BY <3>1, <3>2, <3>3
  <2> QED BY <1>1, <1>5, <2>2, <2>4, <2>7, <2>8 DEF i, b
<1> QED BY <1>1, <1>3, <1>4, <1>5

\* A step of the application or of a callback about the stream of one slot, and
\* in which the loop passes nothing.
LEMMA OthersStay ==
  ASSUME IInv, IInv', Streams, NEW i \in Slots, NEW b \in Buttons,
         \A j \in Slots \ {i} : slots[j].btn # b, slots[i].btn \in {None, b},
         \A j \in Slots \ {i} : slots'[j] = slots[j],
         \A c \in Buttons \ {b} : evt'[c] = evt[c] /\ age'[c] = age[c] /\ dal'[c] = dal[c],
         \A h \in Handles : timers[h].cb = "longpress" /\ h # slots[i].longpressH => timers'[h] = timers[h],
         UNCHANGED <<ti, seen>>, pc' \in {"app", "finish"},
         pc' = pc \/ (pc = "call" /\ pc' = "finish"),
         slots'[i].btn \in {None, b}, slots'[i].btn = None => evt'[b] = "NONE",
         InStep(i)'
  PROVE  Streams'
<1>1. \A h \in Handles : Meanwhile(h)
  BY DEF Meanwhile, Past
<1>2. Silent'
  <2> SUFFICES ASSUME NEW c \in Buttons, \A j \in Slots : slots'[j].btn # c
               PROVE  evt'[c] = "NONE"
    BY DEF Silent
  <2>1. CASE c = b
    BY <2>1
  <2>2. CASE c # b
    <3>1. \A j \in Slots : slots[j].btn # c
      BY <2>2
    <3> QED BY <2>2, <3>1 DEF Streams, Silent
  <2> QED BY <2>1, <2>2
<1>3. ASSUME NEW j \in Slots \ {i}
      PROVE  InStep(j)'
  <2>1. slots[j].btn # None => slots[j].btn \in Buttons \ {b}
    BY DEF IInv, TypeOK
  <2>2. slots[j].btn # None =>
          /\ evt'[slots[j].btn] = evt[slots[j].btn] /\ age'[slots[j].btn] = age[slots[j].btn]
          /\ SameDriver(dal'[slots[j].btn], dal[slots[j].btn])
    BY <2>1 DEF SameDriver
  <2>3. IrqSlot(j) => /\ timers[slots[j].longpressH].cb = "longpress"
                      /\ timers[slots[j].longpressH].arg = j
    BY DEF IInv, TableOK, SlotsServed, Served, IrqSlot
  <2>4. IrqSlot(j) => slots[j].longpressH # slots[i].longpressH
    <3>1. ASSUME IrqSlot(j), slots[j].longpressH = slots[i].longpressH
          PROVE  FALSE
      <4>1. slots[j].longpressH \in Handles /\ slots[j].longpressH # -1
        BY <3>1 DEF IInv, TableOK, SlotsServed, Served, IrqSlot, TypeOK
      <4>2. slots[j].longpressH \in Owned(slots[j]) /\ slots[j].longpressH \in Owned(slots[i])
        BY <3>1, <4>1 DEF Owned
      <4> QED BY <4>1, <4>2, OwnedApart DEF IInv
    <3> QED BY <3>1
  <2>5. IrqSlot(j) => \A h \in Handles : h = slots[j].longpressH => Meanwhile(h) /\ RunsOn(h)
    BY <1>1, <2>3, <2>4 DEF RunsOn
  <2> QED BY <2>2, <2>5, InStepStays DEF Streams
<1> QED BY <1>2, <1>3 DEF Streams

\* Disabling ends a stream, whoever asks for it.
LEMMA DisablingInStep ==
  ASSUME IInv, IInv', Streams, NEW b \in Buttons, NEW i \in Slots, slots[i].btn = b,
         NEW d, DisableFrom(b, i, timers, d),
         UNCHANGED <<ti, seen>>, pc' \in {"app", "finish"},
         pc' = pc \/ (pc = "call" /\ pc' = "finish")
  PROVE  Streams'
<1>1. \A j \in Slots \ {i} : slots[j].btn # b
  BY DEF IInv, TableOK, OneStream
<1>2. /\ slots'[i] = FreeSlot /\ \A j \in Slots \ {i} : slots'[j] = slots[j]
      /\ evt'[b] = "NONE"
      /\ \A c \in Buttons \ {b} : evt'[c] = evt[c] /\ age'[c] = age[c] /\ dal'[c] = dal[c]
  BY DEF DisableFrom, IInv, TypeOK
<1>3. \A h \in Handles : timers'[h] = IF h \in Owned(slots[i]) THEN FreeTimer ELSE timers[h]
  BY DEF DisableFrom, Destroyed
<1>4. ASSUME NEW h \in Handles, timers[h].cb = "longpress", h # slots[i].longpressH
      PROVE  timers'[h] = timers[h]
  <2>1. ASSUME h \in Owned(slots[i])
        PROVE  FALSE
    <3>1. h # -1 /\ slots[i].drive \in {"irq", "poll"} /\ b # None
      <4>1. h # -1
        BY DEF Handles
      <4>2. b # None
        OBVIOUS
      <4>3. slots[i].drive \in {"irq", "poll"}
        BY DEF IInv, TypeOK
      <4> QED BY <4>1, <4>2, <4>3
    <3>2. h = slots[i].debounceH \/ h = slots[i].pollH
      BY <1>4, <2>1 DEF Owned
    <3> QED BY <1>4, <3>1, <3>2 DEF IInv, TableOK, SlotsServed, Served
  <2> QED BY <1>3, <2>1
<1>5. slots'[i].btn = None /\ InStep(i)'
  BY <1>2 DEF FreeSlot, InStep
<1> QED BY <1>1, <1>2, <1>4, <1>5, OthersStay

\* A callback reports, and the stream is in step with its event.
LEMMA CallInStep == IInv /\ IInv' /\ Streams /\ Call => Streams'
<1> SUFFICES ASSUME IInv, IInv', Streams, Call
             PROVE  Streams'
  OBVIOUS
<1>a. PICK i : i = SlotAt
  OBVIOUS
<1>b. PICK b : b = ButtonAt
  OBVIOUS
<1>e. PICK e : e = Verdict
  OBVIOUS
<1>s. PICK s : s = slots[i]
  OBVIOUS
<1>p. PICK p : p = Polled(dal[b], b \in pin)
  OBVIOUS
<1>d. PICK d : d = IF timers[ti].cb = "poll" THEN Driven(p, e) ELSE dal[b]
  OBVIOUS
<1>1. pc = "call" /\ pc' = "finish" /\ UNCHANGED <<ti, seen>>
  BY DEF Call
<1>2. /\ i \in Slots /\ b \in Buttons /\ b # None /\ e \in Events /\ s.btn = b
      /\ timers[ti].cb = "poll" => s.drive = "poll"
      /\ s.drive = "poll" => timers[ti].cb = "poll"
  BY <1>1, <1>a, <1>b, <1>e, <1>s, CallbackServes DEF ButtonAt, IrqSlot
<1>3. /\ e = "PRESS"   => ~s.last
      /\ e = "RELEASE" => s.last
      /\ e = "LONG"    => s.last /\ ~s.fired
      /\ s.drive = "poll" =>
           /\ p.prev = s.last /\ p.fired = s.fired /\ p.held = dal[b].held
           /\ p.stable = IF e \in {"PRESS", "RELEASE"} THEN e = "PRESS" ELSE s.last
  BY <1>1, <1>a, <1>b, <1>e, <1>s, <1>p, VerdictSays
<1>4. InStep(i) /\ s \in SlotRecord /\ s.last \in BOOLEAN /\ s.fired \in BOOLEAN
  BY <1>2, <1>s DEF Streams, IInv, TypeOK, SlotRecord
<1>5. CASE e # "NONE" /\ DisableFrom(b, i, timers, d)
  BY <1>1, <1>2, <1>5, <1>s, DisablingInStep
<1>6. CASE /\ timers' = Rearmed(timers, slots[i], e)
           /\ slots' = [slots EXCEPT ![i] = Reported(slots[i], e)]
           /\ dal' = [dal EXCEPT ![b] = d]
           /\ IF e = "NONE" THEN UNCHANGED evtVars
              ELSE evt' = [evt EXCEPT ![b] = e] /\ age' = [age EXCEPT ![b] = 0]
           /\ UNCHANGED <<latched, edged, missed>>
  <2>d. /\ s.drive = "poll" => d = Driven(p, e)
        /\ s.drive = "poll" => p \in DriverSet
    <3>1. dal[b] \in DriverSet /\ (b \in pin) \in BOOLEAN
      BY <1>2 DEF IInv, TypeOK, DriverSet
    <3> QED BY <1>2, <1>p, <1>d, <3>1, DriverTypes
  <2>0. /\ slots \in SlotSet /\ dal \in DalSet /\ timers \in TimerSet
        /\ evt \in [Buttons -> Events] /\ age \in [Buttons -> 0 .. LongPress]
    BY DEF IInv, TypeOK, SlotSet, SlotRecord, DalSet, TimerSet
  <2>1. slots'[i] = Reported(s, e) /\ \A j \in Slots \ {i} : slots'[j] = slots[j]
    BY <1>2, <1>6, <1>s, <2>0 DEF SlotSet
  <2>2. dal'[b] = d /\ \A c \in Buttons \ {b} : dal'[c] = dal[c]
    BY <1>2, <1>6, <2>0 DEF DalSet
  <2>3. /\ \A c \in Buttons \ {b} : evt'[c] = evt[c] /\ age'[c] = age[c]
        /\ e = "NONE" => evt'[b] = evt[b] /\ age'[b] = age[b]
        /\ e # "NONE" => evt'[b] = e /\ age'[b] = 0
    BY <1>2, <1>6, <2>0 DEF evtVars
  <2>4. \A j \in Slots \ {i} : slots[j].btn # b
    BY <1>2, <1>s DEF IInv, TableOK, OneStream
  <2>5. s.drive = "irq" => /\ s.longpressH \in Handles /\ timers[s.longpressH].cb = "longpress"
    BY <1>2, <1>s DEF IInv, TableOK, SlotsServed, Served, TypeOK
  <2>6. \A h \in Handles : h # s.longpressH => timers'[h] = timers[h]
    <3>1. Rearmed(timers, s, e) \in {timers, Started(timers, s.longpressH), Stopped(timers, s.longpressH)}
      BY DEF Rearmed
    <3>2. timers' = Rearmed(timers, s, e)
      BY <1>6, <1>s
    <3>3. CASE timers' = timers
      BY <3>3
    <3>4. CASE timers' = Started(timers, s.longpressH)
      BY <2>0, <3>4 DEF Started, TimerSet
    <3>5. CASE timers' = Stopped(timers, s.longpressH)
      BY <2>0, <3>5 DEF Stopped, TimerSet
    <3> QED BY <3>1, <3>2, <3>3, <3>4, <3>5
  <2>7. Reported(s, e).btn = b /\ Reported(s, e).drive = s.drive /\ Reported(s, e).longpressH = s.longpressH
    BY <1>2, <1>4 DEF Reported, SlotRecord, Events
  <2>8. InStep(i)'
    <3>1. CASE e = "NONE"
      <4>1. Reported(s, e) = s /\ timers' = timers
        BY <1>6, <1>s, <3>1 DEF Reported, Rearmed
      <4>2. SameDriver(d, dal[b]) \/ s.drive # "poll"
        <5> SUFFICES ASSUME s.drive = "poll"
                     PROVE  SameDriver(d, dal[b])
          OBVIOUS
        <5>1. d = p /\ p.prev = s.last /\ p.fired = s.fired /\ p.held = dal[b].held /\ p.stable = s.last
          BY <1>3, <2>d, <3>1 DEF Driven
        <5>2. dal[b].stable = s.last /\ dal[b].prev = s.last /\ dal[b].fired = s.fired
          BY <1>2, <1>4, <1>s DEF InStep, Followed
        <5> QED BY <5>1, <5>2 DEF SameDriver
      <4>3. s.drive \in {"irq", "poll"}
        BY <1>4 DEF SlotRecord
      <4>4. Known(s, b)' /\ (s.drive = "poll" => Followed(s, d)
                              /\ (evt'[b] = "PRESS" => d.held = age'[b]))
        BY <1>2, <1>4, <1>s, <2>3, <3>1, <4>2 DEF InStep, Known, Followed, SameDriver
      <4>5. ASSUME s.drive = "irq", evt'[b] = "PRESS"
            PROVE  Timed(s.longpressH, age[b])'
        <5>1. Timed(s.longpressH, age[b])
          BY <1>2, <1>4, <1>s, <2>3, <3>1, <4>5 DEF InStep
        <5>2. Past(s.longpressH) => Past(s.longpressH)'
          BY <1>1 DEF Past
        <5>3. /\ timers[s.longpressH].left \in Int /\ age[b] \in Int /\ LongPress \in Int
          BY <1>2, <2>0, <2>5, <4>5 DEF TimerSet
        <5> QED BY <1>1, <2>1, <2>3, <3>1, <4>1, <5>1, <5>2, <5>3 DEF Timed
      <4> QED BY <1>2, <2>1, <2>2, <2>3, <4>1, <4>4, <4>5 DEF InStep, Known, Followed
    <3>2. CASE e = "PRESS"
      <4>1. /\ Reported(s, e).last = TRUE /\ Reported(s, e).fired = FALSE
        BY <1>4, <3>2 DEF Reported, SlotRecord
      <4>2. s.drive = "poll" => d.prev = TRUE /\ d.fired = FALSE /\ d.held = 0 /\ d.stable = TRUE
        <5> SUFFICES ASSUME s.drive = "poll"
                     PROVE  d.prev = TRUE /\ d.fired = FALSE /\ d.held = 0 /\ d.stable = TRUE
          OBVIOUS
        <5>1. d = [p EXCEPT !.prev = TRUE, !.fired = FALSE, !.held = 0] /\ p.stable = TRUE
          BY <1>3, <2>d, <3>2 DEF Driven
        <5> QED BY <2>d, <5>1 DEF DriverSet
      <4>3. s.drive = "irq" => timers'[s.longpressH].left = LongPress
        <5> SUFFICES ASSUME s.drive = "irq"
                     PROVE  timers'[s.longpressH].left = LongPress
          OBVIOUS
        <5>1. timers' = Started(timers, s.longpressH)
          BY <1>6, <1>s, <3>2 DEF Rearmed
        <5> QED BY <2>0, <2>5, <5>1 DEF Started, TimerSet, Period
      <4>4. s.drive = "irq" => Timed(slots[i].longpressH, age[b])'
        BY <1>1, <2>1, <2>3, <2>7, <3>2, <4>3 DEF Timed
      <4>5. Known(slots[i], b)'
        BY <2>1, <2>3, <3>2, <4>1 DEF Known
      <4>6. s.drive = "poll" => Followed(slots[i], dal[b])' /\ (evt'[b] = "PRESS" => dal'[b].held = age'[b])
        BY <2>1, <2>2, <2>3, <3>2, <4>1, <4>2 DEF Followed
      <4> QED BY <1>2, <2>1, <2>3, <2>7, <3>2, <4>4, <4>5, <4>6 DEF InStep
    <3>3. CASE e = "RELEASE"
      <4>1. /\ Reported(s, e).last = FALSE /\ Reported(s, e).fired = FALSE
        BY <1>4, <3>3 DEF Reported, SlotRecord
      <4>2. s.drive = "poll" => d.prev = FALSE /\ d.fired = FALSE /\ d.stable = FALSE
        <5> SUFFICES ASSUME s.drive = "poll"
                     PROVE  d.prev = FALSE /\ d.fired = FALSE /\ d.stable = FALSE
          OBVIOUS
        <5>1. d = [p EXCEPT !.prev = FALSE, !.fired = FALSE] /\ p.stable = FALSE
          BY <1>3, <2>d, <3>3 DEF Driven
        <5> QED BY <2>d, <5>1 DEF DriverSet
      <4>3. Known(slots[i], b)'
        BY <2>1, <2>3, <3>3, <4>1 DEF Known
      <4>4. s.drive = "poll" => Followed(slots[i], dal[b])' /\ (evt'[b] = "PRESS" => dal'[b].held = age'[b])
        BY <2>1, <2>2, <2>3, <3>3, <4>1, <4>2 DEF Followed
      <4> QED BY <1>2, <2>1, <2>3, <2>7, <3>3, <4>3, <4>4 DEF InStep
    <3>4. CASE e = "LONG"
      <4>1. /\ Reported(s, e).last = s.last /\ s.last /\ Reported(s, e).fired = TRUE
        BY <1>3, <1>4, <3>4 DEF Reported, SlotRecord
      <4>2. s.drive = "poll" => d.prev = s.last /\ d.fired = TRUE /\ d.stable = s.last
        <5> SUFFICES ASSUME s.drive = "poll"
                     PROVE  d.prev = s.last /\ d.fired = TRUE /\ d.stable = s.last
          OBVIOUS
        <5>1. d = [p EXCEPT !.fired = TRUE] /\ p.stable = s.last /\ p.prev = s.last
          BY <1>3, <2>d, <3>4 DEF Driven
        <5> QED BY <2>d, <5>1 DEF DriverSet
      <4>3. Known(slots[i], b)'
        BY <2>1, <2>3, <3>4, <4>1 DEF Known
      <4>4. s.drive = "poll" => Followed(slots[i], dal[b])' /\ (evt'[b] = "PRESS" => dal'[b].held = age'[b])
        BY <2>1, <2>2, <2>3, <3>4, <4>1, <4>2 DEF Followed
      <4> QED BY <1>2, <2>1, <2>3, <2>7, <3>4, <4>3, <4>4 DEF InStep
    <3> QED BY <1>2, <3>1, <3>2, <3>3, <3>4 DEF Events
  <2>9. slots'[i].btn = b
    BY <2>1, <2>7
  <2>10. slots[i].btn \in {None, b} /\ slots[i].longpressH = s.longpressH
    BY <1>2, <1>s
  <2> QED BY <1>1, <1>2, <2>1, <2>2, <2>3, <2>4, <2>6, <2>8, <2>9, <2>10, OthersStay
<1> QED BY <1>5, <1>6, <1>a, <1>b, <1>e, <1>p, <1>d DEF Call

\* The application disables a button between two passes.
LEMMA DisableInStep == ASSUME IInv, IInv', Streams, NEW b \in Buttons, Disable(b) PROVE Streams'
<1>1. PICK i \in Slots : slots[i].btn = b /\ DisableFrom(b, i, timers, dal[b])
  BY DEF Disable
<1>2. UNCHANGED <<ti, seen>> /\ pc = "app" /\ pc' = "app"
  BY DEF Disable, mainVars
<1> QED BY <1>1, <1>2, DisablingInStep

\* Enabling that fails begins no stream.
LEMMA FailingInStep ==
  ASSUME IInv, IInv', Streams, NEW b \in Buttons, \A j \in Slots : slots[j].btn # b,
         NEW d, dal' = [dal EXCEPT ![b] = d], \A h \in Handles : timers'[h] = timers[h],
         UNCHANGED <<slots, evt, age, pc, ti, seen>>
  PROVE  Streams'
<1>1. \A c \in Buttons : (\E i \in Slots : slots[i].btn = c) => SameDriver(dal'[c], dal[c])
  BY DEF SameDriver, IInv, TypeOK
<1>2. \A h \in Handles : RunsOn(h)
  BY DEF RunsOn
<1> QED BY <1>1, <1>2, LoopStands

\* Enabling that succeeds begins a stream without events.
LEMMA FillingInStep ==
  ASSUME IInv, IInv', Streams, NEW b \in Buttons, NEW i \in Slots, slots[i] = FreeSlot,
         \A j \in Slots : slots[j].btn # b,
         NEW s, s.btn = b, slots' = [slots EXCEPT ![i] = s],
         NEW d, dal' = [dal EXCEPT ![b] = d],
         s.drive = "poll" => Followed(s, d),
         \A h \in Handles : timers[h].cb # "free" => timers'[h] = timers[h],
         pc = "app", UNCHANGED <<evt, age, pc, ti, seen>>
  PROVE  Streams'
<1>1. /\ slots'[i] = s /\ \A j \in Slots \ {i} : slots'[j] = slots[j]
      /\ dal'[b] = d /\ \A c \in Buttons \ {b} : dal'[c] = dal[c]
  BY DEF IInv, TypeOK
<1>2. evt'[b] = "NONE"
  BY DEF Streams, Silent
<1>3. InStep(i)'
  BY <1>1, <1>2 DEF InStep, Known, Followed
<1>4. slots[i].btn = None /\ slots'[i].btn = b
  BY <1>1 DEF FreeSlot
<1>5. \A c \in Buttons \ {b} : evt'[c] = evt[c] /\ age'[c] = age[c] /\ dal'[c] = dal[c]
  BY <1>1
<1>6. \A h \in Handles : timers[h].cb = "longpress" /\ h # slots[i].longpressH => timers'[h] = timers[h]
  OBVIOUS
<1> QED BY <1>1, <1>3, <1>4, <1>5, <1>6, OthersStay

\* Arming the interrupt, whichever step of it fails.
LEMMA EnableIrqInStep == ASSUME IInv, IInv', Streams, NEW b \in Buttons, EnableIrq(b) PROVE Streams'
<1>a. PICK i : i = First(Available(b))
  OBVIOUS
<1>b. PICK dh : dh = First(Free(timers))
  OBVIOUS
<1>c. PICK t1 : t1 = Created(timers, "debounce", i)
  OBVIOUS
<1>d. PICK lh : lh = First(Free(t1))
  OBVIOUS
<1>e. PICK t2 : t2 = Created(t1, "longpress", i)
  OBVIOUS
<1>1. /\ i \in Slots /\ slots[i] = FreeSlot /\ \A j \in Slots : slots[j].btn # b
      /\ pc = "app" /\ UNCHANGED <<evt, age, pc, ti, seen>>
  BY <1>a, SlotForRequest DEF EnableIrq
<1>2. timers \in TimerSet /\ \A h \in Handles : timers[h].cb = "free" => timers[h] = FreeTimer
  BY DEF IInv, TypeOK, TimerSet, Free
<1>3. ASSUME Free(timers) # {}
      PROVE  /\ t1 \in TimerSet /\ dh \in Handles /\ timers[dh].cb = "free"
             /\ t1[dh] = [cb |-> "debounce", arg |-> i, left |-> Period("debounce"), active |-> FALSE]
             /\ \A g \in Handles \ {dh} : t1[g] = timers[g]
  <2>1. i \in Slots \cup Buttons
    BY <1>1
  <2> QED BY <1>b, <1>c, <1>2, <1>3, <2>1, CreatedOne
<1>4. ASSUME Free(timers) # {}, Free(t1) # {}
      PROVE  /\ t2 \in TimerSet /\ lh \in Handles /\ t1[lh].cb = "free"
             /\ \A g \in Handles \ {lh} : t2[g] = t1[g]
             /\ timers[lh].cb = "free"
  <2>1. t1 \in TimerSet /\ i \in Slots \cup Buttons
    BY <1>1, <1>3, <1>4
  <2>2. /\ t2 \in TimerSet /\ lh \in Handles /\ t1[lh].cb = "free"
        /\ t2[lh] = [cb |-> "longpress", arg |-> i, left |-> Period("longpress"), active |-> FALSE]
        /\ \A g \in Handles \ {lh} : t2[g] = t1[g]
    BY <1>d, <1>e, <1>4, <2>1, CreatedOne
  <2> QED BY <1>3, <1>4, <2>2
<1>5. CASE /\ Free(timers) = {}
           /\ UNCHANGED <<timers, slots, daemon>>
           /\ dal' = [dal EXCEPT ![b] = Retuned(b)]
  BY <1>1, <1>5, FailingInStep
<1>6. CASE /\ Free(timers) # {} /\ Free(t1) = {}
           /\ timers' = RolledBack(t1, {dh})
           /\ UNCHANGED <<slots, daemon>>
           /\ dal' = [dal EXCEPT ![b] = Retuned(b)]
  <2>1. \A g \in Handles : timers'[g] = IF g \in {dh} THEN FreeTimer ELSE t1[g]
    BY <1>3, <1>6, DestroyedAll DEF RolledBack
  <2>2. \A g \in Handles : timers'[g] = timers[g]
    BY <1>2, <1>3, <1>6, <2>1
  <2> QED BY <1>1, <1>6, <2>2, FailingInStep
<1>7. CASE /\ Free(timers) # {} /\ Free(t1) # {}
           /\ timers' = RolledBack(t2, {dh, lh})
           /\ UNCHANGED slots
           /\ dal' = [dal EXCEPT ![b] = [Retuned(b) EXCEPT !.backend = "none"]]
  <2>1. \A g \in Handles : timers'[g] = IF g \in {dh, lh} THEN FreeTimer ELSE t2[g]
    BY <1>4, <1>7, DestroyedAll DEF RolledBack
  <2>2. \A g \in Handles : timers'[g] = timers[g]
    BY <1>2, <1>3, <1>4, <1>7, <2>1
  <2> QED BY <1>1, <1>7, <2>2, FailingInStep
<1>8. CASE /\ Free(timers) # {} /\ Free(t1) # {}
           /\ timers' = t2
           /\ slots' = [slots EXCEPT ![i] =
                          [FreeSlot EXCEPT !.btn = b, !.drive = "irq", !.debounceH = dh,
                                           !.longpressH = lh, !.last = dal[b].stable]]
           /\ dal' = [dal EXCEPT ![b] = [Retuned(b) EXCEPT !.backend = "irq"]]
  <2>s. PICK s : s = [FreeSlot EXCEPT !.btn = b, !.drive = "irq", !.debounceH = dh,
                                      !.longpressH = lh, !.last = dal[b].stable]
    OBVIOUS
  <2>d. PICK d : d = [Retuned(b) EXCEPT !.backend = "irq"]
    OBVIOUS
  <2>1. s.btn = b /\ s.drive = "irq"
    BY <2>s DEF FreeSlot
  <2>2. \A h \in Handles : timers[h].cb # "free" => timers'[h] = timers[h]
    BY <1>3, <1>4, <1>8
  <2> QED BY <1>1, <1>8, <2>s, <2>d, <2>1, <2>2, FillingInStep
<1> QED BY <1>5, <1>6, <1>7, <1>8, <1>a, <1>b, <1>c, <1>d, <1>e DEF EnableIrq

\* Starting to poll.
LEMMA EnablePollInStep == ASSUME IInv, IInv', Streams, NEW b \in Buttons, EnablePoll(b) PROVE Streams'
<1>a. PICK i : i = First(Available(b))
  OBVIOUS
<1>b. PICK h : h = First(Free(timers))
  OBVIOUS
<1>c. PICK t1 : t1 = Created(timers, "poll", b)
  OBVIOUS
<1>d. PICK hooked : hooked = [Retuned(b) EXCEPT !.prev = dal[b].stable, !.fired = FALSE]
  OBVIOUS
<1>1. /\ i \in Slots /\ slots[i] = FreeSlot /\ \A j \in Slots : slots[j].btn # b
      /\ pc = "app" /\ UNCHANGED <<evt, age, pc, ti, seen>>
  BY <1>a, SlotForRequest DEF EnablePoll
<1>2. /\ hooked.stable = dal[b].stable /\ hooked.prev = dal[b].stable /\ hooked.fired = FALSE
      /\ hooked \in DriverSet
  <2>1. Retuned(b) \in DriverSet /\ Retuned(b).stable = dal[b].stable /\ dal[b].stable \in BOOLEAN
    <3>1. dal[b] \in DriverSet
      BY DEF IInv, TypeOK, DriverSet
    <3>2. Retuned(b) \in DriverSet
      BY SlotForRequest DEF EnablePoll
    <3> QED BY <3>1, <3>2 DEF Retuned, DriverSet
  <2> QED BY <1>d, <2>1 DEF DriverSet
<1>3. timers \in TimerSet
  BY DEF IInv, TypeOK, TimerSet
<1>4. CASE /\ Free(timers) = {}
           /\ UNCHANGED <<timers, slots>>
           /\ dal' = [dal EXCEPT ![b] = hooked]
  BY <1>1, <1>4, FailingInStep
<1>5. CASE /\ Free(timers) # {}
           /\ timers' = Started(t1, h)
           /\ slots' = [slots EXCEPT ![i] =
                          [FreeSlot EXCEPT !.btn = b, !.pollH = h, !.last = dal[b].stable]]
           /\ dal' = [dal EXCEPT ![b] = [hooked EXCEPT !.backend = "poll"]]
  <2>s. PICK s : s = [FreeSlot EXCEPT !.btn = b, !.pollH = h, !.last = dal[b].stable]
    OBVIOUS
  <2>d. PICK d : d = [hooked EXCEPT !.backend = "poll"]
    OBVIOUS
  <2>1. s.btn = b /\ s.last = dal[b].stable /\ s.fired = FALSE
    BY <2>s DEF FreeSlot
  <2>2. Followed(s, d)
    BY <1>2, <2>d, <2>1 DEF Followed, DriverSet
  <2>3. /\ t1 \in TimerSet /\ h \in Handles /\ timers[h].cb = "free"
        /\ t1[h] = [cb |-> "poll", arg |-> b, left |-> Period("poll"), active |-> FALSE]
        /\ \A g \in Handles \ {h} : t1[g] = timers[g]
    BY <1>b, <1>c, <1>3, <1>5, CreatedOne
  <2>4. \A g \in Handles : timers[g].cb # "free" => timers'[g] = timers[g]
    BY <1>5, <2>3, StartedOne
  <2> QED BY <1>1, <1>5, <2>s, <2>d, <2>1, <2>2, <2>4, FillingInStep
<1> QED BY <1>4, <1>5, <1>a, <1>b, <1>c, <1>d DEF EnablePoll

\* Every step keeps the streams in step.
LEMMA StreamsStep == IInv /\ IInv' /\ Streams /\ [Next]_vars => Streams'
<1> SUFFICES ASSUME IInv, IInv', Streams, [Next]_vars
             PROVE  Streams'
  OBVIOUS
<1>1. CASE MainLoop
  BY <1>1, LoopInStep, CallInStep, SleepInStep DEF MainLoop
<1>2. CASE App
  BY <1>2, EnableIrqInStep, EnablePollInStep, DisableInStep DEF App
<1>3. CASE Isr \/ Daemon \/ Finger
  BY <1>3, OutsideInStep
<1>4. CASE UNCHANGED vars
  BY <1>4, LoopStands DEF vars, mainVars, evtVars, RunsOn, SameDriver
<1> QED BY <1>1, <1>2, <1>3, <1>4 DEF Next

\* Presses and releases alternate and a long press is reported once per press
\* and after its time, whichever backend times it (button_event_poll_cb or the
\* debounce and long-press callbacks of dal_button), whatever the daemon
\* restarts and whoever disables what.
THEOREM EventsAreInOrder == Spec => []EventsInOrder
<1>1. Init => Streams
  BY DEF Init, Streams, Silent, InStep, FreeSlot
<1>2. IInv /\ Streams => EventsInOrder
  <2> SUFFICES ASSUME IInv, Streams, pc = "call"
               PROVE  LET b == ButtonAt  e == Verdict
                      IN /\ e = "PRESS"   => evt[b] \in {"NONE", "RELEASE"}
                         /\ e = "RELEASE" => evt[b] # "RELEASE"
                         /\ e = "LONG"    => \/ evt[b] = "PRESS" /\ age[b] >= LongPress - 1
                                             \/ evt[b] = "NONE" /\ slots[SlotAt].last
    BY DEF EventsInOrder
  <2>1. SlotAt \in Slots /\ ButtonAt \in Buttons /\ ButtonAt = slots[SlotAt].btn /\ ButtonAt # None
    BY CallbackServes DEF ButtonAt
  <2>2. Known(slots[SlotAt], ButtonAt) /\ evt[ButtonAt] \in Events
    BY <2>1 DEF Streams, InStep, IInv, TypeOK
  <2>3. /\ Verdict = "PRESS"   => ~slots[SlotAt].last
        /\ Verdict = "RELEASE" => slots[SlotAt].last
        /\ Verdict = "LONG"    => /\ slots[SlotAt].last /\ ~slots[SlotAt].fired
                                  /\ evt[ButtonAt] = "PRESS" => age[ButtonAt] >= LongPress - 1
    BY VerdictSays
  <2> QED BY <2>2, <2>3 DEF Known, Events
<1> QED BY <1>1, <1>2, StreamsStep, Invariant, PTL DEF Spec
=============================================================================
