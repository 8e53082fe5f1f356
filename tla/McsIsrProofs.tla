---------------------------- MODULE McsIsrProofs ----------------------------
(***************************************************************************)
(* Theorems about McsIsr, for any sets of sources, timer modes and         *)
(* register values: its types, the nesting of handlers, and that a request *)
(* is neither forgotten nor served twice.                                  *)
(***************************************************************************)
EXTENDS McsIsr, Integers, FiniteSetTheorems, TLAPS

-----------------------------------------------------------------------------
(* The C stack.                                                            *)

\* The calls, other than handlers, that a firmware with the sources u makes.
Plain(u) ==
  ({"timer", "rearm"} \X (Timers \cap u))
    \cup ({"step", "lines", "scan"} \X {0})
    \cup ({"sent", "uart"} \X {n \in {0} : UART0 \in u})

CallsFor(u) == ({"isr"} \X Sources) \cup Plain(u)

Depth(stack) == Cardinality(HandlersIn(stack))

\* A stack that has as many handlers as another.
SameDepth(t, s) == t \in Seq(CallsFor(used)) /\ Depth(t) = Depth(s)

LEMMA PlainIsPlain ==
  ASSUME NEW u, NEW c \in Plain(u) PROVE c[1] # "isr" /\ c \in CallsFor(u)
BY DEF Plain, CallsFor

LEMMA ShiftCardinality ==
  ASSUME NEW S \in SUBSET Nat, IsFiniteSet(S), NEW n \in Nat
  PROVE  LET T == {i + n : i \in S}
         IN  IsFiniteSet(T) /\ Cardinality(T) = Cardinality(S)
<1> DEFINE T == {i + n : i \in S}
           f == [i \in S |-> i + n]
<1>1. f \in [S -> T]
  OBVIOUS
<1>2. \A i, j \in S : f[i] = f[j] => i = j
  OBVIOUS
<1>3. \A k \in T : \E i \in S : f[i] = k
  OBVIOUS
<1>4. f \in Bijection(S, T)
  <2> HIDE DEF T, f
  <2> QED
    BY <1>1, <1>2, <1>3 DEF Bijection, Injection, Surjection, IsInjective
<1>5. ExistsBijection(S, T)
  BY <1>4, Zenon DEF ExistsBijection
<1> QED
  BY <1>5, FS_Bijection, Zenon

LEMMA HandlersFinite ==
  ASSUME NEW D, NEW s \in Seq(D)
  PROVE  IsFiniteSet(HandlersIn(s)) /\ HandlersIn(s) \in SUBSET Nat
<1>1. HandlersIn(s) \in SUBSET (1 .. Len(s))
  BY DEF HandlersIn
<1>2. IsFiniteSet(1 .. Len(s))
  BY FS_Interval
<1> QED
  BY <1>1, <1>2, FS_Subset

\* Calls that are no handlers leave the depth alone.
LEMMA PlainPush ==
  ASSUME NEW xs \in Seq(Plain(used)), NEW t \in Seq(CallsFor(used))
  PROVE  SameDepth(xs \o t, t)
<1>1. xs \in Seq(CallsFor(used)) /\ xs \o t \in Seq(CallsFor(used))
  BY DEF CallsFor
<1>2. \A i \in 1 .. Len(xs) : xs[i][1] # "isr"
  BY PlainIsPlain
<1>3. HandlersIn(xs \o t) = {i + Len(xs) : i \in HandlersIn(t)}
  <2>1. ASSUME NEW i \in HandlersIn(xs \o t)
        PROVE  i - Len(xs) \in HandlersIn(t) /\ i = (i - Len(xs)) + Len(xs)
    BY <1>2, <2>1 DEF HandlersIn
  <2>2. ASSUME NEW i \in HandlersIn(t)
        PROVE  i + Len(xs) \in HandlersIn(xs \o t)
    BY <2>2 DEF HandlersIn
  <2> QED
    BY <2>1, <2>2
<1>4. Len(xs) \in Nat
  OBVIOUS
<1> QED
  BY <1>1, <1>3, <1>4, HandlersFinite, ShiftCardinality DEF SameDepth, Depth

LEMMA HandlerPush ==
  ASSUME NEW s \in Sources, NEW t \in Seq(CallsFor(used))
  PROVE  /\ << <<"isr", s>> >> \o t \in Seq(CallsFor(used))
         /\ Depth(<< <<"isr", s>> >> \o t) = Depth(t) + 1
<1> DEFINE x == <<"isr", s>>
           T == {i + 1 : i \in HandlersIn(t)}
<1>1. x \in CallsFor(used)
  BY DEF CallsFor
<1>2. <<x>> \in Seq(CallsFor(used)) /\ <<x>> \o t \in Seq(CallsFor(used))
  BY <1>1
<1>3. Len(<<x>> \o t) = Len(t) + 1 /\ (<<x>> \o t)[1] = x
  BY <1>2
<1>4. \A i \in 1 .. Len(t) : (<<x>> \o t)[i + 1] = t[i]
  BY <1>2
<1>5. HandlersIn(<<x>> \o t) = T \cup {1}
  <2>1. ASSUME NEW i \in HandlersIn(<<x>> \o t), i # 1
        PROVE  i - 1 \in HandlersIn(t) /\ i = (i - 1) + 1
    <3>1. i \in 1 .. Len(t) + 1
      BY <1>3, <2>1 DEF HandlersIn
    <3>2. i - 1 \in 1 .. Len(t) /\ i = (i - 1) + 1
      BY <2>1, <3>1
    <3>3. (<<x>> \o t)[i] = t[i - 1]
      BY <1>4, <3>2
    <3> QED
      BY <2>1, <3>2, <3>3 DEF HandlersIn
  <2>2. ASSUME NEW i \in HandlersIn(t) PROVE i + 1 \in HandlersIn(<<x>> \o t)
    BY <1>2, <1>3, <1>4, <2>2 DEF HandlersIn
  <2>3. 1 \in HandlersIn(<<x>> \o t)
    BY <1>2, <1>3 DEF HandlersIn
  <2> QED
    BY <2>1, <2>2, <2>3
<1>6. IsFiniteSet(T) /\ Cardinality(T) = Depth(t) /\ 1 \notin T
  <2>1. HandlersIn(t) \subseteq 1 .. Len(t)
    BY DEF HandlersIn
  <2>2. 1 \notin T
    BY <2>1
  <2>3. IsFiniteSet(HandlersIn(t)) /\ HandlersIn(t) \in SUBSET Nat
    BY HandlersFinite, Zenon
  <2>4. 1 \in Nat
    OBVIOUS
  <2>5. IsFiniteSet(T) /\ Cardinality(T) = Cardinality(HandlersIn(t))
    BY <2>3, <2>4, ShiftCardinality, Zenon
  <2> QED
    BY <2>2, <2>5 DEF Depth
<1> QED
  BY <1>2, <1>5, <1>6, FS_AddElement DEF Depth

\* The call on top is the rest of the stack and one call.
LEMMA PlainPop ==
  ASSUME NEW c \in Plain(used), todo \in Seq(CallsFor(used)),
         todo # <<>>, Head(todo) = c
  PROVE  SameDepth(Tail(todo), todo)
<1>1. Tail(todo) \in Seq(CallsFor(used)) /\ todo = <<c>> \o Tail(todo)
  OBVIOUS
<1>2. <<c>> \in Seq(Plain(used))
  OBVIOUS
<1> QED
  BY <1>1, <1>2, PlainPush DEF SameDepth

LEMMA HandlerPop ==
  ASSUME todo \in Seq(CallsFor(used)), InHandler
  PROVE  Tail(todo) \in Seq(CallsFor(used)) /\ Depth(todo) = Depth(Tail(todo)) + 1
<1>1. Head(todo) \in CallsFor(used) /\ Head(todo)[1] = "isr"
  BY DEF InHandler
<1>2. PICK s \in Sources : Head(todo) = <<"isr", s>>
  BY <1>1, PlainIsPlain DEF CallsFor
<1>3. Tail(todo) \in Seq(CallsFor(used)) /\ todo = << <<"isr", s>> >> \o Tail(todo)
  BY <1>2 DEF InHandler
<1> QED
  BY <1>3, HandlerPush

-----------------------------------------------------------------------------
(* What a step does to the stack.                                          *)

Stacked == used \in Uses /\ todo \in Seq(CallsFor(used))

LEMMA UsedIsKnown == used \in Uses => used \subseteq Sources
BY DEF Sources

\* The calls of a microstep are those of the sources in use.
LEMMA PollsArePlain ==
  ASSUME used \in Uses
  PROVE  Polls \in Seq(Plain(used)) /\ CatchUp \in Seq(Plain(used))
<1>1. ASSUME NEW t \in {TIMER0, TIMER1, TIMER2}
      PROVE  Step(t) \in Seq(Plain(used))
  <2>1. CASE t \in used
    <3>1. <<"timer", t>> \in Plain(used)
      BY <2>1, UsedIsKnown DEF Plain, Timers
    <3> QED
      BY <2>1, <3>1 DEF Step
  <2> QED
    BY <2>1 DEF Step
<1>2. StepTimers \in Seq(Plain(used))
  BY <1>1 DEF StepTimers
<1>3. Call("lines") \in Seq(Plain(used)) /\ Call("scan") \in Seq(Plain(used))
  BY DEF Call, Plain
<1>4. PollUart \in Seq(Plain(used))
  <2>1. CASE UART0 \in used
    <3>1. <<"uart", 0>> \in Plain(used)
      BY <2>1 DEF Plain
    <3> QED
      BY <1>3, <2>1, <3>1 DEF PollUart, Call
  <2> QED
    BY <2>1 DEF PollUart
<1> HIDE DEF TIMER0, TIMER1, TIMER2
<1> QED
  BY <1>2, <1>3, <1>4 DEF Polls, CatchUp

LEMMA PushMore ==
  ASSUME NEW xs \in Seq(Plain(used)), NEW t, SameDepth(t, todo)
  PROVE  SameDepth(xs \o t, todo)
BY PlainPush DEF SameDepth

LEMMA OneCall ==
  ASSUME NEW k, <<k, 0>> \in Plain(used) PROVE Call(k) \in Seq(Plain(used))
BY DEF Call

LEMMA ChargeTodo ==
  ASSUME used \in Uses, NEW rest, SameDepth(rest, todo), Charge(rest)
  PROVE  SameDepth(todo', todo)
<1>1. todo' = rest \/ todo' = CatchUp \o rest
  BY DEF Charge
<1> QED
  BY <1>1, PollsArePlain, PushMore

LEMMA MicrostepTodo ==
  ASSUME used \in Uses, NEW rest, SameDepth(rest, todo), Microstep(rest)
  PROVE  SameDepth(todo', todo) /\ UNCHANGED prios
BY PollsArePlain, PushMore, ChargeTodo DEF Microstep

LEMMA TopIsPlain ==
  ASSUME Stacked, NEW k, NEW x, Next_call(k, x), k # "isr"
  PROVE  <<k, x>> \in Plain(used) /\ SameDepth(Tail(todo), todo)
<1>1. todo # <<>> /\ Head(todo) = <<k, x>> /\ <<k, x>> \in CallsFor(used)
  BY DEF Next_call, Stacked
<1>2. <<k, x>> \in Plain(used)
  BY <1>1 DEF CallsFor
<1> QED
  BY <1>1, <1>2, PlainPop DEF Stacked

\* Only a dispatch and a return change the number of handlers.
LEMMA AccessTodo ==
  ASSUME Stacked, FirmwareAccess
  PROVE  SameDepth(todo', todo) /\ UNCHANGED <<prios, used>>
<1> USE DEF Stacked
<1>1. SameDepth(todo, todo)
  BY DEF SameDepth
<1>2. <<"step", 0>> \in Plain(used)
  BY DEF Plain
<1>3. SameDepth(Call("step") \o todo, todo)
  BY <1>1, <1>2, OneCall, PushMore
<1>4. CASE Idle \/ WriteIE \/ WriteIP \/ (\E l \in Lines : WriteIT(l))
           \/ (\E f \in Flags : ClearFlag(f))
  BY <1>1, <1>4, MicrostepTodo
     DEF Idle, WriteIE, WriteIP, WriteIT, ClearFlag, registers
<1>5. CASE \E t \in Timers : Start(t) \/ Stop(t) \/ Reload(t)
  BY <1>3, <1>5 DEF Start, Stop, Reload, registers, service
<1>6. CASE Transmit
  <2>1. <<"sent", 0>> \in Plain(used)
    BY <1>6 DEF Transmit, Plain
  <2>2. SameDepth(Call("sent") \o todo, todo)
    BY <1>1, <2>1, OneCall, PushMore
  <2> QED
    BY <1>6, <2>2, ChargeTodo DEF Transmit, registers
<1> QED
  BY <1>4, <1>5, <1>6 DEF FirmwareAccess

LEMMA OverflowTodo ==
  ASSUME Stacked, NEW t \in Timers, TimerOverflow(t)
  PROVE  SameDepth(todo', todo) /\ UNCHANGED <<prios, used>>
<1>1. <<"timer", t>> \in Plain(used) /\ SameDepth(Tail(todo), todo)
  BY TopIsPlain DEF TimerOverflow
<1>2. <<"rearm", t>> \in Plain(used) /\ <<"scan", 0>> \in Plain(used)
  BY <1>1 DEF Plain
<1>3. AfterOverflow(t) \in Seq(Plain(used))
  BY <1>2 DEF AfterOverflow, Call
<1> QED
  BY <1>1, <1>3, PushMore DEF TimerOverflow, registers

LEMMA MachineTodo ==
  ASSUME Stacked, Machine, ~Dispatch
  PROVE  SameDepth(todo', todo) /\ UNCHANGED <<prios, used>>
<1> USE DEF Stacked
<1>1. CASE DoStep
  BY <1>1, TopIsPlain, MicrostepTodo DEF DoStep, registers
<1>2. CASE Sent
  <2>1. SameDepth(Tail(todo), todo) /\ <<"step", 0>> \in Plain(used)
    BY <1>2, TopIsPlain DEF Sent, Plain
  <2> QED
    BY <1>2, <2>1, OneCall, PushMore DEF Sent, registers, service
<1>3. CASE Receive \/ ReceiveNothing
  BY <1>3, TopIsPlain DEF Receive, ReceiveNothing, registers, service
<1>4. CASE ScanSuppressed \/ ScanDisabled \/ ScanNothing
  BY <1>4, TopIsPlain
     DEF ScanSuppressed, ScanDisabled, ScanNothing, registers, service
<1>5. CASE \E t \in Timers : TimerOverflow(t)
  BY <1>5, OverflowTodo
<1>6. CASE \E t \in Timers : TimerNotDue(t) \/ Rearm(t)
  BY <1>6, TopIsPlain DEF TimerNotDue, Rearm, registers, service
<1>7. CASE \E read \in SUBSET (Lines \cap used) :
             \E low \in SUBSET read : PollLines(read, low)
  BY <1>7, TopIsPlain DEF PollLines, registers, service
<1> QED
  BY <1>1, <1>2, <1>3, <1>4, <1>5, <1>6, <1>7 DEF Machine

-----------------------------------------------------------------------------
(* Types.                                                                  *)

LEMMA Numbers ==
  /\ Sources \subseteq 0 .. 5 /\ Timers \subseteq Sources \ {UART0}
  /\ Lines \subseteq Sources \ {UART0} /\ Lines \cap Timers = {}
  /\ RI \notin Sources /\ TI \notin Sources /\ RI \in Flags /\ TI \in Flags
  /\ Timers \subseteq Flags /\ Lines \subseteq Flags
BY SourcesAssumption
   DEF Timers, Lines, Flags, RI, TI, UART0, INT0, INT1, TIMER0, TIMER1, TIMER2

Types == Stacked /\ TypeOK

LEMMA StackedCalls == Stacked => todo \in Seq(Calls)
<1>1. used \in Uses => CallsFor(used) \subseteq Calls
  BY DEF CallsFor, Plain, Calls
<1> QED
  BY <1>1 DEF Stacked

LEMMA InitTypes == Init => Types
<1> SUFFICES ASSUME Init PROVE Types
  OBVIOUS
<1>1. todo \in Seq(CallsFor(used)) /\ todo \in Seq(Calls) /\ prios \in Seq({0, 1})
  BY DEF Init
<1>2. suppress \in BOOLEAN
  BY Zenon DEF Init
<1> QED
  BY <1>1, <1>2 DEF Init, Types, Stacked, TypeOK

\* The part of the state the firmware's registers and the peripherals are.
RegisterTypes ==
  /\ ie \subseteq used \cup {EA} /\ ip \subseteq Sources /\ edge \subseteq Lines

TimerTypes ==
  /\ running \subseteq Timers /\ due \subseteq armed /\ armed \subseteq running
  /\ fresh = armed

RequestTypes ==
  /\ flag \subseteq Flags /\ pending \subseteq used /\ sampled \subseteq Lines
  /\ owed \subseteq used

LEMMA ChargeTypes ==
  ASSUME TimerTypes, NEW rest, Charge(rest) PROVE TimerTypes'
BY DEF Charge, TimerTypes

LEMMA AccessTypes ==
  ASSUME Types, FirmwareAccess PROVE RegisterTypes' /\ TimerTypes' /\ RequestTypes'
<1> USE DEF RegisterTypes, RequestTypes
<1>0. RegisterTypes /\ TimerTypes /\ RequestTypes /\ used \subseteq Sources
  BY UsedIsKnown DEF Types, Stacked, TypeOK, TimerTypes
<1>1. CASE Idle
  BY <1>0, <1>1, ChargeTypes DEF Idle, Microstep, registers, requests
<1>2. CASE WriteIE
  BY <1>0, <1>2, ChargeTypes DEF WriteIE, Microstep, requests
<1>3. CASE WriteIP
  BY <1>0, <1>3, ChargeTypes DEF WriteIP, Microstep, requests
<1>4. CASE \E l \in Lines : WriteIT(l)
  BY <1>0, <1>4, ChargeTypes DEF WriteIT, Microstep, requests
<1>5. CASE \E f \in Flags : ClearFlag(f)
  BY <1>0, <1>5, ChargeTypes DEF ClearFlag, Microstep, registers
<1>6. CASE \E t \in Timers : Start(t) \/ Stop(t) \/ Reload(t)
  BY <1>0, <1>6
     DEF Start, Stop, Reload, Schedule, TimerTypes, registers, requests
<1>7. CASE Transmit
  BY <1>0, <1>7, ChargeTypes DEF Transmit, registers, requests
<1> QED
  BY <1>1, <1>2, <1>3, <1>4, <1>5, <1>6, <1>7 DEF FirmwareAccess

LEMMA OverflowTypes ==
  ASSUME Types, NEW t \in Timers, TimerOverflow(t)
  PROVE  RegisterTypes' /\ TimerTypes' /\ RequestTypes'
<1>1. <<"timer", t>> \in Plain(used)
  BY TopIsPlain DEF TimerOverflow, Types
<1>2. t \in used
  BY <1>1 DEF Plain
<1>3. TimerTypes'
  BY DEF TimerOverflow, Consume, TimerTypes, Types, TypeOK
<1> QED
  BY <1>2, <1>3, Numbers
     DEF TimerOverflow, Raise, RegisterTypes, RequestTypes, Types, TypeOK,
         registers

LEMMA MachineTypes ==
  ASSUME Types, Machine PROVE RegisterTypes' /\ TimerTypes' /\ RequestTypes'
<1> USE DEF RegisterTypes, RequestTypes
<1>0. RegisterTypes /\ TimerTypes /\ RequestTypes
  BY DEF Types, TypeOK, TimerTypes
<1>1. CASE DoStep
  BY <1>0, <1>1, ChargeTypes DEF DoStep, Microstep, registers, requests
<1>2. CASE Sent \/ Receive
  <2>1. <<"sent", 0>> \in Plain(used) \/ <<"uart", 0>> \in Plain(used)
    BY <1>2, TopIsPlain DEF Sent, Receive, Types
  <2>2. UART0 \in used
    BY <2>1 DEF Plain
  <2> QED
    BY <1>0, <1>2, <2>2, Numbers
       DEF Sent, Receive, Raise, TimerTypes, registers, timers
<1>3. CASE ReceiveNothing \/ ScanSuppressed \/ ScanDisabled
           \/ (\E t \in Timers : TimerNotDue(t))
  BY <1>0, <1>3
     DEF ReceiveNothing, ScanSuppressed, ScanDisabled, TimerNotDue, TimerTypes,
         registers, timers, requests
<1>4. CASE ScanNothing \/ Dispatch
  BY <1>0, <1>4 DEF ScanNothing, Dispatch, TimerTypes, registers, timers
<1>5. CASE \E t \in Timers : TimerOverflow(t)
  BY <1>5, OverflowTypes
<1>6. CASE \E t \in Timers : Rearm(t)
  <2>1. PICK t \in Timers : Rearm(t)
    BY <1>6
  <2>2. RegisterTypes' /\ RequestTypes'
    BY <1>0, <2>1 DEF Rearm, registers, requests
  <2>3. CASE t \in running
    <3>1. PICK late \in BOOLEAN : Schedule(t, late) /\ UNCHANGED running
      BY <2>1, <2>3 DEF Rearm
    <3>2. TimerTypes'
      BY <1>0, <2>3, <3>1 DEF Schedule, TimerTypes
    <3> QED
      BY <2>2, <3>2
  <2>4. CASE t \notin running
    BY <1>0, <2>1, <2>2, <2>4 DEF Rearm, TimerTypes, timers
  <2> QED
    BY <2>3, <2>4
<1>7. CASE \E read \in SUBSET (Lines \cap used) :
             \E low \in SUBSET read : PollLines(read, low)
  <2>1. PICK read \in SUBSET (Lines \cap used), low \in SUBSET Lines :
          low \subseteq read /\ PollLines(read, low)
    BY <1>7
  <2> QED
    BY <1>0, <2>1, Numbers DEF PollLines, TimerTypes, registers, timers
<1> QED
  BY <1>1, <1>2, <1>3, <1>4, <1>5, <1>6, <1>7 DEF Machine

-----------------------------------------------------------------------------
(* Nesting.                                                                *)

\* Of some numbers up to five one is the least.
LEMMA LeastOfSix ==
  ASSUME NEW S \in SUBSET (0 .. 5), S # {}
  PROVE  \E s \in S : \A r \in S : s <= r
<1>1. CASE 0 \in S
  BY <1>1
<1>2. CASE 0 \notin S /\ 1 \in S
  BY <1>2
<1>3. CASE 0 \notin S /\ 1 \notin S /\ 2 \in S
  BY <1>3
<1>4. CASE S \subseteq 3 .. 5 /\ 3 \in S
  BY <1>4
<1>5. CASE S \subseteq 4 .. 5 /\ 4 \in S
  BY <1>5
<1>6. CASE S \subseteq {5}
  <2>1. S = {5}
    BY <1>6
  <2> QED
    BY <2>1
<1> QED
  BY <1>1, <1>2, <1>3, <1>4, <1>5, <1>6

\* Some candidate is the one the scan looks for.
LEMMA BestIsCandidate ==
  ASSUME Types, Candidates # {} PROVE Best \in Candidates
<1> DEFINE High == {s \in Candidates : Prio(s) = 1}
           IsBest(s) == \A r \in Candidates :
                          Prio(s) > Prio(r) \/ (Prio(s) = Prio(r) /\ s <= r)
<1>1. Candidates \in SUBSET (0 .. 5) /\ \A s : Prio(s) \in {0, 1}
  BY Numbers, UsedIsKnown DEF Types, Stacked, TypeOK, Candidates, Prio
<1>2. CASE High # {}
  <2>1. PICK s \in High : \A r \in High : s <= r
    BY <1>1, <1>2, LeastOfSix
  <2>2. IsBest(s)
    BY <1>1, <2>1
  <2> QED
    BY <2>1, <2>2 DEF Best
<1>3. CASE High = {}
  <2>1. PICK s \in Candidates : \A r \in Candidates : s <= r
    BY <1>1, LeastOfSix
  <2>2. IsBest(s)
    BY <1>1, <1>3, <2>1
  <2> QED
    BY <2>1, <2>2 DEF Best
<1> QED
  BY <1>2, <1>3

LEMMA InitNesting == Init => NestingIsMasked
<1> SUFFICES ASSUME Init PROVE NestingIsMasked
  OBVIOUS
<1>1. HandlersIn(todo) = {}
  BY DEF Init, HandlersIn
<1>2. Cardinality(HandlersIn(todo)) = 0
  BY <1>1, FS_EmptySet
<1>3. prios = <<>>
  BY DEF Init
<1> QED
  BY <1>2, <1>3 DEF NestingIsMasked

\* A dispatch pushes a handler that outranks all below it.
LEMMA DispatchNests ==
  ASSUME Types, NestingIsMasked, Dispatch
  PROVE  /\ NestingIsMasked' /\ todo' \in Seq(CallsFor(used))
         /\ prios' \in Seq({0, 1})
<1>1. Best \in Candidates /\ Best \in Sources
  BY BestIsCandidate, UsedIsKnown
     DEF Dispatch, Candidates, Types, Stacked, TypeOK
<1>2. SameDepth(Tail(todo), todo)
  BY TopIsPlain DEF Dispatch, Types
<1>3. todo' = << <<"isr", Best>> >> \o Tail(todo) /\ prios' = Append(prios, Prio(Best))
  BY DEF Dispatch
<1>4. todo' \in Seq(CallsFor(used)) /\ Depth(todo') = Depth(todo) + 1
  BY <1>1, <1>2, <1>3, HandlerPush DEF SameDepth
<1>5. prios \in Seq({0, 1}) /\ Prio(Best) \in {0, 1}
  BY DEF Types, TypeOK, Prio
<1>6. prios' \in Seq({0, 1}) /\ Len(prios') = Len(prios) + 1
  BY <1>3, <1>5
<1>7. ASSUME NEW i \in DOMAIN prios', NEW j \in DOMAIN prios', i < j
      PROVE  prios'[i] < prios'[j]
  <2>1. CASE j \in DOMAIN prios
    BY <1>3, <1>5, <1>7, <2>1 DEF NestingIsMasked
  <2>2. CASE j = Len(prios) + 1
    <3>1. prios # <<>> /\ i \in DOMAIN prios /\ prios'[i] = prios[i]
      BY <1>3, <1>5, <1>7, <2>2
    <3>2. Prio(Best) > prios[Len(prios)]
      BY <1>1, <3>1 DEF Candidates, Outranks, InService
    <3>3. i = Len(prios) \/ prios[i] < prios[Len(prios)]
      BY <1>5, <3>1 DEF NestingIsMasked
    <3>4. /\ prios[i] \in {0, 1} /\ prios[Len(prios)] \in {0, 1}
          /\ prios'[j] = Prio(Best)
      BY <1>3, <1>5, <2>2, <3>1
    <3> QED
      BY <1>5, <3>1, <3>2, <3>3, <3>4
  <2> QED
    BY <1>3, <1>5, <2>1, <2>2
<1>8. Len(prios) = Depth(todo)
  BY DEF NestingIsMasked, Depth
<1>9. NestingIsMasked'
  BY <1>4, <1>6, <1>7, <1>8 DEF NestingIsMasked, Depth
<1> QED
  BY <1>4, <1>6, <1>9

LEMMA ReturnNests ==
  ASSUME Types, NestingIsMasked, Return
  PROVE  /\ NestingIsMasked' /\ todo' \in Seq(CallsFor(used))
         /\ prios' \in Seq({0, 1})
<1>1. todo' \in Seq(CallsFor(used)) /\ Depth(todo) = Depth(todo') + 1
  BY HandlerPop DEF Return, Types, Stacked
<1>2. Len(prios) = Depth(todo) /\ prios \in Seq({0, 1})
  BY DEF NestingIsMasked, Depth, Types, TypeOK
<1>3. Depth(todo') \in Nat
  BY <1>1, HandlersFinite, FS_CardinalityType DEF Depth
<1>4. Len(prios) >= 1 /\ prios' = SubSeq(prios, 1, Len(prios) - 1)
  BY <1>1, <1>2, <1>3 DEF Return
<1>5. /\ prios' \in Seq({0, 1}) /\ Len(prios') = Len(prios) - 1
      /\ \A i \in 1 .. Len(prios') : prios'[i] = prios[i] /\ i \in 1 .. Len(prios)
  BY <1>2, <1>4
<1>6. Len(prios') = Depth(todo')
  BY <1>1, <1>2, <1>3, <1>5
<1>7. NestingIsMasked'
  BY <1>2, <1>5, <1>6 DEF NestingIsMasked, Depth
<1> QED
  BY <1>1, <1>5, <1>7

-----------------------------------------------------------------------------
(* Types and nesting together: the pop of a handler needs both.            *)

IInv == Types /\ NestingIsMasked

SuppressType == suppress \in BOOLEAN

LEMMA NextSuppress == SuppressType /\ Next => SuppressType'
<1> SUFFICES ASSUME SuppressType, Next PROVE SuppressType'
  OBVIOUS
<1>1. UNCHANGED suppress \/ suppress' = FALSE \/ suppress' = TRUE
        \/ suppress' = (suppress /\ InService)
  BY DEF Next, FirmwareAccess, Machine, Idle, WriteIE, WriteIP, WriteIT,
         ClearFlag, Start, Stop, Reload, Transmit, Return, DoStep, Sent,
         Receive, ReceiveNothing, ScanSuppressed, ScanDisabled, ScanNothing,
         Dispatch, TimerOverflow, TimerNotDue, Rearm, PollLines, Microstep,
         service
<1> QED
  BY <1>1, Zenon DEF SuppressType

\* What remains of a step once its registers, timers and requests are typed.
LEMMA NextTodo ==
  ASSUME IInv, Next
  PROVE  /\ NestingIsMasked' /\ todo' \in Seq(CallsFor(used))
         /\ prios' \in Seq({0, 1}) /\ UNCHANGED used
<1>1. CASE Dispatch
  BY <1>1, DispatchNests DEF IInv, Dispatch, registers
<1>2. CASE Return
  BY <1>2, ReturnNests DEF IInv, Return, registers
<1>3. CASE FirmwareAccess \/ (Machine /\ ~Dispatch)
  <2>1. SameDepth(todo', todo) /\ UNCHANGED <<prios, used>>
    BY <1>3, AccessTodo, MachineTodo DEF IInv, Types
  <2> QED
    BY <2>1 DEF SameDepth, IInv, Types, TypeOK, NestingIsMasked, Depth
<1> QED
  BY <1>1, <1>2, <1>3 DEF Next

LEMMA NextRest ==
  ASSUME IInv, Next PROVE RegisterTypes' /\ TimerTypes' /\ RequestTypes'
<1>1. CASE Return
  BY <1>1
     DEF Return, registers, timers, requests, RegisterTypes, TimerTypes,
         RequestTypes, IInv, Types, TypeOK
<1> QED
  BY <1>1, AccessTypes, MachineTypes DEF Next, IInv

LEMMA NextIInv == IInv /\ [Next]_vars => IInv'
<1> SUFFICES ASSUME IInv, [Next]_vars PROVE IInv'
  OBVIOUS
<1>1. CASE Next
  <2>1. Stacked' /\ NestingIsMasked'
    BY <1>1, NextTodo DEF IInv, Types, Stacked
  <2>2. todo' \in Seq(Calls)
    <3>1. (Stacked => todo \in Seq(Calls))'
      <4>1. ASSUME used' \in Uses PROVE CallsFor(used') \subseteq Calls
        BY <4>1 DEF CallsFor, Plain, Calls
      <4> QED
        BY <4>1 DEF Stacked, CallsFor, Plain
    <3> QED
      BY <2>1, <3>1
  <2>3. SuppressType'
    BY <1>1, NextSuppress, Zenon DEF SuppressType, IInv, Types, TypeOK
  <2>4. TypeOK'
    BY <1>1, <2>1, <2>2, <2>3, NextTodo, NextRest, Zenon
       DEF TypeOK, RegisterTypes, TimerTypes, RequestTypes, SuppressType, Stacked
  <2> QED
    BY <2>1, <2>4 DEF IInv, Types
<1>2. CASE UNCHANGED vars
  <2>1. /\ UNCHANGED <<used, ie, ip, edge, flag, pending, owed, sampled>>
        /\ UNCHANGED <<running, armed, due, fresh, todo, prios, suppress>>
    BY <1>2, Zenon DEF vars, registers, timers, requests, service
  <2> QED
    BY <2>1, Zenon
       DEF IInv, Types, Stacked, TypeOK, NestingIsMasked, HandlersIn, CallsFor,
           Plain
<1> QED
  BY <1>1, <1>2

LEMMA Invariant == Spec => []IInv
<1>1. Init => IInv
  BY InitTypes, InitNesting DEF IInv
<1> QED
  BY <1>1, NextIInv, PTL DEF Spec

\* Registers, timers, requests and C stack keep their types, for any firmware.
THEOREM TypeCorrect == Spec => []TypeOK
<1>1. IInv => TypeOK
  BY DEF IInv, Types
<1> QED
  BY <1>1, Invariant, PTL

\* Handlers nest by rising priority, and the controller's stack is the C stack.
THEOREM HandlersNest == Spec => []NestingIsMasked
<1>1. IInv => NestingIsMasked
  BY DEF IInv
<1> QED
  BY <1>1, Invariant, PTL

-----------------------------------------------------------------------------
(* Requests.                                                               *)

\* The source's event is still there to be seen.
Live(s) == IF s = UART0 THEN flag \cap {RI, TI} # {} ELSE s \in flag

LEMMA InitRequests == Init => NoRequestForgotten
BY DEF Init, NoRequestForgotten

LEMMA QuietRequests ==
  ASSUME NoRequestForgotten, flag' \subseteq flag, UNCHANGED <<pending, owed>>
  PROVE  NoRequestForgotten'
BY DEF NoRequestForgotten

\* An event raises the request of the source whose flag it sets.
LEMMA RaiseRequests ==
  ASSUME IInv, NoRequestForgotten, NEW s \in Sources, Raise(s), NEW f \in Flags,
         flag' = flag \cup {f}, f \in {RI, TI} <=> s = UART0,
         s # UART0 => f = s, owed' \subseteq owed \cup {s}
  PROVE  NoRequestForgotten'
<1> SUFFICES ASSUME NEW r \in owed', Live(r)' PROVE r \in pending'
  BY DEF NoRequestForgotten, Live
<1>1. CASE r = s
  BY <1>1 DEF Raise
<1>2. CASE r # s
  <2>1. r \in owed /\ r \in Sources
    BY <1>2, UsedIsKnown DEF IInv, Types, Stacked, TypeOK
  <2>2. Live(r)
    BY <1>2, <2>1, Numbers DEF Live
  <2> QED
    BY <2>1, <2>2 DEF NoRequestForgotten, Live, Raise
<1> QED
  BY <1>1, <1>2

LEMMA PollRequests ==
  ASSUME IInv, NoRequestForgotten, NEW read \in SUBSET (Lines \cap used),
         NEW low \in SUBSET read, PollLines(read, low)
  PROVE  NoRequestForgotten'
<1> DEFINE falling == {l \in (read \cap low) \cap edge : l \notin sampled}
           raised == {l \in read : IF l \in edge THEN l \in flag \cup falling
                                                 ELSE l \in low}
<1>1. /\ flag' = flag \cup falling /\ pending' = pending \cup raised
      /\ owed' = owed \cup falling \cup (raised \ edge)
  BY DEF PollLines
<1>2. falling \subseteq raised /\ falling \subseteq Lines
  OBVIOUS
<1> HIDE DEF falling, raised
<1> SUFFICES ASSUME NEW r \in owed', Live(r)' PROVE r \in pending'
  BY DEF NoRequestForgotten, Live
<1>3. CASE r \in raised
  BY <1>1, <1>3
<1>4. CASE r \notin raised
  <2>1. r \in owed /\ Live(r)
    BY <1>1, <1>2, <1>4, Numbers DEF Live
  <2> QED
    BY <1>1, <2>1 DEF NoRequestForgotten, Live
<1> QED
  BY <1>3, <1>4

\* A scan drops only requests whose event is gone.
LEMMA ScanRequests ==
  ASSUME IInv, NoRequestForgotten, ScanNothing \/ Dispatch
  PROVE  NoRequestForgotten'
<1>1. \A s \in Stale : ~Live(s)
  <2> SUFFICES ASSUME NEW s, Live(s) PROVE FlagSet(s)
    BY DEF Stale
  <2>1. CASE s = UART0
    BY <2>1, Numbers DEF FlagSet, Live
  <2>2. CASE s # UART0 /\ s \in Lines
    BY <2>2 DEF FlagSet, Live
  <2>3. CASE s # UART0 /\ s \notin Lines
    BY <2>3 DEF FlagSet, Live
  <2> QED
    BY <2>1, <2>2, <2>3
<1>2. CASE ScanNothing
  BY <1>1, <1>2 DEF ScanNothing, NoRequestForgotten, Live
<1>3. CASE Dispatch
  <2>1. /\ pending' = pending \ (Stale \cup {Best})
        /\ flag' \subseteq flag /\ owed' = owed \ {Best}
    BY <1>3 DEF Dispatch
  <2> QED
    BY <1>1, <2>1 DEF NoRequestForgotten, Live
<1> QED
  BY <1>2, <1>3

LEMMA NextRequests == IInv /\ NoRequestForgotten /\ [Next]_vars => NoRequestForgotten'
<1> SUFFICES ASSUME IInv, NoRequestForgotten, [Next]_vars PROVE NoRequestForgotten'
  OBVIOUS
<1>1. CASE flag' \subseteq flag /\ UNCHANGED <<pending, owed>>
  BY <1>1, QuietRequests
<1>2. CASE Sent \/ Receive
  <2>1. UART0 \in Sources
    <3>1. <<"sent", 0>> \in Plain(used) \/ <<"uart", 0>> \in Plain(used)
      BY <1>2, TopIsPlain DEF Sent, Receive, IInv, Types
    <3> QED
      BY <3>1, UsedIsKnown DEF Plain, IInv, Types, Stacked
  <2> QED
    BY <1>2, <2>1, RaiseRequests, Numbers DEF Sent, Receive
<1>3. CASE \E t \in Timers : TimerOverflow(t)
  <2>1. PICK t \in Timers : TimerOverflow(t)
    BY <1>3
  <2>2. /\ t \in Sources /\ t # UART0 /\ t \in Flags /\ t \notin {RI, TI}
        /\ Raise(t) /\ flag' = flag \cup {t} /\ owed' \subseteq owed \cup {t}
    BY <2>1, Numbers DEF TimerOverflow
  <2> QED
    BY <2>2, RaiseRequests
<1>4. CASE \E read \in SUBSET (Lines \cap used) :
             \E low \in SUBSET read : PollLines(read, low)
  BY <1>4, PollRequests
<1>5. CASE ScanNothing \/ Dispatch
  BY <1>5, ScanRequests
<1> QED
  BY <1>1, <1>2, <1>3, <1>4, <1>5
     DEF Next, FirmwareAccess, Machine, Idle, WriteIE, WriteIP, WriteIT,
         ClearFlag, Start, Stop, Reload, Transmit, Return, DoStep,
         ReceiveNothing, ScanSuppressed, ScanDisabled, TimerNotDue, Rearm,
         requests, vars

\* Whatever masks or delays it, a request whose flag is set stays latched.
THEOREM RequestsStay == Spec => []NoRequestForgotten
BY InitRequests, NextRequests, Invariant, PTL DEF Spec

-----------------------------------------------------------------------------
(* Events.                                                                 *)

\* Every latched request, and every edge flag that would latch one again,
\* stands for an event that has not been served.
Accounted == pending \subseteq owed /\ flag \cap Lines \subseteq owed

LEMMA NextAccounted == IInv /\ Accounted /\ [Next]_vars => Accounted'
<1> SUFFICES ASSUME IInv, Accounted, [Next]_vars PROVE Accounted'
  OBVIOUS
<1>1. CASE flag' \subseteq flag /\ UNCHANGED <<pending, owed>>
  BY <1>1 DEF Accounted
<1>2. CASE Sent \/ Receive
  BY <1>2, Numbers DEF Sent, Receive, Raise, Accounted
<1>3. CASE \E t \in Timers : TimerOverflow(t)
  <2>1. PICK t \in Timers : TimerOverflow(t)
    BY <1>3
  <2>2. t \in fresh
    BY <2>1 DEF TimerOverflow, IInv, Types, TypeOK
  <2> QED
    BY <2>1, <2>2, Numbers DEF TimerOverflow, Raise, Accounted
<1>4. CASE \E read \in SUBSET (Lines \cap used) :
             \E low \in SUBSET read : PollLines(read, low)
  BY <1>4 DEF PollLines, Accounted
<1>5. CASE ScanNothing
  BY <1>5 DEF ScanNothing, Accounted
<1>6. CASE Dispatch
  <2>1. /\ pending' = pending \ (Stale \cup {Best}) /\ owed' = owed \ {Best}
        /\ flag' = flag \ ({Best} \cap HwAutoClear)
    BY <1>6 DEF Dispatch
  <2>2. Lines \subseteq HwAutoClear
    BY DEF Lines, HwAutoClear
  <2> QED
    BY <2>1, <2>2 DEF Accounted
<1> QED
  BY <1>1, <1>2, <1>3, <1>4, <1>5, <1>6
     DEF Next, FirmwareAccess, Machine, Idle, WriteIE, WriteIP, WriteIT,
         ClearFlag, Start, Stop, Reload, Transmit, Return, DoStep,
         ReceiveNothing, ScanSuppressed, ScanDisabled, TimerNotDue, Rearm,
         requests, vars

LEMMA StepServesOnce ==
  ASSUME IInv, Accounted, Next, NEW s \in Sources,
         Len(prios') > Len(prios), Head(todo')[2] = s
  PROVE  s \in owed
<1>1. CASE Dispatch
  <2>1. Best \in pending
    BY <1>1, BestIsCandidate DEF IInv, Dispatch, Candidates
  <2>2. Head(todo') = <<"isr", Best>>
    <3>1. todo' = << <<"isr", Best>> >> \o Tail(todo)
      BY <1>1 DEF Dispatch
    <3>2. Tail(todo) \in Seq(CallsFor(used))
      BY <1>1, TopIsPlain DEF Dispatch, IInv, Types, SameDepth
    <3> QED
      BY <3>1, <3>2
  <2> QED
    BY <2>1, <2>2 DEF Accounted
<1>2. CASE Return
  <2>1. prios \in Seq({0, 1}) /\ prios' = SubSeq(prios, 1, Len(prios) - 1)
    BY <1>2 DEF Return, IInv, Types, TypeOK
  <2>2. Len(prios') <= Len(prios)
    BY <2>1
  <2> QED
    BY <2>1, <2>2, NextTodo
<1>3. CASE FirmwareAccess \/ (Machine /\ ~Dispatch)
  <2>1. UNCHANGED prios /\ Len(prios) \in Nat
    BY <1>3, AccessTodo, MachineTodo DEF IInv, Types, TypeOK
  <2> QED
    BY <2>1
<1> QED
  BY <1>1, <1>2, <1>3 DEF Next

\* A handler is entered only for an event that has not been served yet.
THEOREM ServedOnce == Spec => OncePerEvent
<1>1. Init => Accounted
  BY DEF Init, Accounted
<1>2. IInv /\ Accounted /\ [Next]_vars =>
        [\A s \in Sources :
           Len(prios') > Len(prios) /\ Head(todo')[2] = s => s \in owed]_vars
  BY StepServesOnce
<1> QED
  BY <1>1, <1>2, NextAccounted, Invariant, PTL DEF Spec, OncePerEvent
=============================================================================
