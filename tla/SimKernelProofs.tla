-------------------------- MODULE SimKernelProofs --------------------------
(***************************************************************************)
(* Theorems about SimKernel, for any number of task slots, mutexes and     *)
(* semaphores.  The argument: lemmas on the wait lines, type correctness,  *)
(* then one inductive invariant per safety property, last the refinement.  *)
(***************************************************************************)
EXTENDS SimKernel, SequenceTheorems, FiniteSetTheorems, TLAPS

USE NAssumption, MaxDelayAssumption, MaxTicksAssumption

-----------------------------------------------------------------------------
(* Wait lines.                                                             *)

\* a wait line is a sequence of at most N task slots
LEMMA WaitLineIsSeq ==
  /\ <<>> \in WaitLine
  /\ \A q : q \in WaitLine <=> q \in Seq(Slots) /\ Len(q) <= N
<1>1. ASSUME NEW q, q \in WaitLine
      PROVE  q \in Seq(Slots) /\ Len(q) <= N
  <2>1. PICK n \in 0 .. N : q \in [1 .. n -> Slots]
    BY <1>1 DEF WaitLine
  <2>2. q \in Seq(Slots)
    BY <2>1, SeqDef
  <2> QED BY <2>1, <2>2, LenProperties
<1>2. ASSUME NEW q, q \in Seq(Slots), Len(q) <= N
      PROVE  q \in WaitLine
  BY <1>2, LenProperties DEF WaitLine
<1>3. <<>> \in Seq(Slots) /\ Len(<<>>) <= N
  BY EmptySeq
<1> QED BY <1>1, <1>2, <1>3

\* hwq_push keeps an entry list within its capacity
LEMMA PushType ==
  ASSUME NEW q \in WaitLine, NEW t \in Slots
  PROVE  Push(q, t) \in WaitLine
<1>1. q \in Seq(Slots) /\ Len(q) <= N
  BY WaitLineIsSeq
<1>2. Append(q, t) \in Seq(Slots) /\ Len(Append(q, t)) = Len(q) + 1
  BY <1>1
<1>3. Len(q) \in Nat
  BY <1>1, LenProperties
<1>4. CASE Len(q) >= N
  BY <1>4 DEF Push
<1>5. CASE Len(q) < N
  <2>1. Len(Append(q, t)) <= N
    BY <1>2, <1>3, <1>5
  <2>2. Append(q, t) \in WaitLine
    BY <1>2, <2>1, WaitLineIsSeq
  <2> QED BY <1>3, <1>5, <2>2 DEF Push
<1> QED BY <1>3, <1>4, <1>5

\* hwq_pop
LEMMA PopType ==
  ASSUME NEW q \in WaitLine, q # <<>>
  PROVE  /\ Head(q) \in Slots
         /\ Tail(q) \in WaitLine
<1>1. q \in Seq(Slots) /\ Len(q) <= N
  BY WaitLineIsSeq
<1>2. Len(q) \in Nat
  BY <1>1, LenProperties
<1>3. /\ Head(q) \in Slots
      /\ Tail(q) \in Seq(Slots)
      /\ Len(Tail(q)) = Len(q) - 1
  BY <1>1, HeadTailProperties
<1>4. Len(Tail(q)) <= N
  BY <1>1, <1>2, <1>3
<1> QED BY <1>3, <1>4, WaitLineIsSeq

-----------------------------------------------------------------------------
(* Type correctness.                                                       *)

\* after boot every variable has its type
LEMMA TypeInit == Init => TypeOK
BY WaitLineIsSeq DEF Init, SchedInit, TypeOK, SchedTypeOK, Slots, NoReady, Never, NoOwner,
       Callers, TaskStates, WakeReasons

TaskTable ==
  /\ state \in [Slots -> TaskStates]
  /\ due \in [Slots -> {Never} \cup 0 .. MaxDelay]
  /\ timeoutFired \in [Slots -> BOOLEAN]
  /\ wakeReason \in [Slots -> WakeReasons]

\* the operations on the task table keep it a task table
LEMMA TaskTableOps ==
  ASSUME TaskTable, NEW t \in Slots
  PROVE  /\ Register(t) => TaskTable'
         /\ MarkZombie(t) => TaskTable'
         /\ \A d \in 0 .. MaxDelay : YieldTimed(t, d) \/ Block(t, d) => TaskTable'
         /\ \A r \in WakeReasons : Resume(t, r) => TaskTable'
         /\ UNCHANGED taskVars => TaskTable'
<1> USE DEF TaskTable, TaskStates, WakeReasons
<1>1. Register(t) => TaskTable'
  BY DEF Register
<1>2. MarkZombie(t) => TaskTable'
  BY DEF MarkZombie
<1>3. \A d \in 0 .. MaxDelay : YieldTimed(t, d) => TaskTable'
  BY DEF YieldTimed
<1>4. \A d \in 0 .. MaxDelay : Block(t, d) => TaskTable'
  BY DEF Block
<1>5. \A r \in WakeReasons : Resume(t, r) => TaskTable'
  BY DEF Resume, taskVars
<1>6. UNCHANGED taskVars => TaskTable'
  BY DEF taskVars
<1> QED BY <1>1, <1>2, <1>3, <1>4, <1>5, <1>6

\* so does the clock
LEMMA ElapseType ==
  ASSUME TaskTable, NEW d \in 0 .. MaxDelay, Elapse(d)
  PROVE  due' \in [Slots -> {Never} \cup 0 .. MaxDelay]
BY DEF TaskTable, Elapse, Never

\* an iteration of the dispatch loop keeps the scheduler's types
LEMMA LoopType ==
  ASSUME SchedTypeOK, Loop
  PROVE  SchedTypeOK'
<1> USE DEF SchedTypeOK, TaskStates, WakeReasons, loopVars
<1>1. CASE LoopStops
  BY <1>1 DEF LoopStops, Collected
<1>2. ASSUME NEW t \in Slots, SwitchIn(t)
      PROVE  SchedTypeOK'
  <2>1. /\ state' \in [Slots -> TaskStates]
        /\ due' \in [Slots -> {Never} \cup 0 .. MaxDelay]
        /\ timeoutFired' \in [Slots -> BOOLEAN]
    BY <1>2 DEF SwitchIn, Woken, Collected
  <2>2. wakeReason' \in [Slots -> WakeReasons]
    BY <1>2 DEF SwitchIn, ReasonNow
  <2> QED BY <1>2, <2>1, <2>2 DEF SwitchIn
<1>3. CASE IdleAdvance
  <2>1. PICK t \in Armed : Elapse(due[t])
    BY <1>3 DEF IdleAdvance
  <2>2. due[t] \in 0 .. MaxDelay
    BY <2>1 DEF Armed
  <2>3. due' \in [Slots -> {Never} \cup 0 .. MaxDelay] /\ atZero' \in BOOLEAN
    BY <2>1, <2>2, ElapseType DEF TaskTable, Elapse
  <2>4. state' \in [Slots -> TaskStates]
    BY <1>3 DEF IdleAdvance, Collected
  <2> QED BY <1>3, <2>3, <2>4 DEF IdleAdvance
<1>4. CASE IdleStops
  BY <1>4 DEF IdleStops, Collected
<1> QED BY <1>1, <1>2, <1>3, <1>4 DEF Loop

\* a task that returns from a lock or take call, with its timeout entry
\* removed from the line, keeps the types
LEMMA ReturnType ==
  ASSUME TypeOK
  PROVE  \A m \in Mutexes : MutexReturn(m) => TypeOK'
<1> SUFFICES ASSUME NEW m \in Mutexes, MutexReturn(m)
             PROVE  TypeOK'
  OBVIOUS
<1>1. mwait' \in [Mutexes -> WaitLine] /\ holds' \in [Callers -> SUBSET Mutexes]
  BY DEF MutexReturn, TypeOK, Callers
<1>2. call' \in [Slots -> {"idle", "sleep"} \cup Mutexes \cup Sems]
  BY DEF MutexReturn, TypeOK
<1> QED BY <1>1, <1>2 DEF MutexReturn, TypeOK, SchedTypeOK, schedVars

\* the pieces of TypeOK an action on one mutex, one semaphore or one task
\* changes
MutexTypes == /\ mutexUsed \in [Mutexes -> BOOLEAN]
              /\ owner \in [Mutexes -> Callers \cup {NoOwner}]
              /\ mwait \in [Mutexes -> WaitLine]
SemTypes   == /\ semUsed \in [Sems -> BOOLEAN]
              /\ count \in [Sems -> {0, 1}]
              /\ swait \in [Sems -> WaitLine]
CallTypes  == /\ call \in [Slots -> {"idle", "sleep"} \cup Mutexes \cup Sems]
              /\ holds \in [Callers -> SUBSET Mutexes]
RestTypes  == /\ current \in Slots \cup {NoReady}
              /\ last \in Slots \cup {NoReady}
              /\ atZero \in BOOLEAN
              /\ running \in BOOLEAN
              /\ main \in Slots \cup {NoReady}
              /\ ticks \in 0 .. MaxTicks

\* TypeOK by the parts that different operations leave alone
LEMMA TypeParts ==
  /\ TypeOK <=> TaskTable /\ RestTypes /\ MutexTypes /\ SemTypes /\ CallTypes
  /\ TypeOK' <=> (TaskTable /\ RestTypes /\ MutexTypes /\ SemTypes /\ CallTypes)'
BY DEF TypeOK, SchedTypeOK, TaskTable, RestTypes, MutexTypes, SemTypes, CallTypes

\* the switch back to the loop names a slot and counts within MaxTicks
LEMMA SwitchOutType ==
  ASSUME RestTypes, SwitchOut
  PROVE  current' \in Slots \cup {NoReady} /\ ticks' \in 0 .. MaxTicks
BY DEF RestTypes, SwitchOut

\* every mutex call keeps the types
LEMMA MutexType ==
  ASSUME TypeOK, NEW m \in Mutexes
  PROVE  /\ MutexCreate(m) => TypeOK'
         /\ MutexAcquire(m) => TypeOK'
         /\ MutexUnlock(m) => TypeOK'
         /\ MutexDestroy(m) => TypeOK'
         /\ \A d \in LockTimeouts : MutexWait(m, d) => TypeOK'
<1> USE TypeParts
<1>1. ASSUME MutexCreate(m)
      PROVE  TypeOK'
  <2>1. MutexTypes'
    BY <1>1, WaitLineIsSeq DEF MutexCreate, MutexTypes
  <2> QED BY <1>1, <2>1 DEF MutexCreate, schedVars, TaskTable, RestTypes, SemTypes, CallTypes
<1>2. ASSUME MutexAcquire(m)
      PROVE  TypeOK'
  <2>1. current \in Callers
    BY DEF RestTypes, Callers
  <2>2. MutexTypes' /\ CallTypes'
    BY <1>2, <2>1 DEF MutexAcquire, MutexTypes, CallTypes
  <2> QED BY <1>2, <2>2 DEF MutexAcquire, schedVars, TaskTable, RestTypes, SemTypes
<1>3. ASSUME MutexUnlock(m)
      PROVE  TypeOK'
  <2>1. current \in Callers
    BY DEF RestTypes, Callers
  <2>2. mwait[m] \in WaitLine
    BY DEF MutexTypes
  <2>3. mwait[m] # <<>> => Head(mwait[m]) \in Slots /\ Tail(mwait[m]) \in WaitLine
    BY <2>2, PopType
  <2>4. MutexTypes'
    BY <1>3, <2>3 DEF MutexUnlock, MutexTypes, Callers
  <2>5. CallTypes'
    BY <1>3, <2>1 DEF MutexUnlock, CallTypes
  <2>6. TaskTable'
    BY <1>3, <2>3, TaskTableOps DEF MutexUnlock, TaskTable, WakeReasons, taskVars, Resume
  <2> QED BY <1>3, <2>4, <2>5, <2>6 DEF MutexUnlock, loopVars, RestTypes, SemTypes
<1>4. ASSUME MutexDestroy(m)
      PROVE  TypeOK'
  <2>1. MutexTypes'
    BY <1>4 DEF MutexDestroy, MutexTypes
  <2> QED BY <1>4, <2>1 DEF MutexDestroy, schedVars, TaskTable, RestTypes, SemTypes, CallTypes
<1>5. ASSUME NEW d \in LockTimeouts, MutexWait(m, d)
      PROVE  TypeOK'
  <2>1. current \in Slots /\ d \in 0 .. MaxDelay
    BY <1>5, DelayAssumption DEF MutexWait, InTask
  <2>2. TaskTable'
    BY <1>5, <2>1, TaskTableOps DEF MutexWait
  <2>3. MutexTypes'
    BY <1>5, <2>1, PushType DEF MutexWait, MutexTypes
  <2>4. RestTypes'
    BY <1>5, SwitchOutType DEF MutexWait, RestTypes
  <2> QED BY <1>5, <2>2, <2>3, <2>4 DEF MutexWait, CallTypes, SemTypes
<1> QED BY <1>1, <1>2, <1>3, <1>4, <1>5

\* every semaphore call keeps the types, from a task or an interrupt
LEMMA SemType ==
  ASSUME TypeOK, NEW s \in Sems
  PROVE  /\ SemCreate(s) => TypeOK'
         /\ SemAcquire(s) => TypeOK'
         /\ SemDestroy(s) => TypeOK'
         /\ SemReturn(s) => TypeOK'
         /\ \A d \in TakeTimeouts : SemWait(s, d) => TypeOK'
         /\ \A r \in WakeReasons : GiveTo(s, r) => TypeOK'
<1> USE TypeParts
<1>1. ASSUME SemCreate(s)
      PROVE  TypeOK'
  <2>1. SemTypes'
    BY <1>1, WaitLineIsSeq DEF SemCreate, SemTypes
  <2> QED BY <1>1, <2>1 DEF SemCreate, schedVars, TaskTable, RestTypes, MutexTypes, CallTypes
<1>2. ASSUME SemAcquire(s)
      PROVE  TypeOK'
  <2>1. SemTypes'
    BY <1>2 DEF SemAcquire, SemTypes
  <2> QED BY <1>2, <2>1 DEF SemAcquire, schedVars, TaskTable, RestTypes, MutexTypes, CallTypes
<1>3. ASSUME SemDestroy(s)
      PROVE  TypeOK'
  <2>1. SemTypes'
    BY <1>3 DEF SemDestroy, SemTypes
  <2> QED BY <1>3, <2>1 DEF SemDestroy, schedVars, TaskTable, RestTypes, MutexTypes, CallTypes
<1>4. ASSUME SemReturn(s)
      PROVE  TypeOK'
  <2>1. SemTypes'
    BY <1>4 DEF SemReturn, SemTypes
  <2>2. CallTypes'
    BY <1>4 DEF SemReturn, CallTypes
  <2> QED BY <1>4, <2>1, <2>2 DEF SemReturn, schedVars, TaskTable, RestTypes, MutexTypes
<1>5. ASSUME NEW d \in TakeTimeouts, SemWait(s, d)
      PROVE  TypeOK'
  <2>1. current \in Slots /\ d \in 0 .. MaxDelay
    BY <1>5, DelayAssumption DEF SemWait, InTask
  <2>2. TaskTable'
    BY <1>5, <2>1, TaskTableOps DEF SemWait
  <2>3. SemTypes'
    BY <1>5, <2>1, PushType DEF SemWait, SemTypes
  <2>4. RestTypes'
    BY <1>5, SwitchOutType DEF SemWait, RestTypes
  <2> QED BY <1>5, <2>2, <2>3, <2>4 DEF SemWait, CallTypes, MutexTypes
<1>6. ASSUME NEW r \in WakeReasons, GiveTo(s, r)
      PROVE  TypeOK'
  <2>1. swait[s] \in WaitLine
    BY DEF SemTypes
  <2>2. swait[s] # <<>> => Head(swait[s]) \in Slots /\ Tail(swait[s]) \in WaitLine
    BY <2>1, PopType
  <2>3. SemTypes'
    BY <1>6, <2>2 DEF GiveTo, SemTypes
  <2>4. TaskTable'
    <3>1. CASE swait[s] # <<>>
      BY <1>6, <2>2, <3>1, TaskTableOps DEF GiveTo
    <3>2. CASE swait[s] = <<>>
      BY <1>6, <3>2 DEF GiveTo, TaskTable, taskVars
    <3> QED BY <3>1, <3>2
  <2> QED BY <1>6, <2>3, <2>4 DEF GiveTo, loopVars, RestTypes, MutexTypes, CallTypes
<1> QED BY <1>1, <1>2, <1>3, <1>4, <1>5, <1>6

\* sleeping and busy-waiting keep the types
LEMMA TimeType ==
  ASSUME TypeOK, TimeStep
  PROVE  TypeOK'
<1> USE TypeParts
<1>1. ASSUME NEW d \in Delays, Sleep(d)
      PROVE  TypeOK'
  <2>1. current \in Slots /\ d \in 0 .. MaxDelay
    BY <1>1, DelayAssumption DEF Sleep, InTask
  <2>2. TaskTable'
    BY <1>1, <2>1, TaskTableOps DEF Sleep
  <2>3. RestTypes'
    BY <1>1, SwitchOutType DEF Sleep, RestTypes
  <2> QED BY <1>1, <2>2, <2>3 DEF Sleep, syncVars, CallTypes, MutexTypes, SemTypes
<1>2. ASSUME SleepReturn
      PROVE  TypeOK'
  <2>1. CallTypes'
    BY <1>2 DEF SleepReturn, CallTypes
  <2> QED BY <1>2, <2>1 DEF SleepReturn, schedVars, syncVars, TaskTable, RestTypes,
                            MutexTypes, SemTypes
<1>3. ASSUME NEW d \in Delays, BusyWait(d)
      PROVE  TypeOK'
  <2>1. d \in 0 .. MaxDelay /\ Elapse(d)
    BY <1>3, DelayAssumption DEF BusyWait
  <2>2. due' \in [Slots -> {Never} \cup 0 .. MaxDelay]
    BY <2>1, ElapseType
  <2>3. TaskTable'
    BY <1>3, <2>2 DEF BusyWait, TaskTable
  <2>4. RestTypes'
    BY <1>3 DEF BusyWait, Elapse, loopVars, RestTypes
  <2> QED BY <1>3, <2>3, <2>4 DEF BusyWait, syncVars, MutexTypes, SemTypes, CallTypes
<1> QED BY <1>1, <1>2, <1>3 DEF TimeStep

\* creating, deleting and restarting tasks keep the types
LEMMA TaskType ==
  ASSUME TypeOK, TaskStep
  PROVE  TypeOK'
<1> USE TypeParts
<1>1. ASSUME NEW t \in Slots, TaskCreate(t)
      PROVE  TypeOK'
  <2>1. TaskTable'
    BY <1>1, TaskTableOps DEF TaskCreate
  <2>2. CallTypes'
    BY <1>1 DEF TaskCreate, CallTypes
  <2> QED BY <1>1, <2>1, <2>2 DEF TaskCreate, loopVars, syncVars, RestTypes, MutexTypes,
                                  SemTypes
<1>2. ASSUME TaskDeleteSelf
      PROVE  TypeOK'
  <2>1. current \in Slots
    BY <1>2 DEF TaskDeleteSelf, InTask
  <2>2. TaskTable'
    BY <1>2, <2>1, TaskTableOps DEF TaskDeleteSelf
  <2>3. CallTypes'
    BY <1>2 DEF TaskDeleteSelf, CallTypes
  <2>4. RestTypes'
    BY <1>2, SwitchOutType DEF TaskDeleteSelf, RestTypes
  <2> QED BY <1>2, <2>2, <2>3, <2>4 DEF TaskDeleteSelf, syncVars, MutexTypes, SemTypes
<1>3. ASSUME NEW t \in Slots, TaskDelete(t)
      PROVE  TypeOK'
  <2>1. TaskTable'
    BY <1>3, TaskTableOps DEF TaskDelete
  <2>2. CallTypes'
    BY <1>3 DEF TaskDelete, CallTypes
  <2> QED BY <1>3, <2>1, <2>2 DEF TaskDelete, loopVars, syncVars, RestTypes, MutexTypes,
                                  SemTypes
<1>4. ASSUME NEW t \in Slots, Run(t)
      PROVE  TypeOK'
  <2>1. TaskTable'
    BY <1>4, TaskTableOps DEF Run
  <2>2. CallTypes'
    BY <1>4 DEF Run, CallTypes
  <2>3. RestTypes'
    BY <1>4 DEF Run, RestTypes
  <2> QED BY <1>4, <2>1, <2>2, <2>3 DEF Run, syncVars, MutexTypes, SemTypes
<1>5. ASSUME Reset
      PROVE  TypeOK'
  <2>1. TaskTable'
    BY <1>5 DEF Reset, TaskTable, TaskStates, WakeReasons
  <2>2. CallTypes'
    BY <1>5 DEF Reset, CallTypes
  <2>3. RestTypes'
    BY <1>5 DEF Reset, RestTypes
  <2> QED BY <1>5, <2>1, <2>2, <2>3 DEF Reset, syncVars, MutexTypes, SemTypes
<1> QED BY <1>1, <1>2, <1>3, <1>4, <1>5 DEF TaskStep

\* every step of the kernel keeps the types
LEMMA TypeNext ==
  ASSUME TypeOK, [Next]_vars
  PROVE  TypeOK'
<1>1. CASE MutexStep
  BY <1>1, MutexType, ReturnType DEF MutexStep
<1>2. CASE SemStep
  BY <1>2, SemType DEF SemStep, SemGive, WakeReasons
<1>3. CASE TimeStep
  BY <1>3, TimeType
<1>4. CASE TaskStep
  BY <1>4, TaskType
<1>5. CASE LoopStep
  <2>1. SchedTypeOK /\ Loop
    BY <1>5 DEF LoopStep, TypeOK
  <2>2. SchedTypeOK'
    BY <2>1, LoopType
  <2> QED BY <1>5, <2>2 DEF LoopStep, syncVars, TypeOK
<1>6. ASSUME NEW s \in IsrSems, IsrGive(s)
      PROVE  TypeOK'
  BY <1>6, SemType, ResourceAssumption DEF IsrGive, WakeReasons
<1>7. CASE UNCHANGED vars
  BY <1>7, TypeParts DEF vars, schedVars, syncVars, TaskTable, RestTypes, MutexTypes,
                         SemTypes, CallTypes
<1> QED BY <1>1, <1>2, <1>3, <1>4, <1>5, <1>6, <1>7 DEF Next

\* Every variable keeps its type, whatever the clients do.
THEOREM TypeCorrect == Spec => []TypeOK
BY TypeInit, TypeNext, PTL DEF Spec

-----------------------------------------------------------------------------
(* Mutual exclusion, under every fault.  It needs to know that a slot of   *)
(* the mutex pool which is not in use has no owner: creating a mutex clears *)
(* the owner field, which must not take the mutex from a holder.           *)

UnusedIsFree == \A m \in Mutexes : ~mutexUsed[m] => owner[m] = NoOwner

MutexInv == TypeOK /\ UnusedIsFree /\ MutualExclusion

\* nobody holds a mutex after boot
LEMMA MutexInvInit == Init => MutexInv
BY TypeInit DEF Init, MutexInv, UnusedIsFree, MutualExclusion

\* nobody who may call is the "no owner" mark
LEMMA CallerFacts ==
  ASSUME TypeOK
  PROVE  /\ current \in Callers
         /\ NoOwner \notin Callers
         /\ Slots \subseteq Callers
BY DEF TypeOK, SchedTypeOK, Callers, NoOwner, NoReady, Slots

\* no step gives a mutex to a caller while another one believes it holds it
LEMMA MutexInvNext ==
  ASSUME MutexInv, [Next]_vars
  PROVE  MutexInv'
<1>0. TypeOK /\ TypeOK' /\ UnusedIsFree /\ MutualExclusion
  BY TypeNext DEF MutexInv
<1> SUFFICES UnusedIsFree' /\ MutualExclusion'
  BY <1>0 DEF MutexInv
<1>c. /\ current \in Callers
      /\ NoOwner \notin Callers
      /\ Slots \subseteq Callers
  BY <1>0, CallerFacts
<1>t. /\ mutexUsed \in [Mutexes -> BOOLEAN]
      /\ owner \in [Mutexes -> Callers \cup {NoOwner}]
      /\ holds \in [Callers -> SUBSET Mutexes]
  BY <1>0 DEF TypeOK
<1> USE <1>0, <1>c, <1>t DEF UnusedIsFree, MutualExclusion
<1>1. ASSUME NEW m \in Mutexes, MutexCreate(m)
      PROVE  UnusedIsFree' /\ MutualExclusion'
  BY <1>1 DEF MutexCreate
<1>2. ASSUME NEW m \in Mutexes, MutexAcquire(m)
      PROVE  UnusedIsFree' /\ MutualExclusion'
  BY <1>2 DEF MutexAcquire
<1>3. ASSUME NEW m \in Mutexes, MutexReturn(m)
      PROVE  UnusedIsFree' /\ MutualExclusion'
  BY <1>3 DEF MutexReturn
<1>4. ASSUME NEW m \in Mutexes, MutexUnlock(m)
      PROVE  UnusedIsFree' /\ MutualExclusion'
  <2>1. \A c \in Callers : m \in holds[c] => c = current
    BY <1>4 DEF MutexUnlock
  <2> QED BY <1>4, <2>1 DEF MutexUnlock
<1>5. ASSUME NEW m \in Mutexes, MutexDestroy(m)
      PROVE  UnusedIsFree' /\ MutualExclusion'
  BY <1>5 DEF MutexDestroy
<1>6. ASSUME NEW m \in Mutexes, NEW d \in LockTimeouts, MutexWait(m, d)
      PROVE  UnusedIsFree' /\ MutualExclusion'
  BY <1>6 DEF MutexWait
<1>7. CASE SemStep
  BY <1>7 DEF SemStep, SemCreate, SemAcquire, SemReturn, SemGive, GiveTo, SemDestroy, SemWait
<1>8. CASE TimeStep
  BY <1>8 DEF TimeStep, SleepReturn, Sleep, BusyWait, syncVars
<1>9. CASE TaskStep
  <2>1. owner' = owner /\ mutexUsed' = mutexUsed
    BY <1>9 DEF TaskStep, TaskDeleteSelf, Reset, TaskCreate, TaskDelete, Run, syncVars
  <2>2. \A c \in Callers : holds'[c] \subseteq holds[c]
    BY <1>9 DEF TaskStep, TaskDeleteSelf, Reset, TaskCreate, TaskDelete, Run
  <2> QED BY <2>1, <2>2
<1>10. CASE LoopStep
  BY <1>10 DEF LoopStep, syncVars
<1>11. ASSUME NEW s \in IsrSems, IsrGive(s)
       PROVE  UnusedIsFree' /\ MutualExclusion'
  BY <1>11 DEF IsrGive, GiveTo
<1>12. CASE UNCHANGED vars
  BY <1>12 DEF vars, syncVars
<1> QED BY <1>1, <1>2, <1>3, <1>4, <1>5, <1>6, <1>7, <1>8, <1>9, <1>10, <1>11, <1>12
        DEF Next, MutexStep

\* Two callers never both hold a mutex, for any number of tasks and mutexes
\* and whatever deletions, restarts and timeouts happen.
THEOREM MutexIsExclusive == Spec => []MutualExclusion
<1>1. MutexInv => MutualExclusion
  BY DEF MutexInv
<1> QED BY <1>1, MutexInvInit, MutexInvNext, PTL DEF Spec

-----------------------------------------------------------------------------
(* Round robin.                                                            *)

\* moving the cursor to the nearest READY slot brings it closer to the rest
LEMMA NearestIsCloser ==
  ASSUME NEW c \in Slots \cup {NoReady}, NEW t \in Slots, NEW u \in Slots,
         t # u, Distance(c, t) <= Distance(c, u)
  PROVE  Distance(t, u) < Distance(c, u)
BY DEF Distance, Slots, NoReady

\* Without interrupts, each dispatch moves the cursor closer to every task it
\* passes over, whatever the number of tasks.
THEOREM DispatchIsRoundRobin == Spec => RoundRobin
<1>1. ASSUME TypeOK, [Next]_vars, NEW t \in Slots, NEW u \in Slots,
             current = NoReady, current' = t, IrqWoken = {},
             state[u] = "READY", u # t
      PROVE  Distance(last', u) < Distance(last, u)
  <2>1. last \in Slots \cup {NoReady} /\ t # NoReady
    BY <1>1 DEF TypeOK, SchedTypeOK, Slots, NoReady
  <2>2. SwitchIn(t)
    <3>1. CASE LoopStep
      BY <1>1, <2>1, <3>1 DEF LoopStep, Loop, LoopStops, IdleAdvance, IdleStops, SwitchIn
    <3>2. CASE MutexStep
      BY <1>1, <2>1, <3>2 DEF MutexStep, MutexCreate, MutexAcquire, MutexReturn, MutexUnlock,
                              MutexDestroy, MutexWait, SwitchOut, schedVars
    <3>3. CASE SemStep
      BY <1>1, <2>1, <3>3 DEF SemStep, SemCreate, SemAcquire, SemReturn, SemGive, GiveTo,
                              SemDestroy, SemWait, SwitchOut, schedVars
    <3>4. CASE TimeStep
      BY <1>1, <2>1, <3>4 DEF TimeStep, SleepReturn, Sleep, BusyWait, SwitchOut, schedVars
    <3>5. CASE TaskStep
      BY <1>1, <2>1, <3>5 DEF TaskStep, TaskDeleteSelf, Reset, TaskCreate, TaskDelete, Run,
                              SwitchOut
    <3>6. CASE \E s \in IsrSems : IsrGive(s)
      BY <1>1, <2>1, <3>6 DEF IsrGive, GiveTo
    <3>7. CASE UNCHANGED vars
      BY <1>1, <2>1, <3>7 DEF vars, schedVars
    <3> QED BY <1>1, <3>1, <3>2, <3>3, <3>4, <3>5, <3>6, <3>7 DEF Next
  <2>3. Distance(last, t) <= Distance(last, u) /\ last' = t
    BY <1>1, <2>2 DEF SwitchIn, Picked, ReadyNow
  <2> QED BY <1>1, <2>1, <2>3, NearestIsCloser
<1>2. TypeOK /\ [Next]_vars =>
        [\A t, u \in Slots : /\ current = NoReady /\ current' = t
                             /\ IrqWoken = {}
                             /\ state[u] = "READY" /\ u # t
                             => Distance(last', u) < Distance(last, u)]_vars
  BY <1>1
<1> QED BY <1>2, TypeCorrect, PTL DEF Spec, RoundRobin

-----------------------------------------------------------------------------
(* No lost wake-up, when clients keep the API's rules: no task is deleted  *)
(* from outside, no semaphore destroyed under a waiter, no second run.     *)
(* Tasks that end holding a mutex, timeouts and interrupts are included.   *)

RulesKept == Faults \subseteq {"die_holding"}

RunningIsReady == current \in Slots => state[current] = "READY"

Distinct(q) == \A i, j \in 1 .. Len(q) : q[i] = q[j] => i = j

\* q holds, once each, the tasks suspended on r that nobody resumed: those
\* that are blocked and those whose timeout fired before they ran again
\* (st, cl and fired are the values of state, call and timeoutFired)
TidyLine(q, r, st, cl, fired) ==
  /\ Distinct(q)
  /\ \A t \in Entries(q) : /\ cl[t] = r
                           /\ \/ st[t] = "BLOCKED"
                              \/ st[t] = "READY" /\ fired[t]
  /\ \A t \in Slots : st[t] = "BLOCKED" /\ cl[t] = r => t \in Entries(q)

\* a line forms only where there is something to wait for
WaitsForReason ==
  /\ \A m \in Mutexes : mwait[m] # <<>> => mutexUsed[m] /\ owner[m] # NoOwner
  /\ \A s \in Sems : swait[s] # <<>> => semUsed[s] /\ count[s] = 0

LinesTidy ==
  /\ \A m \in Mutexes : TidyLine(mwait[m], m, state, call, timeoutFired)
  /\ \A s \in Sems : TidyLine(swait[s], s, state, call, timeoutFired)

WakeInv == TypeOK /\ RunningIsReady /\ WaitsForReason /\ LinesTidy

\* a wait line without duplicates that lacks t has room for t
LEMMA LineHasRoom ==
  ASSUME NEW q \in WaitLine, NEW t \in Slots, Distinct(q), t \notin Entries(q)
  PROVE  Len(q) < N
<1>0. Len(q) \in Nat /\ Len(q) <= N
  BY WaitLineIsSeq, LenProperties
<1>1. q \in [1 .. Len(q) -> Slots]
  BY WaitLineIsSeq, LenProperties
<1> SUFFICES ASSUME ~(Len(q) < N)
             PROVE  FALSE
  OBVIOUS
<1>2. Len(q) = N
  BY <1>0
<1> DEFINE Others == Slots \ {t}
<1>3. IsFiniteSet(Slots) /\ Cardinality(Slots) = N
  <2>1. IsFiniteSet(0 .. N - 1)
        /\ Cardinality(0 .. N - 1) = IF 0 > N - 1 THEN 0 ELSE N - 1 - 0 + 1
    BY FS_Interval
  <2> QED BY <2>1 DEF Slots
<1>4. IsFiniteSet(Others) /\ Cardinality(Others) = N - 1
  BY <1>3, FS_RemoveElement
<1>5. IsFiniteSet(1 .. N) /\ Cardinality(1 .. N) = N
  <2>1. IsFiniteSet(1 .. N) /\ Cardinality(1 .. N) = IF 1 > N THEN 0 ELSE N - 1 + 1
    BY FS_Interval
  <2> QED BY <2>1
<1>6. q \in [1 .. N -> Others]
  BY <1>1, <1>2 DEF Entries
<1>7. Cardinality(Others) < Cardinality(1 .. N)
  BY <1>4, <1>5
<1>8. \E i, j \in 1 .. N : i # j /\ q[i] = q[j]
  BY <1>4, <1>5, <1>6, <1>7, FS_PigeonHole
<1> QED BY <1>2, <1>8 DEF Distinct

\* so hwq_push drops nothing
LEMMA PushEntries ==
  ASSUME NEW q \in WaitLine, NEW t \in Slots, Distinct(q), t \notin Entries(q)
  PROVE  /\ Entries(Push(q, t)) = Entries(q) \cup {t}
         /\ Distinct(Push(q, t))
<1>1. q \in Seq(Slots) /\ Len(q) \in Nat /\ Len(q) < N
  BY LineHasRoom, WaitLineIsSeq, LenProperties
<1>2. Push(q, t) = Append(q, t)
  BY <1>1 DEF Push
<1>3. /\ Len(Append(q, t)) = Len(q) + 1
      /\ \A i \in 1 .. Len(q) : Append(q, t)[i] = q[i]
      /\ Append(q, t)[Len(q) + 1] = t
  BY <1>1
<1>4. Entries(Append(q, t)) = Entries(q) \cup {t}
  <2>1. \A i \in 1 .. Len(q) + 1 : i \in 1 .. Len(q) \/ i = Len(q) + 1
    BY <1>1
  <2>2. Entries(Append(q, t)) \subseteq Entries(q) \cup {t}
    BY <1>3, <2>1 DEF Entries
  <2>3. t \in Entries(Append(q, t))
    BY <1>1, <1>3 DEF Entries
  <2>4. Entries(q) \subseteq Entries(Append(q, t))
    <3>1. \A i \in 1 .. Len(q) : i \in 1 .. Len(q) + 1
      BY <1>1
    <3> QED BY <1>3, <3>1 DEF Entries
  <2> QED BY <2>2, <2>3, <2>4
<1>5. Distinct(Append(q, t))
  <2> SUFFICES ASSUME NEW i \in 1 .. Len(q) + 1, NEW j \in 1 .. Len(q) + 1,
                      Append(q, t)[i] = Append(q, t)[j]
               PROVE  i = j
    BY <1>3 DEF Distinct
  <2>1. CASE i \in 1 .. Len(q) /\ j \in 1 .. Len(q)
    BY <1>3, <2>1 DEF Distinct
  <2>2. CASE i = Len(q) + 1 /\ j \in 1 .. Len(q)
    BY <1>3, <2>2 DEF Entries
  <2>3. CASE i \in 1 .. Len(q) /\ j = Len(q) + 1
    BY <1>3, <2>3 DEF Entries
  <2> QED BY <1>1, <2>1, <2>2, <2>3
<1> QED BY <1>2, <1>4, <1>5

\* hwq_pop removes the head and nothing else
LEMMA PopEntries ==
  ASSUME NEW q \in WaitLine, Distinct(q), q # <<>>
  PROVE  /\ Head(q) \in Entries(q)
         /\ Entries(Tail(q)) = Entries(q) \ {Head(q)}
         /\ Distinct(Tail(q))
<1>1. q \in Seq(Slots) /\ Len(q) \in Nat \ {0} /\ Head(q) = q[1]
  BY WaitLineIsSeq, EmptySeq
<1>2. /\ Len(Tail(q)) = Len(q) - 1
      /\ \A i \in 1 .. Len(q) - 1 : Tail(q)[i] = q[i + 1]
  BY <1>1, HeadTailProperties
<1>3. Head(q) \in Entries(q)
  BY <1>1 DEF Entries
<1>4. Entries(Tail(q)) \subseteq Entries(q) \ {Head(q)}
  <2> SUFFICES ASSUME NEW i \in 1 .. Len(q) - 1
               PROVE  Tail(q)[i] \in Entries(q) /\ Tail(q)[i] # q[1]
    BY <1>1, <1>2 DEF Entries
  <2>1. i + 1 \in 1 .. Len(q) /\ i + 1 # 1 /\ 1 \in 1 .. Len(q)
    BY <1>1
  <2> QED BY <1>2, <2>1 DEF Entries, Distinct
<1>5. Entries(q) \ {Head(q)} \subseteq Entries(Tail(q))
  <2> SUFFICES ASSUME NEW k \in 1 .. Len(q), k # 1
               PROVE  q[k] \in Entries(Tail(q))
    BY <1>1 DEF Entries
  <2>1. k - 1 \in 1 .. Len(q) - 1 /\ (k - 1) + 1 = k
    BY <1>1
  <2>2. Tail(q)[k - 1] = q[k]
    BY <1>2, <2>1
  <2> QED BY <1>2, <2>1, <2>2 DEF Entries
<1>6. Distinct(Tail(q))
  <2> SUFFICES ASSUME NEW i \in 1 .. Len(q) - 1, NEW j \in 1 .. Len(q) - 1,
                      Tail(q)[i] = Tail(q)[j]
               PROVE  i = j
    BY <1>2 DEF Distinct
  <2>1. i + 1 \in 1 .. Len(q) /\ j + 1 \in 1 .. Len(q)
    BY <1>1
  <2>2. i + 1 = j + 1
    BY <1>2, <2>1 DEF Distinct
  <2> QED BY <1>1, <2>2
<1> QED BY <1>3, <1>4, <1>5, <1>6

\* hwq_remove takes out the entries of one slot and keeps the rest
LEMMA WithoutEntries ==
  ASSUME NEW q \in WaitLine, NEW r \in WaitLine, NEW t \in Slots,
         Distinct(q), IsWithout(r, q, t)
  PROVE  /\ Entries(r) = Entries(q) \ {t}
         /\ Distinct(r)
<1>1. PICK f \in [1 .. Len(r) -> 1 .. Len(q)] :
        /\ \A i, j \in 1 .. Len(r) : i < j => f[i] < f[j]
        /\ {f[i] : i \in 1 .. Len(r)} = {k \in 1 .. Len(q) : q[k] # t}
        /\ \A i \in 1 .. Len(r) : r[i] = q[f[i]]
  BY DEF IsWithout
<1>2. Len(q) \in Nat /\ Len(r) \in Nat
  BY WaitLineIsSeq, LenProperties
<1>3. Entries(r) \subseteq Entries(q) \ {t}
  BY <1>1 DEF Entries
<1>4. Entries(q) \ {t} \subseteq Entries(r)
  <2> SUFFICES ASSUME NEW k \in 1 .. Len(q), q[k] # t
               PROVE  q[k] \in Entries(r)
    BY DEF Entries
  <2>1. PICK i \in 1 .. Len(r) : f[i] = k
    BY <1>1
  <2> QED BY <1>1, <2>1 DEF Entries
<1>5. Distinct(r)
  <2> SUFFICES ASSUME NEW i \in 1 .. Len(r), NEW j \in 1 .. Len(r), r[i] = r[j]
               PROVE  i = j
    BY DEF Distinct
  <2>1. f[i] = f[j]
    BY <1>1 DEF Distinct
  <2>2. f[i] \in Int /\ ~(f[i] < f[j]) /\ ~(f[j] < f[i])
    BY <1>1, <1>2, <2>1
  <2>3. ~(i < j) /\ ~(j < i)
    BY <1>1, <2>2
  <2> QED BY <1>2, <2>3
<1> QED BY <1>3, <1>4, <1>5

\* the entries of a wait line are task slots, none in the empty line
LEMMA EntriesFacts ==
  ASSUME NEW q \in WaitLine
  PROVE  /\ Entries(q) \subseteq Slots
         /\ q = <<>> <=> Entries(q) = {}
<1>1. q \in Seq(Slots) /\ Len(q) \in Nat
  BY WaitLineIsSeq, LenProperties
<1>2. Entries(q) \subseteq Slots
  BY <1>1, ElementOfSeq DEF Entries
<1>3. ASSUME q # <<>>
      PROVE  Entries(q) # {}
  <2>1. 1 \in 1 .. Len(q)
    BY <1>1, <1>3, EmptySeq
  <2> QED BY <2>1 DEF Entries
<1>4. ASSUME q = <<>>
      PROVE  Entries(q) = {}
  BY <1>4, EmptySeq DEF Entries
<1> QED BY <1>2, <1>3, <1>4

\* the state of the tasks changes, the line does not: what may happen to the
\* tasks in it (their timeout fires) and to the others
LEMMA LineKept ==
  ASSUME NEW q \in WaitLine, NEW r,
         TidyLine(q, r, state, call, timeoutFired),
         \A t \in Entries(q) :
            /\ call'[t] = call[t]
            /\ \/ state'[t] = state[t] /\ (timeoutFired[t] => timeoutFired'[t])
               \/ state'[t] = "READY" /\ timeoutFired'[t],
         \A t \in Slots : state'[t] = "BLOCKED" /\ call'[t] = r
                          => state[t] = "BLOCKED" /\ call[t] = r
  PROVE  TidyLine(q, r, state', call', timeoutFired')
BY DEF TidyLine

\* the step suspends, resumes or ends no task but t
OnlyChanges(t) ==
  \A u \in Slots \ {t} : /\ state'[u] = state[u] /\ call'[u] = call[u]
                         /\ timeoutFired'[u] = timeoutFired[u]

\* task t joins the line of r
LEMMA LineJoined ==
  ASSUME NEW q \in WaitLine, NEW r, NEW t \in Slots,
         TidyLine(q, r, state, call, timeoutFired),
         call[t] # r,
         state'[t] = "BLOCKED", call'[t] = r,
         OnlyChanges(t)
  PROVE  TidyLine(Push(q, t), r, state', call', timeoutFired')
<1>1. Distinct(q) /\ t \notin Entries(q)
  BY DEF TidyLine
<1>2. Entries(Push(q, t)) = Entries(q) \cup {t} /\ Distinct(Push(q, t))
  BY <1>1, PushEntries
<1>3. Entries(q) \subseteq Slots \ {t}
  BY <1>1, EntriesFacts
<1> QED BY <1>2, <1>3 DEF TidyLine, OnlyChanges

\* task t leaves the line of r: q2 is q without t, t is not blocked any more
LEMMA LineLeft ==
  ASSUME NEW q \in WaitLine, NEW q2, NEW r, NEW t \in Slots,
         TidyLine(q, r, state, call, timeoutFired),
         Distinct(q2), Entries(q2) = Entries(q) \ {t},
         ~(state'[t] = "BLOCKED" /\ call'[t] = r),
         OnlyChanges(t)
  PROVE  TidyLine(q2, r, state', call', timeoutFired')
<1>1. Entries(q2) \subseteq Slots \ {t}
  BY EntriesFacts
<1> QED BY <1>1 DEF TidyLine, OnlyChanges

\* task t, which is not in the line of r, changes
LEMMA LineOfOthers ==
  ASSUME NEW q \in WaitLine, NEW r, NEW t \in Slots,
         TidyLine(q, r, state, call, timeoutFired),
         t \notin Entries(q),
         ~(state'[t] = "BLOCKED" /\ call'[t] = r),
         OnlyChanges(t)
  PROVE  TidyLine(q, r, state', call', timeoutFired')
<1>1. Entries(q) \subseteq Slots \ {t}
  BY EntriesFacts
<1> QED BY <1>1 DEF TidyLine, OnlyChanges

\* nobody waits after boot
LEMMA WakeInvInit == Init => WakeInv
<1> SUFFICES ASSUME Init
             PROVE  WakeInv
  OBVIOUS
<1>1. TypeOK
  BY TypeInit
<1>2. RunningIsReady
  BY DEF Init, SchedInit, RunningIsReady, Slots, NoReady
<1>3. WaitsForReason
  BY DEF Init, WaitsForReason
<1>4. Distinct(<<>>) /\ Entries(<<>>) = {}
  BY WaitLineIsSeq, EntriesFacts, EmptySeq DEF Distinct
<1>5. LinesTidy
  BY <1>4 DEF Init, SchedInit, LinesTidy, TidyLine
<1> QED BY <1>1, <1>2, <1>3, <1>5 DEF WakeInv

\* steps that leave the lines alone and wake waiters at most by their timeout
LEMMA LinesKept ==
  ASSUME TypeOK, LinesTidy, mwait' = mwait, swait' = swait,
         \A t \in Slots :
            \/ /\ call[t] \notin Mutexes \cup Sems
               /\ state'[t] # "BLOCKED" \/ call'[t] \notin Mutexes \cup Sems
            \/ /\ call'[t] = call[t]
               /\ \/ state'[t] = state[t] /\ (timeoutFired[t] => timeoutFired'[t])
                  \/ state[t] = "BLOCKED" /\ state'[t] = "READY" /\ timeoutFired'[t]
                  \/ state[t] \notin {"BLOCKED", "READY"} /\ state'[t] # "BLOCKED"
  PROVE  LinesTidy'
<1>1. ASSUME NEW m \in Mutexes
      PROVE  TidyLine(mwait[m], m, state', call', timeoutFired')
  <2>1. mwait[m] \in WaitLine /\ TidyLine(mwait[m], m, state, call, timeoutFired)
    BY DEF TypeOK, LinesTidy
  <2>2. Entries(mwait[m]) \subseteq Slots
    BY <2>1, EntriesFacts
  <2>3. \A t \in Entries(mwait[m]) :
          /\ call'[t] = call[t]
          /\ \/ state'[t] = state[t] /\ (timeoutFired[t] => timeoutFired'[t])
             \/ state'[t] = "READY" /\ timeoutFired'[t]
    BY <2>1, <2>2 DEF TidyLine
  <2>4. \A t \in Slots : state'[t] = "BLOCKED" /\ call'[t] = m
                         => state[t] = "BLOCKED" /\ call[t] = m
    OBVIOUS
  <2> QED BY <2>1, <2>3, <2>4, LineKept
<1>2. ASSUME NEW s \in Sems
      PROVE  TidyLine(swait[s], s, state', call', timeoutFired')
  <2>1. swait[s] \in WaitLine /\ TidyLine(swait[s], s, state, call, timeoutFired)
    BY DEF TypeOK, LinesTidy
  <2>2. Entries(swait[s]) \subseteq Slots
    BY <2>1, EntriesFacts
  <2>3. \A t \in Entries(swait[s]) :
          /\ call'[t] = call[t]
          /\ \/ state'[t] = state[t] /\ (timeoutFired[t] => timeoutFired'[t])
             \/ state'[t] = "READY" /\ timeoutFired'[t]
    BY <2>1, <2>2 DEF TidyLine
  <2>4. \A t \in Slots : state'[t] = "BLOCKED" /\ call'[t] = s
                         => state[t] = "BLOCKED" /\ call[t] = s
    OBVIOUS
  <2> QED BY <2>1, <2>3, <2>4, LineKept
<1> QED BY <1>1, <1>2 DEF LinesTidy

\* the task that calls is in no line
LEMMA CallerIsIdle ==
  ASSUME TypeOK, InTask, RunningIsReady
  PROVE  /\ current \in Slots /\ state[current] = "READY"
         /\ call[current] = "idle" /\ call[current] \notin Mutexes \cup Sems
BY ResourceAssumption DEF InTask, RunningIsReady

\* the loop wakes tasks only by their timeout and leaves the lines alone
LEMMA WakeLoop ==
  ASSUME WakeInv, LoopStep
  PROVE  WakeInv'
<1>0. TypeOK /\ RunningIsReady /\ WaitsForReason /\ LinesTidy
  BY DEF WakeInv
<1>1. TypeOK'
  BY <1>0, TypeNext DEF Next
<1>2. WaitsForReason'
  BY <1>0 DEF LoopStep, syncVars, WaitsForReason
<1>3. \A t \in Slots :
        \/ state'[t] = state[t] /\ (timeoutFired[t] => timeoutFired'[t])
        \/ state[t] = "BLOCKED" /\ state'[t] = "READY" /\ timeoutFired'[t]
        \/ state[t] \notin {"BLOCKED", "READY"} /\ state'[t] # "BLOCKED"
  <2>1. \A t \in Slots :
          \/ Collected[t] = state[t]
          \/ state[t] = "ZOMBIE" /\ Collected[t] = "TERMINATED"
    BY DEF Collected
  <2>2. CASE LoopStops \/ IdleAdvance \/ IdleStops
    BY <2>1, <2>2 DEF LoopStops, IdleAdvance, IdleStops
  <2>3. ASSUME NEW u \in Slots, SwitchIn(u)
        PROVE  \A t \in Slots :
                 \/ state'[t] = state[t] /\ (timeoutFired[t] => timeoutFired'[t])
                 \/ state[t] = "BLOCKED" /\ state'[t] = "READY" /\ timeoutFired'[t]
                 \/ state[t] \notin {"BLOCKED", "READY"} /\ state'[t] # "BLOCKED"
    BY <2>1, <2>3 DEF SwitchIn, Woken, Due
  <2> QED BY <2>2, <2>3 DEF LoopStep, Loop
<1>4. LinesTidy'
  BY <1>0, <1>3, LinesKept DEF LoopStep, syncVars
<1>5. RunningIsReady'
  <2>1. CASE LoopStops \/ IdleAdvance \/ IdleStops
    <3>1. current' = NoReady
      BY <2>1 DEF LoopStops, IdleAdvance, IdleStops, AtLoopTop, loopVars
    <3> QED BY <3>1 DEF RunningIsReady, Slots, NoReady
  <2>2. ASSUME NEW u \in Slots, SwitchIn(u)
        PROVE  RunningIsReady'
    <3>1. u \in ReadyNow /\ current' = u
      BY <2>2 DEF SwitchIn, Picked, IrqWoken
    <3>2. state'[u] = "READY"
      BY <2>2, <3>1 DEF SwitchIn, Woken, ReadyNow, Collected
    <3> QED BY <3>1, <3>2 DEF RunningIsReady
  <2> QED BY <2>1, <2>2 DEF LoopStep, Loop
<1> QED BY <1>1, <1>2, <1>4, <1>5 DEF WakeInv

\* sleeping and busy-waiting strand no waiter
LEMMA WakeTime ==
  ASSUME WakeInv, TimeStep
  PROVE  WakeInv'
<1>0. TypeOK /\ RunningIsReady /\ WaitsForReason /\ LinesTidy
  BY DEF WakeInv
<1>1. TypeOK'
  BY <1>0, TypeNext DEF Next
<1>2. WaitsForReason'
  BY <1>0 DEF TimeStep, SleepReturn, Sleep, BusyWait, syncVars, WaitsForReason
<1> USE DEF TypeOK, SchedTypeOK
<1>3. ASSUME NEW d \in Delays, Sleep(d)
      PROVE  RunningIsReady' /\ LinesTidy'
  <2>1. /\ current \in Slots /\ state[current] = "READY"
        /\ call[current] = "idle" /\ call[current] \notin Mutexes \cup Sems
    BY <1>0, <1>3, CallerIsIdle DEF Sleep
  <2>2. RunningIsReady'
    BY <1>3 DEF Sleep, SwitchOut, RunningIsReady, Slots, NoReady
  <2>3. /\ state' = [state EXCEPT ![current] = "WAITING"]
        /\ call' = [call EXCEPT ![current] = "sleep"]
        /\ timeoutFired' = timeoutFired /\ mwait' = mwait /\ swait' = swait
    BY <1>3 DEF Sleep, YieldTimed, syncVars
  <2>4. LinesTidy'
    BY <1>0, <2>1, <2>3, LinesKept
  <2> QED BY <2>2, <2>4
<1>4. ASSUME SleepReturn
      PROVE  RunningIsReady' /\ LinesTidy'
  <2>1. RunningIsReady'
    BY <1>0, <1>4 DEF SleepReturn, schedVars, RunningIsReady
  <2>2. LinesTidy'
    BY <1>0, <1>4, LinesKept, ResourceAssumption DEF SleepReturn, schedVars, syncVars
  <2> QED BY <2>1, <2>2
<1>5. ASSUME NEW d \in Delays, BusyWait(d)
      PROVE  RunningIsReady' /\ LinesTidy'
  <2>1. RunningIsReady'
    BY <1>0, <1>5 DEF BusyWait, RunningIsReady
  <2>2. LinesTidy'
    BY <1>0, <1>5, LinesKept DEF BusyWait, syncVars
  <2> QED BY <2>1, <2>2
<1> QED BY <1>1, <1>2, <1>3, <1>4, <1>5 DEF WakeInv, TimeStep

\* while no other task is killed, creating and ending tasks strand no waiter
LEMMA WakeTask ==
  ASSUME WakeInv, TaskStep, RulesKept
  PROVE  WakeInv'
<1>0. TypeOK /\ RunningIsReady /\ WaitsForReason /\ LinesTidy
  BY DEF WakeInv
<1>1. TypeOK'
  BY <1>0, TypeNext DEF Next
<1>2. WaitsForReason'
  BY <1>0 DEF TaskStep, TaskDeleteSelf, Reset, TaskCreate, TaskDelete, Run, syncVars,
              WaitsForReason
<1>3. "idle" \notin Mutexes \cup Sems
  BY ResourceAssumption
<1> USE DEF TypeOK, SchedTypeOK
<1>4. ASSUME NEW t \in Slots, FirstFree(t), Register(t),
             call' = [call EXCEPT ![t] = "idle"], current' = current,
             mwait' = mwait, swait' = swait
      PROVE  RunningIsReady' /\ LinesTidy'
  <2>1. /\ state[t] \in {"INVALID", "TERMINATED"}
        /\ state' = [state EXCEPT ![t] = "READY"]
        /\ timeoutFired' = [timeoutFired EXCEPT ![t] = FALSE]
    BY <1>4 DEF FirstFree, Free, Register
  <2>2. RunningIsReady'
    BY <1>0, <1>4, <2>1 DEF RunningIsReady
  <2>3. LinesTidy'
    <3>1. OnlyChanges(t)
      BY <1>0, <1>4, <2>1 DEF OnlyChanges
    <3>2. \A r \in Mutexes \cup Sems, q \in WaitLine :
            TidyLine(q, r, state, call, timeoutFired)
            => TidyLine(q, r, state', call', timeoutFired')
      <4> SUFFICES ASSUME NEW r \in Mutexes \cup Sems, NEW q \in WaitLine,
                          TidyLine(q, r, state, call, timeoutFired)
                   PROVE  TidyLine(q, r, state', call', timeoutFired')
        OBVIOUS
      <4>1. t \notin Entries(q)
        BY <2>1 DEF TidyLine
      <4>2. ~(state'[t] = "BLOCKED" /\ call'[t] = r)
        BY <1>0, <2>1
      <4> QED BY <3>1, <4>1, <4>2, LineOfOthers
    <3> QED BY <1>0, <1>4, <3>2 DEF LinesTidy
  <2> QED BY <2>2, <2>3
<1>5. CASE TaskDeleteSelf
  <2>1. /\ current \in Slots /\ state[current] = "READY"
        /\ call[current] \notin Mutexes \cup Sems
    BY <1>0, <1>5, CallerIsIdle DEF TaskDeleteSelf
  <2>2. /\ state' = [state EXCEPT ![current] = "ZOMBIE"]
        /\ call' = call /\ timeoutFired' = timeoutFired
        /\ mwait' = mwait /\ swait' = swait
    BY <1>5, <2>1 DEF TaskDeleteSelf, MarkZombie, Free, syncVars
  <2>3. LinesTidy'
    BY <1>0, <2>1, <2>2, LinesKept
  <2>4. RunningIsReady'
    BY <1>5 DEF TaskDeleteSelf, SwitchOut, RunningIsReady, Slots, NoReady
  <2> QED BY <1>1, <1>2, <2>3, <2>4 DEF WakeInv
<1>6. ASSUME NEW t \in Slots, TaskCreate(t)
      PROVE  WakeInv'
  BY <1>1, <1>2, <1>4, <1>6 DEF TaskCreate, syncVars, WakeInv
<1>7. ASSUME NEW t \in Slots, Run(t)
      PROVE  WakeInv'
  BY <1>1, <1>2, <1>4, <1>7 DEF Run, syncVars, WakeInv
<1>8. ~Reset /\ \A t \in Slots : ~TaskDelete(t)
  BY DEF Reset, TaskDelete, RulesKept
<1> QED BY <1>5, <1>6, <1>7, <1>8 DEF TaskStep

\* pal_os_mutex_lock that blocks puts the caller into the mutex's line
LEMMA WakeMutexWait ==
  ASSUME WakeInv, NEW m \in Mutexes, NEW d \in LockTimeouts, MutexWait(m, d)
  PROVE  RunningIsReady' /\ WaitsForReason' /\ LinesTidy'
<1>0. TypeOK /\ RunningIsReady /\ WaitsForReason /\ LinesTidy
  BY DEF WakeInv
<1>1. /\ current \in Slots /\ state[current] = "READY"
      /\ call[current] = "idle" /\ call[current] \notin Mutexes \cup Sems
  BY <1>0, CallerIsIdle DEF MutexWait
<1>2. RunningIsReady'
  BY DEF MutexWait, SwitchOut, RunningIsReady, Slots, NoReady
<1> USE DEF TypeOK, SchedTypeOK
<1>3. WaitsForReason'
  BY <1>0 DEF MutexWait, WaitsForReason
<1>4. /\ state'[current] = "BLOCKED" /\ call'[current] = m
      /\ OnlyChanges(current)
  BY <1>0, <1>1 DEF MutexWait, Block, OnlyChanges
<1>5. mwait' = [mwait EXCEPT ![m] = Push(@, current)] /\ swait' = swait
  BY DEF MutexWait
<1>6. TidyLine(mwait'[m], m, state', call', timeoutFired')
  <2>1. mwait[m] \in WaitLine /\ TidyLine(mwait[m], m, state, call, timeoutFired)
    BY <1>0 DEF LinesTidy
  <2>2. call[current] # m
    BY <1>1
  <2>3. TidyLine(Push(mwait[m], current), m, state', call', timeoutFired')
    BY <1>1, <1>4, <2>1, <2>2, LineJoined
  <2> QED BY <1>0, <1>5, <2>3
<1>7. ASSUME NEW r \in Mutexes \cup Sems, r # m, NEW q \in WaitLine,
             TidyLine(q, r, state, call, timeoutFired)
      PROVE  TidyLine(q, r, state', call', timeoutFired')
  <2>1. current \notin Entries(q) /\ call'[current] # r
    BY <1>1, <1>4, <1>7 DEF TidyLine
  <2> QED BY <1>1, <1>4, <1>7, <2>1, LineOfOthers
<1>8. \A n \in Mutexes \ {m} : TidyLine(mwait'[n], n, state', call', timeoutFired')
  BY <1>0, <1>5, <1>7 DEF LinesTidy
<1>9. \A s \in Sems : TidyLine(swait'[s], s, state', call', timeoutFired')
  BY <1>0, <1>5, <1>7, ResourceAssumption DEF LinesTidy
<1> QED BY <1>2, <1>3, <1>6, <1>8, <1>9 DEF LinesTidy

\* the return from pal_os_mutex_lock takes a timed-out caller out of the line
LEMMA WakeMutexReturn ==
  ASSUME WakeInv, NEW m \in Mutexes, MutexReturn(m)
  PROVE  RunningIsReady' /\ WaitsForReason' /\ LinesTidy'
<1>0. TypeOK /\ RunningIsReady /\ WaitsForReason /\ LinesTidy
  BY DEF WakeInv
<1>1. current \in Slots /\ state[current] = "READY" /\ call[current] = m
  BY <1>0 DEF MutexReturn, RunningIsReady
<1>2. RunningIsReady'
  BY <1>0 DEF MutexReturn, schedVars, RunningIsReady
<1> USE DEF TypeOK, SchedTypeOK
<1>3. mwait[m] \in WaitLine /\ TidyLine(mwait[m], m, state, call, timeoutFired)
  BY <1>0 DEF LinesTidy
<1>4. PICK q2 \in WaitLine :
        /\ mwait' = [mwait EXCEPT ![m] = q2]
        /\ Entries(q2) = Entries(mwait[m]) \ {current}
        /\ Distinct(q2)
  <2>1. CASE timeoutFired[current]
    <3>1. PICK r \in WaitLine : /\ IsWithout(r, mwait[m], current)
                                /\ mwait' = [mwait EXCEPT ![m] = r]
      BY <2>1 DEF MutexReturn
    <3>2. Entries(r) = Entries(mwait[m]) \ {current} /\ Distinct(r)
      BY <1>1, <1>3, <3>1, WithoutEntries DEF TidyLine
    <3> QED BY <3>1, <3>2
  <2>2. CASE ~timeoutFired[current]
    <3>1. current \notin Entries(mwait[m]) /\ Distinct(mwait[m])
      BY <1>1, <1>3, <2>2 DEF TidyLine
    <3>2. mwait' = [mwait EXCEPT ![m] = mwait[m]]
      BY <1>0, <2>2 DEF MutexReturn
    <3> QED BY <1>3, <3>1, <3>2
  <2> QED BY <2>1, <2>2
<1>5. /\ state' = state /\ timeoutFired' = timeoutFired /\ swait' = swait
      /\ call'[current] = "idle"
      /\ OnlyChanges(current)
  BY <1>0, <1>1 DEF MutexReturn, schedVars, OnlyChanges
<1>6. "idle" \notin Mutexes \cup Sems
  BY ResourceAssumption
<1>7. WaitsForReason'
  <2>1. q2 # <<>> => mwait[m] # <<>>
    BY <1>3, <1>4, EntriesFacts
  <2> QED BY <1>0, <1>4, <2>1 DEF MutexReturn, WaitsForReason
<1>8. TidyLine(mwait'[m], m, state', call', timeoutFired')
  <2>1. TidyLine(q2, m, state', call', timeoutFired')
    BY <1>1, <1>3, <1>4, <1>5, <1>6, LineLeft
  <2> QED BY <1>0, <1>4, <2>1
<1>9. ASSUME NEW r \in Mutexes \cup Sems, r # m, NEW q \in WaitLine,
             TidyLine(q, r, state, call, timeoutFired)
      PROVE  TidyLine(q, r, state', call', timeoutFired')
  <2>1. current \notin Entries(q) /\ call'[current] # r
    BY <1>1, <1>5, <1>6, <1>9 DEF TidyLine
  <2> QED BY <1>1, <1>5, <1>9, <2>1, LineOfOthers
<1>10. \A n \in Mutexes \ {m} : TidyLine(mwait'[n], n, state', call', timeoutFired')
  BY <1>0, <1>4, <1>9 DEF LinesTidy
<1>11. \A s \in Sems : TidyLine(swait'[s], s, state', call', timeoutFired')
  BY <1>0, <1>5, <1>9, ResourceAssumption DEF LinesTidy
<1> QED BY <1>2, <1>7, <1>8, <1>10, <1>11 DEF LinesTidy

\* pal_os_mutex_unlock takes its new owner out of the line and wakes it
LEMMA WakeMutexUnlock ==
  ASSUME WakeInv, NEW m \in Mutexes, MutexUnlock(m)
  PROVE  RunningIsReady' /\ WaitsForReason' /\ LinesTidy'
<1>0. TypeOK /\ RunningIsReady /\ WaitsForReason /\ LinesTidy
  BY DEF WakeInv
<1> USE DEF TypeOK, SchedTypeOK
<1>1. mwait[m] \in WaitLine /\ TidyLine(mwait[m], m, state, call, timeoutFired)
  BY <1>0 DEF LinesTidy
<1>2. CASE mwait[m] = <<>>
  <2>1. /\ mwait' = mwait /\ UNCHANGED taskVars
        /\ owner' = [owner EXCEPT ![m] = NoOwner]
    BY <1>2 DEF MutexUnlock
  <2>2. WaitsForReason'
    BY <1>0, <1>2, <2>1 DEF MutexUnlock, WaitsForReason
  <2>3. LinesTidy'
    BY <1>0, <2>1, LinesKept DEF MutexUnlock, taskVars
  <2>4. RunningIsReady'
    BY <1>0, <2>1 DEF MutexUnlock, taskVars, RunningIsReady
  <2> QED BY <2>2, <2>3, <2>4
<1>3. CASE mwait[m] # <<>>
  <2> DEFINE h == Head(mwait[m])
             q2 == Tail(mwait[m])
  <2>1. /\ h \in Slots /\ q2 \in WaitLine /\ h \in Entries(mwait[m])
        /\ Entries(q2) = Entries(mwait[m]) \ {h} /\ Distinct(q2)
    BY <1>1, <1>3, PopType, PopEntries DEF TidyLine
  <2>2. /\ mwait' = [mwait EXCEPT ![m] = q2] /\ swait' = swait
        /\ owner' = [owner EXCEPT ![m] = h] /\ Resume(h, "SYNC_RES")
        /\ call' = call /\ current' = current
    BY <1>3 DEF MutexUnlock
  <2>3. call[h] = m /\ state[h] \in {"BLOCKED", "READY"}
    BY <1>1, <2>1 DEF TidyLine
  <2> HIDE DEF h, q2
  <2>4. state'[h] = "READY" /\ OnlyChanges(h)
    BY <1>0, <2>1, <2>2, <2>3 DEF Resume, taskVars, OnlyChanges
  <2>5. RunningIsReady'
    BY <1>0, <2>2, <2>4 DEF RunningIsReady, OnlyChanges
  <2>6. WaitsForReason'
    <3>1. h # NoOwner
      BY <2>1 DEF Slots, NoOwner
    <3> QED BY <1>0, <1>3, <2>2, <3>1 DEF MutexUnlock, WaitsForReason
  <2>7. TidyLine(mwait'[m], m, state', call', timeoutFired')
    <3>1. ~(state'[h] = "BLOCKED" /\ call'[h] = m)
      BY <2>4
    <3>2. TidyLine(q2, m, state', call', timeoutFired')
      BY <1>1, <2>1, <2>4, <3>1, LineLeft
    <3> QED BY <1>0, <2>2, <3>2
  <2>8. ASSUME NEW r \in Mutexes \cup Sems, r # m, NEW q \in WaitLine,
               TidyLine(q, r, state, call, timeoutFired)
        PROVE  TidyLine(q, r, state', call', timeoutFired')
    <3>1. h \notin Entries(q) /\ ~(state'[h] = "BLOCKED" /\ call'[h] = r)
      BY <2>3, <2>4, <2>8 DEF TidyLine
    <3> QED BY <2>1, <2>4, <2>8, <3>1, LineOfOthers
  <2>9. \A n \in Mutexes \ {m} : TidyLine(mwait'[n], n, state', call', timeoutFired')
    BY <1>0, <2>2, <2>8 DEF LinesTidy
  <2>10. \A s \in Sems : TidyLine(swait'[s], s, state', call', timeoutFired')
    BY <1>0, <2>2, <2>8, ResourceAssumption DEF LinesTidy
  <2> QED BY <2>5, <2>6, <2>7, <2>9, <2>10 DEF LinesTidy
<1> QED BY <1>2, <1>3

\* no mutex call strands a waiter
LEMMA WakeMutex ==
  ASSUME WakeInv, MutexStep
  PROVE  WakeInv'
<1>0. TypeOK /\ RunningIsReady /\ WaitsForReason /\ LinesTidy
  BY DEF WakeInv
<1>1. TypeOK'
  BY <1>0, TypeNext DEF Next
<1>2. SUFFICES RunningIsReady' /\ WaitsForReason' /\ LinesTidy'
  BY <1>1 DEF WakeInv
<1> USE DEF TypeOK, SchedTypeOK
<1>3. ASSUME NEW m \in Mutexes, MutexCreate(m)
      PROVE  RunningIsReady' /\ WaitsForReason' /\ LinesTidy'
  <2>1. mwait[m] = <<>>
    BY <1>0, <1>3 DEF MutexCreate, WaitsForReason
  <2>2. mwait' = mwait
    BY <1>0, <1>3, <2>1 DEF MutexCreate
  <2>3. WaitsForReason'
    BY <1>0, <1>3, <2>1, <2>2 DEF MutexCreate, WaitsForReason
  <2>4. LinesTidy'
    BY <1>0, <1>3, <2>2, LinesKept DEF MutexCreate, schedVars
  <2>5. RunningIsReady'
    BY <1>0, <1>3 DEF MutexCreate, schedVars, RunningIsReady
  <2> QED BY <2>3, <2>4, <2>5
<1>4. ASSUME NEW m \in Mutexes, MutexAcquire(m) \/ MutexDestroy(m)
      PROVE  RunningIsReady' /\ WaitsForReason' /\ LinesTidy'
  <2>1. WaitsForReason'
    BY <1>0, <1>4 DEF MutexAcquire, MutexDestroy, WaitsForReason
  <2>2. LinesTidy'
    BY <1>0, <1>4, LinesKept DEF MutexAcquire, MutexDestroy, schedVars
  <2>3. RunningIsReady'
    BY <1>0, <1>4 DEF MutexAcquire, MutexDestroy, schedVars, RunningIsReady
  <2> QED BY <2>1, <2>2, <2>3
<1> QED BY <1>3, <1>4, WakeMutexWait, WakeMutexReturn, WakeMutexUnlock DEF MutexStep

\* pal_os_sem_take that blocks puts the caller into the semaphore's line
LEMMA WakeSemWait ==
  ASSUME WakeInv, NEW s \in Sems, NEW d \in TakeTimeouts, SemWait(s, d)
  PROVE  RunningIsReady' /\ WaitsForReason' /\ LinesTidy'
<1>0. TypeOK /\ RunningIsReady /\ WaitsForReason /\ LinesTidy
  BY DEF WakeInv
<1>1. /\ current \in Slots /\ state[current] = "READY"
      /\ call[current] = "idle" /\ call[current] \notin Mutexes \cup Sems
  BY <1>0, CallerIsIdle DEF SemWait
<1>2. RunningIsReady'
  BY DEF SemWait, SwitchOut, RunningIsReady, Slots, NoReady
<1> USE DEF TypeOK, SchedTypeOK
<1>3. WaitsForReason'
  BY <1>0 DEF SemWait, WaitsForReason
<1>4. /\ state'[current] = "BLOCKED" /\ call'[current] = s
      /\ OnlyChanges(current)
  BY <1>0, <1>1 DEF SemWait, Block, OnlyChanges
<1>5. swait' = [swait EXCEPT ![s] = Push(@, current)] /\ mwait' = mwait
  BY DEF SemWait
<1>6. TidyLine(swait'[s], s, state', call', timeoutFired')
  <2>1. swait[s] \in WaitLine /\ TidyLine(swait[s], s, state, call, timeoutFired)
    BY <1>0 DEF LinesTidy
  <2>2. call[current] # s
    BY <1>1
  <2>3. TidyLine(Push(swait[s], current), s, state', call', timeoutFired')
    BY <1>1, <1>4, <2>1, <2>2, LineJoined
  <2> QED BY <1>0, <1>5, <2>3
<1>7. ASSUME NEW r \in Mutexes \cup Sems, r # s, NEW q \in WaitLine,
             TidyLine(q, r, state, call, timeoutFired)
      PROVE  TidyLine(q, r, state', call', timeoutFired')
  <2>1. current \notin Entries(q) /\ call'[current] # r
    BY <1>1, <1>4, <1>7 DEF TidyLine
  <2> QED BY <1>1, <1>4, <1>7, <2>1, LineOfOthers
<1>8. \A n \in Sems \ {s} : TidyLine(swait'[n], n, state', call', timeoutFired')
  BY <1>0, <1>5, <1>7 DEF LinesTidy
<1>9. \A m \in Mutexes : TidyLine(mwait'[m], m, state', call', timeoutFired')
  BY <1>0, <1>5, <1>7, ResourceAssumption DEF LinesTidy
<1> QED BY <1>2, <1>3, <1>6, <1>8, <1>9 DEF LinesTidy

\* the return from pal_os_sem_take takes a timed-out caller out of the line
LEMMA WakeSemReturn ==
  ASSUME WakeInv, NEW s \in Sems, SemReturn(s)
  PROVE  RunningIsReady' /\ WaitsForReason' /\ LinesTidy'
<1>0. TypeOK /\ RunningIsReady /\ WaitsForReason /\ LinesTidy
  BY DEF WakeInv
<1>1. current \in Slots /\ state[current] = "READY" /\ call[current] = s
  BY <1>0 DEF SemReturn, RunningIsReady
<1>2. RunningIsReady'
  BY <1>0 DEF SemReturn, schedVars, RunningIsReady
<1> USE DEF TypeOK, SchedTypeOK
<1>3. swait[s] \in WaitLine /\ TidyLine(swait[s], s, state, call, timeoutFired)
  BY <1>0 DEF LinesTidy
<1>4. PICK q2 \in WaitLine :
        /\ swait' = [swait EXCEPT ![s] = q2]
        /\ Entries(q2) = Entries(swait[s]) \ {current}
        /\ Distinct(q2)
  <2>1. CASE timeoutFired[current]
    <3>1. PICK r \in WaitLine : /\ IsWithout(r, swait[s], current)
                                /\ swait' = [swait EXCEPT ![s] = r]
      BY <2>1 DEF SemReturn
    <3>2. Entries(r) = Entries(swait[s]) \ {current} /\ Distinct(r)
      BY <1>1, <1>3, <3>1, WithoutEntries DEF TidyLine
    <3> QED BY <3>1, <3>2
  <2>2. CASE ~timeoutFired[current]
    <3>1. current \notin Entries(swait[s]) /\ Distinct(swait[s])
      BY <1>1, <1>3, <2>2 DEF TidyLine
    <3>2. swait' = [swait EXCEPT ![s] = swait[s]]
      BY <1>0, <2>2 DEF SemReturn
    <3> QED BY <1>3, <3>1, <3>2
  <2> QED BY <2>1, <2>2
<1>5. /\ state' = state /\ timeoutFired' = timeoutFired /\ mwait' = mwait
      /\ call'[current] = "idle"
      /\ OnlyChanges(current)
  BY <1>0, <1>1 DEF SemReturn, schedVars, OnlyChanges
<1>6. "idle" \notin Mutexes \cup Sems
  BY ResourceAssumption
<1>7. WaitsForReason'
  <2>1. q2 # <<>> => swait[s] # <<>>
    BY <1>3, <1>4, EntriesFacts
  <2> QED BY <1>0, <1>4, <2>1 DEF SemReturn, WaitsForReason
<1>8. TidyLine(swait'[s], s, state', call', timeoutFired')
  <2>1. TidyLine(q2, s, state', call', timeoutFired')
    BY <1>1, <1>3, <1>4, <1>5, <1>6, LineLeft
  <2> QED BY <1>0, <1>4, <2>1
<1>9. ASSUME NEW r \in Mutexes \cup Sems, r # s, NEW q \in WaitLine,
             TidyLine(q, r, state, call, timeoutFired)
      PROVE  TidyLine(q, r, state', call', timeoutFired')
  <2>1. current \notin Entries(q) /\ call'[current] # r
    BY <1>1, <1>5, <1>6, <1>9 DEF TidyLine
  <2> QED BY <1>1, <1>5, <1>9, <2>1, LineOfOthers
<1>10. \A n \in Sems \ {s} : TidyLine(swait'[n], n, state', call', timeoutFired')
  BY <1>0, <1>4, <1>9 DEF LinesTidy
<1>11. \A m \in Mutexes : TidyLine(mwait'[m], m, state', call', timeoutFired')
  BY <1>0, <1>5, <1>9, ResourceAssumption DEF LinesTidy
<1> QED BY <1>2, <1>7, <1>8, <1>10, <1>11 DEF LinesTidy

\* pal_os_sem_give takes the waiter it gives the token to out of the line
LEMMA WakeGiveTo ==
  ASSUME WakeInv, NEW s \in Sems, NEW reason \in WakeReasons, GiveTo(s, reason)
  PROVE  RunningIsReady' /\ WaitsForReason' /\ LinesTidy'
<1>0. TypeOK /\ RunningIsReady /\ WaitsForReason /\ LinesTidy
  BY DEF WakeInv
<1> USE DEF TypeOK, SchedTypeOK
<1>1. swait[s] \in WaitLine /\ TidyLine(swait[s], s, state, call, timeoutFired)
  BY <1>0 DEF LinesTidy
<1>2. CASE swait[s] = <<>>
  <2>1. swait' = swait /\ UNCHANGED taskVars /\ count' = [count EXCEPT ![s] = 1]
    BY <1>2 DEF GiveTo
  <2>2. WaitsForReason'
    BY <1>0, <1>2, <2>1 DEF GiveTo, WaitsForReason
  <2>3. LinesTidy'
    BY <1>0, <2>1, LinesKept DEF GiveTo, taskVars
  <2>4. RunningIsReady'
    BY <1>0, <2>1 DEF GiveTo, taskVars, RunningIsReady
  <2> QED BY <2>2, <2>3, <2>4
<1>3. CASE swait[s] # <<>>
  <2> DEFINE h == Head(swait[s])
             q2 == Tail(swait[s])
  <2>1. /\ h \in Slots /\ q2 \in WaitLine /\ h \in Entries(swait[s])
        /\ Entries(q2) = Entries(swait[s]) \ {h} /\ Distinct(q2)
    BY <1>1, <1>3, PopType, PopEntries DEF TidyLine
  <2>2. /\ swait' = [swait EXCEPT ![s] = q2] /\ mwait' = mwait
        /\ Resume(h, reason)
        /\ call' = call /\ current' = current
    BY <1>3 DEF GiveTo
  <2>3. call[h] = s /\ state[h] \in {"BLOCKED", "READY"}
    BY <1>1, <2>1 DEF TidyLine
  <2> HIDE DEF h, q2
  <2>4. state'[h] = "READY" /\ OnlyChanges(h)
    BY <1>0, <2>1, <2>2, <2>3 DEF Resume, taskVars, OnlyChanges
  <2>5. RunningIsReady'
    BY <1>0, <2>2, <2>4 DEF RunningIsReady, OnlyChanges
  <2>6. WaitsForReason'
    BY <1>0, <1>3, <2>2 DEF GiveTo, WaitsForReason
  <2>7. TidyLine(swait'[s], s, state', call', timeoutFired')
    <3>1. ~(state'[h] = "BLOCKED" /\ call'[h] = s)
      BY <2>4
    <3>2. TidyLine(q2, s, state', call', timeoutFired')
      BY <1>1, <2>1, <2>4, <3>1, LineLeft
    <3> QED BY <1>0, <2>2, <3>2
  <2>8. ASSUME NEW r \in Mutexes \cup Sems, r # s, NEW q \in WaitLine,
               TidyLine(q, r, state, call, timeoutFired)
        PROVE  TidyLine(q, r, state', call', timeoutFired')
    <3>1. h \notin Entries(q) /\ ~(state'[h] = "BLOCKED" /\ call'[h] = r)
      BY <2>3, <2>4, <2>8 DEF TidyLine
    <3> QED BY <2>1, <2>4, <2>8, <3>1, LineOfOthers
  <2>9. \A n \in Sems \ {s} : TidyLine(swait'[n], n, state', call', timeoutFired')
    BY <1>0, <2>2, <2>8 DEF LinesTidy
  <2>10. \A m \in Mutexes : TidyLine(mwait'[m], m, state', call', timeoutFired')
    BY <1>0, <2>2, <2>8, ResourceAssumption DEF LinesTidy
  <2> QED BY <2>5, <2>6, <2>7, <2>9, <2>10 DEF LinesTidy
<1> QED BY <1>2, <1>3

\* no semaphore call strands a waiter
LEMMA WakeSem ==
  ASSUME WakeInv, SemStep, RulesKept
  PROVE  WakeInv'
<1>0. TypeOK /\ RunningIsReady /\ WaitsForReason /\ LinesTidy
  BY DEF WakeInv
<1>1. TypeOK'
  BY <1>0, TypeNext DEF Next
<1>2. SUFFICES RunningIsReady' /\ WaitsForReason' /\ LinesTidy'
  BY <1>1 DEF WakeInv
<1> USE DEF TypeOK, SchedTypeOK
<1>3. ASSUME NEW s \in Sems, SemCreate(s)
      PROVE  RunningIsReady' /\ WaitsForReason' /\ LinesTidy'
  <2>1. swait[s] = <<>>
    BY <1>0, <1>3 DEF SemCreate, WaitsForReason
  <2>2. swait' = swait
    BY <1>0, <1>3, <2>1 DEF SemCreate
  <2>3. WaitsForReason'
    BY <1>0, <1>3, <2>1, <2>2 DEF SemCreate, WaitsForReason
  <2>4. LinesTidy'
    BY <1>0, <1>3, <2>2, LinesKept DEF SemCreate, schedVars
  <2>5. RunningIsReady'
    BY <1>0, <1>3 DEF SemCreate, schedVars, RunningIsReady
  <2> QED BY <2>3, <2>4, <2>5
<1>4. ASSUME NEW s \in Sems, SemAcquire(s) \/ SemDestroy(s)
      PROVE  RunningIsReady' /\ WaitsForReason' /\ LinesTidy'
  <2>1. swait[s] = <<>>
    <3>1. CASE SemAcquire(s)
      BY <1>0, <3>1 DEF SemAcquire, WaitsForReason
    <3>2. CASE SemDestroy(s)
      <4>1. Entries(swait[s]) = {}
        BY <3>2 DEF SemDestroy, RulesKept
      <4> QED BY <1>0, <4>1, EntriesFacts
    <3> QED BY <1>4, <3>1, <3>2
  <2>2. WaitsForReason'
    BY <1>0, <1>4, <2>1 DEF SemAcquire, SemDestroy, WaitsForReason
  <2>3. LinesTidy'
    BY <1>0, <1>4, LinesKept DEF SemAcquire, SemDestroy, schedVars
  <2>4. RunningIsReady'
    BY <1>0, <1>4 DEF SemAcquire, SemDestroy, schedVars, RunningIsReady
  <2> QED BY <2>2, <2>3, <2>4
<1> QED BY <1>3, <1>4, WakeSemWait, WakeSemReturn, WakeGiveTo DEF SemStep, SemGive, WakeReasons

\* no step of the kernel strands a waiter
LEMMA WakeInvNext ==
  ASSUME WakeInv, [Next]_vars, RulesKept
  PROVE  WakeInv'
<1>1. CASE MutexStep
  BY <1>1, WakeMutex
<1>2. CASE SemStep
  BY <1>2, WakeSem
<1>3. CASE TimeStep
  BY <1>3, WakeTime
<1>4. CASE TaskStep
  BY <1>4, WakeTask
<1>5. CASE LoopStep
  BY <1>5, WakeLoop
<1>6. ASSUME NEW s \in IsrSems, IsrGive(s)
      PROVE  WakeInv'
  <2>1. TypeOK'
    BY <1>6, TypeNext DEF Next, WakeInv
  <2> QED BY <1>6, <2>1, WakeGiveTo, ResourceAssumption DEF IsrGive, WakeReasons, WakeInv
<1>7. CASE UNCHANGED vars
  BY <1>7 DEF vars, schedVars, syncVars, WakeInv, TypeOK, SchedTypeOK, RunningIsReady,
              WaitsForReason, LinesTidy
<1> QED BY <1>1, <1>2, <1>3, <1>4, <1>5, <1>6, <1>7 DEF Next

\* No task that keeps the API's rules ever sleeps on a free mutex or on a
\* semaphore with a token, nor is it missing from the queue the next unlock
\* or give looks at.
THEOREM NoWakeupIsLost ==
  ASSUME RulesKept
  PROVE  Spec => []NoLostWakeup
<1>1. WakeInv => NoLostWakeup
  <2> SUFFICES ASSUME WakeInv, NEW t \in Slots, state[t] = "BLOCKED"
               PROVE  /\ \A m \in Mutexes : call[t] = m =>
                           mutexUsed[m] /\ owner[m] # NoOwner /\ t \in Entries(mwait[m])
                      /\ \A s \in Sems : call[t] = s =>
                           semUsed[s] /\ count[s] = 0 /\ t \in Entries(swait[s])
    BY DEF NoLostWakeup
  <2>1. ASSUME NEW m \in Mutexes, call[t] = m
        PROVE  mutexUsed[m] /\ owner[m] # NoOwner /\ t \in Entries(mwait[m])
    <3>1. t \in Entries(mwait[m]) /\ mwait[m] \in WaitLine
      BY <2>1 DEF WakeInv, LinesTidy, TidyLine, TypeOK
    <3>2. mwait[m] # <<>>
      BY <3>1, EntriesFacts
    <3> QED BY <3>1, <3>2 DEF WakeInv, WaitsForReason
  <2>2. ASSUME NEW s \in Sems, call[t] = s
        PROVE  semUsed[s] /\ count[s] = 0 /\ t \in Entries(swait[s])
    <3>1. t \in Entries(swait[s]) /\ swait[s] \in WaitLine
      BY <2>2 DEF WakeInv, LinesTidy, TidyLine, TypeOK
    <3>2. swait[s] # <<>>
      BY <3>1, EntriesFacts
    <3> QED BY <3>1, <3>2 DEF WakeInv, WaitsForReason
  <2> QED BY <2>1, <2>2
<1>2. WakeInv /\ [Next]_vars => WakeInv'
  BY WakeInvNext
<1> QED BY <1>1, <1>2, WakeInvInit, PTL DEF Spec

-----------------------------------------------------------------------------
(* Deletion.  The invariant is that the running fiber is not marked: only  *)
(* pal_os_task_delete(own handle) breaks it.                               *)

RunningIsAlive == current \in Slots => state[current] # "ZOMBIE"

AliveInv == TypeOK /\ RunningIsAlive

\* one step: the running fiber stays unmarked, a marked task stays deleted
LEMMA AliveNext ==
  ASSUME AliveInv, [Next]_vars, "self_kill" \notin Faults
  PROVE  /\ AliveInv'
         /\ \A t \in Slots : state[t] = "ZOMBIE"
                             => state'[t] \in {"ZOMBIE", "TERMINATED", "INVALID"}
<1> DEFINE Deleted == \A t \in Slots : state[t] = "ZOMBIE"
                             => state'[t] \in {"ZOMBIE", "TERMINATED", "INVALID"}
<1>0. TypeOK /\ TypeOK' /\ RunningIsAlive
  BY TypeNext DEF AliveInv
<1>t. /\ state \in [Slots -> TaskStates]
      /\ NoReady \notin Slots
  BY <1>0 DEF TypeOK, SchedTypeOK, Slots, NoReady
<1> SUFFICES RunningIsAlive' /\ Deleted
  BY <1>0 DEF AliveInv
<1> USE <1>0, <1>t DEF RunningIsAlive
<1>1. ASSUME NEW u \in Slots, NEW r, Resume(u, r) \/ UNCHANGED taskVars, current' = current
      PROVE  RunningIsAlive' /\ Deleted
  BY <1>1 DEF Resume, taskVars
<1>2. ASSUME UNCHANGED schedVars
      PROVE  RunningIsAlive' /\ Deleted
  BY <1>2 DEF schedVars
<1>3. ASSUME InTask, SwitchOut, NEW d, Block(current, d) \/ YieldTimed(current, d)
      PROVE  RunningIsAlive' /\ Deleted
  BY <1>3 DEF InTask, SwitchOut, Block, YieldTimed
<1>4. ASSUME NEW u \in Slots, FirstFree(u), Register(u), current' = current
      PROVE  RunningIsAlive' /\ Deleted
  BY <1>4 DEF FirstFree, Free, Register
<1>5. CASE MutexStep
  <2>1. ASSUME NEW m \in Mutexes, MutexUnlock(m)
        PROVE  RunningIsAlive' /\ Deleted
    <3>1. CASE mwait[m] = <<>>
      BY <2>1, <3>1, <1>1 DEF MutexUnlock, taskVars
    <3>2. CASE mwait[m] # <<>>
      <4>1. Head(mwait[m]) \in Slots
        BY <3>2, PopType DEF TypeOK
      <4> QED BY <2>1, <3>2, <4>1, <1>1 DEF MutexUnlock
    <3> QED BY <3>1, <3>2
  <2> QED BY <1>5, <2>1, <1>2, <1>3 DEF MutexStep, MutexCreate, MutexAcquire, MutexReturn,
                                        MutexDestroy, MutexWait
<1>6. ASSUME NEW s \in Sems, NEW r, GiveTo(s, r)
      PROVE  RunningIsAlive' /\ Deleted
  <2>1. CASE swait[s] = <<>>
    BY <1>6, <2>1, <1>1 DEF GiveTo, taskVars
  <2>2. CASE swait[s] # <<>>
    <3>1. Head(swait[s]) \in Slots
      BY <2>2, PopType DEF TypeOK
    <3> QED BY <1>6, <2>2, <3>1, <1>1 DEF GiveTo
  <2> QED BY <2>1, <2>2
<1>7. CASE SemStep
  BY <1>7, <1>6, <1>2, <1>3 DEF SemStep, SemGive, SemCreate, SemAcquire, SemReturn,
                               SemDestroy, SemWait
<1>8. CASE TimeStep
  BY <1>8, <1>2, <1>3 DEF TimeStep, SleepReturn, Sleep, BusyWait
<1>9. CASE TaskStep
  <2>1. CASE TaskDeleteSelf
    BY <2>1 DEF TaskDeleteSelf, SwitchOut, InTask, MarkZombie
  <2>2. ASSUME NEW u \in Slots, TaskDelete(u)
        PROVE  RunningIsAlive' /\ Deleted
    BY <2>2 DEF TaskDelete, MarkZombie
  <2>3. CASE Reset
    BY <2>3 DEF Reset
  <2> QED BY <1>9, <2>1, <2>2, <2>3, <1>4 DEF TaskStep, TaskCreate, Run
<1>10. CASE LoopStep
  <2>1. ASSUME NEW u \in Slots, SwitchIn(u)
        PROVE  RunningIsAlive' /\ Deleted
    <3>1. state'[u] = "READY" /\ current' = u
      BY <2>1 DEF SwitchIn, Picked, IrqWoken, ReadyNow, Woken, Collected
    <3>2. Deleted
      BY <2>1 DEF SwitchIn, Woken, Due, Collected
    <3> QED BY <3>1, <3>2
  <2>2. CASE LoopStops \/ IdleAdvance \/ IdleStops
    <3>1. state' = Collected /\ current' = NoReady
      BY <2>2 DEF LoopStops, IdleAdvance, IdleStops, AtLoopTop, loopVars
    <3> QED BY <3>1 DEF Collected
  <2> QED BY <1>10, <2>1, <2>2 DEF LoopStep, Loop
<1>11. ASSUME NEW s \in IsrSems, IsrGive(s)
       PROVE  RunningIsAlive' /\ Deleted
  BY <1>11, <1>6, ResourceAssumption DEF IsrGive
<1>12. CASE UNCHANGED vars
  BY <1>12, <1>2 DEF vars, schedVars
<1> QED BY <1>5, <1>7, <1>8, <1>9, <1>10, <1>11, <1>12 DEF Next

\* Unless tasks delete themselves by their own handle, a task that was deleted
\* never runs again, through kills, restarts and reused slots.
THEOREM DeletedIsFinal ==
  ASSUME "self_kill" \notin Faults
  PROVE  Spec => DeletedStaysDeleted
<1>1. Init => AliveInv
  BY TypeInit DEF Init, SchedInit, AliveInv, RunningIsAlive, Slots, NoReady
<1>2. AliveInv /\ [Next]_vars => AliveInv'
  BY AliveNext
<1>3. AliveInv /\ [Next]_vars =>
        [\A t \in Slots : state[t] = "ZOMBIE"
                          => state'[t] \in {"ZOMBIE", "TERMINATED", "INVALID"}]_vars
  BY AliveNext
<1> QED BY <1>1, <1>2, <1>3, PTL DEF Spec, DeletedStaysDeleted
-----------------------------------------------------------------------------
(* Refinement.  Clients keep the rules and lock without timeouts.  The     *)
(* invariant says what a task inside pal_os_mutex_lock looks like: it is   *)
(* blocked with no wake-up armed, or it owns the mutex and has yet to      *)
(* learn of it.  Then each call is a step of FifoLock or changes nothing   *)
(* the lock is about.                                                      *)

NoTimeouts == Faults = {} /\ LockTimeouts \subseteq {0}

Patient(t) ==
  /\ ~timeoutFired[t]
  /\ \/ state[t] = "BLOCKED" /\ due[t] = Never
     \/ state[t] = "READY" /\ owner[call[t]] = t /\ call[t] \notin holds[t]

WaitersArePatient == \A t \in Slots : call[t] \in Mutexes => Patient(t)

\* a mutex is handed to a task that is still in the lock call
FlightIsKnown == \A m \in Mutexes : InFlight(m) => call[owner[m]] = m

DeadHoldNothing ==
  \A t \in Slots : state[t] \in {"INVALID", "ZOMBIE", "TERMINATED"} => holds[t] = {}

LoopIsOff == ~running => current = NoReady

HandOver == WaitersArePatient /\ FlightIsKnown /\ DeadHoldNothing /\ LoopIsOff

FifoInv == MutexInv /\ WakeInv /\ HandOver

\* no task is in a call after boot
LEMMA FifoInvInit == Init => FifoInv
<1>1. Init => HandOver
  BY ResourceAssumption, CallerFacts, TypeInit
     DEF Init, SchedInit, HandOver, WaitersArePatient, FlightIsKnown, InFlight,
         DeadHoldNothing, LoopIsOff, NoOwner, Slots
<1> QED BY <1>1, MutexInvInit, WakeInvInit DEF FifoInv

\* what the parts of the invariant say of one task and one mutex
LEMMA FifoParts ==
  ASSUME FifoInv
  PROVE  /\ TypeOK /\ RunningIsReady /\ WaitsForReason /\ LinesTidy
         /\ UnusedIsFree /\ MutualExclusion
         /\ WaitersArePatient /\ FlightIsKnown /\ DeadHoldNothing /\ LoopIsOff
         /\ state \in [Slots -> TaskStates] /\ timeoutFired \in [Slots -> BOOLEAN]
         /\ due \in [Slots -> {Never} \cup 0 .. MaxDelay]
         /\ call \in [Slots -> {"idle", "sleep"} \cup Mutexes \cup Sems]
         /\ owner \in [Mutexes -> Callers \cup {NoOwner}]
         /\ holds \in [Callers -> SUBSET Mutexes]
         /\ mwait \in [Mutexes -> WaitLine]
         /\ current \in Slots \cup {NoReady}
         /\ NoOwner \notin Callers /\ Slots \subseteq Callers /\ NoReady \in Callers
         /\ NoReady \notin Slots /\ NoOwner \notin Slots
         /\ "idle" \notin Mutexes /\ "sleep" \notin Mutexes /\ Mutexes \cap Sems = {}
<1>1. TypeOK
  BY DEF FifoInv, MutexInv
<1>2. NoReady \notin Slots /\ NoOwner \notin Slots /\ NoReady \in Callers
  BY DEF NoReady, NoOwner, Slots, Callers
<1> QED BY <1>1, <1>2, CallerFacts, ResourceAssumption
        DEF FifoInv, MutexInv, WakeInv, HandOver, TypeOK, SchedTypeOK

\* a call comes from a task in no call, or from outside while the loop is off
LEMMA WhoCalls ==
  ASSUME FifoInv, CanCall
  PROVE  \/ current \in Slots /\ call[current] = "idle" /\ state[current] = "READY"
         \/ current = NoReady
BY FifoParts DEF CanCall, InTask, RunningIsReady, LoopIsOff

\* the steps that leave mutexes and their holders alone and, of the tasks in a
\* lock call, at most the clock
LEMMA HandOverKept ==
  ASSUME FifoInv, owner' = owner, holds' = holds, 
         \A t \in Slots :
            \/ /\ call'[t] = call[t] /\ state'[t] = state[t]
               /\ timeoutFired'[t] = timeoutFired[t]
               /\ due[t] = Never => due'[t] = Never
            \/ /\ call[t] \notin Mutexes /\ call'[t] \notin Mutexes
               /\ state'[t] \in {"INVALID", "ZOMBIE", "TERMINATED"} => holds[t] = {}
  PROVE  WaitersArePatient' /\ FlightIsKnown' /\ DeadHoldNothing'
<1> USE FifoParts
<1>1. WaitersArePatient'
  BY DEF WaitersArePatient, Patient
<1>2. FlightIsKnown'
  BY DEF FlightIsKnown, InFlight
<1>3. DeadHoldNothing'
  BY DEF DeadHoldNothing
<1> QED BY <1>1, <1>2, <1>3

\* the dispatch loop wakes no task whose wake-up is not armed
LEMMA FifoLoop ==
  ASSUME FifoInv, LoopStep
  PROVE  HandOver' /\ Holder' = Holder /\ Line' = Line
<1> USE FifoParts
<1>0. owner' = owner /\ holds' = holds /\ call' = call /\ mwait' = mwait
  BY DEF LoopStep, syncVars
<1>1. \A t \in Slots :
        \/ Collected[t] = state[t]
        \/ state[t] = "ZOMBIE" /\ Collected[t] = "TERMINATED" /\ holds[t] = {}
           /\ call[t] \notin Mutexes
  BY DEF Collected, DeadHoldNothing, WaitersArePatient, Patient
<1>2. ASSUME LoopStops \/ IdleStops
      PROVE  HandOver'
  <2>1. /\ state' = Collected /\ due' = due /\ timeoutFired' = timeoutFired
        /\ current' = NoReady
    BY <1>2 DEF LoopStops, IdleStops, AtLoopTop
  <2>2. WaitersArePatient' /\ FlightIsKnown' /\ DeadHoldNothing'
    BY <1>0, <1>1, <2>1, HandOverKept, TypeNext DEF Next
  <2> QED BY <2>1, <2>2 DEF HandOver, LoopIsOff
<1>3. ASSUME IdleAdvance
      PROVE  HandOver'
  <2>1. PICK d : Elapse(d)
    BY <1>3 DEF IdleAdvance
  <2>2. /\ state' = Collected /\ timeoutFired' = timeoutFired
        /\ running' = running /\ current' = current
    BY <1>3 DEF IdleAdvance, loopVars
  <2>3. \A t \in Slots : due[t] = Never => due'[t] = Never
    BY <2>1 DEF Elapse
  <2>4. WaitersArePatient' /\ FlightIsKnown' /\ DeadHoldNothing'
    BY <1>0, <1>1, <2>2, <2>3, HandOverKept, TypeNext DEF Next
  <2> QED BY <2>2, <2>4 DEF HandOver, LoopIsOff
<1>4. ASSUME NEW u \in Slots, SwitchIn(u)
      PROVE  HandOver'
  <2>1. Woken /\ running' = TRUE
    BY <1>4 DEF SwitchIn, AtLoopTop
  <2>2. \A t \in Slots : call[t] \in Mutexes => t \notin Due
    BY DEF Due, WaitersArePatient, Patient, Never
  <2>3. \A t \in Due : state'[t] = "READY"
    BY <2>1 DEF Woken, Due
  <2>4. \A t \in Slots \ Due : /\ state'[t] = Collected[t] /\ due'[t] = due[t]
                               /\ timeoutFired'[t] = timeoutFired[t]
    BY <2>1 DEF Woken
  <2>5. WaitersArePatient' /\ FlightIsKnown' /\ DeadHoldNothing'
    BY <1>0, <1>1, <2>2, <2>3, <2>4, HandOverKept, TypeNext DEF Next
  <2> QED BY <2>1, <2>5 DEF HandOver, LoopIsOff
<1>5. Holder' = Holder /\ Line' = Line
  BY <1>0 DEF Holder, Line, InFlight
<1> QED BY <1>2, <1>3, <1>4, <1>5 DEF LoopStep, Loop

\* semaphores suspend and resume no task that waits for a mutex
LEMMA FifoGive ==
  ASSUME FifoInv, NEW s \in Sems, NEW reason, GiveTo(s, reason)
  PROVE  /\ WaitersArePatient' /\ FlightIsKnown' /\ DeadHoldNothing'
         /\ running' = running /\ current' = current
         /\ owner' = owner /\ holds' = holds /\ mwait' = mwait
<1> USE FifoParts
<1>0. /\ owner' = owner /\ holds' = holds /\ mwait' = mwait /\ call' = call
      /\ running' = running /\ current' = current
  BY DEF GiveTo, loopVars
<1>1. CASE swait[s] = <<>>
  BY <1>0, <1>1, HandOverKept DEF GiveTo, taskVars
<1>2. CASE swait[s] # <<>>
  <2> DEFINE h == Head(swait[s])
  <2>1. swait[s] \in WaitLine /\ TidyLine(swait[s], s, state, call, timeoutFired)
    BY DEF TypeOK, LinesTidy
  <2>2. h \in Slots /\ h \in Entries(swait[s])
    BY <1>2, <2>1, PopType, PopEntries DEF TidyLine
  <2>3. call[h] = s /\ call[h] \notin Mutexes
    BY <2>1, <2>2 DEF TidyLine
  <2>4. Resume(h, reason)
    BY <1>2 DEF GiveTo
  <2> HIDE DEF h
  <2>5. \A t \in Slots :
          \/ state'[t] = state[t] /\ due'[t] = due[t] /\ timeoutFired'[t] = timeoutFired[t]
          \/ t = h /\ state'[t] = "READY"
    BY <2>4 DEF Resume, taskVars
  <2>6. \A t \in Slots :
            \/ /\ call'[t] = call[t] /\ state'[t] = state[t]
               /\ timeoutFired'[t] = timeoutFired[t]
               /\ due[t] = Never => due'[t] = Never
            \/ /\ call[t] \notin Mutexes /\ call'[t] \notin Mutexes
               /\ state'[t] \in {"INVALID", "ZOMBIE", "TERMINATED"} => holds[t] = {}
    BY <1>0, <2>3, <2>5
  <2> QED BY <1>0, <2>6, HandOverKept
<1> QED BY <1>1, <1>2

\* semaphore calls
LEMMA FifoSem ==
  ASSUME FifoInv, SemStep
  PROVE  HandOver' /\ Holder' = Holder /\ Line' = Line
<1> USE FifoParts
<1>1. ASSUME NEW s \in Sems, SemCreate(s) \/ SemAcquire(s) \/ SemDestroy(s)
      PROVE  HandOver' /\ owner' = owner /\ holds' = holds /\ mwait' = mwait
  <2>1. /\ owner' = owner /\ holds' = holds /\ mwait' = mwait /\ call' = call
        /\ UNCHANGED schedVars
    BY <1>1 DEF SemCreate, SemAcquire, SemDestroy
  <2>2. WaitersArePatient' /\ FlightIsKnown' /\ DeadHoldNothing'
    BY <2>1, HandOverKept DEF schedVars
  <2> QED BY <2>1, <2>2 DEF HandOver, LoopIsOff, schedVars
<1>2. ASSUME NEW s \in Sems, SemGive(s)
      PROVE  HandOver' /\ owner' = owner /\ holds' = holds /\ mwait' = mwait
  BY <1>2, FifoGive DEF SemGive, HandOver, LoopIsOff
<1>3. ASSUME NEW s \in Sems, SemReturn(s)
      PROVE  HandOver' /\ owner' = owner /\ holds' = holds /\ mwait' = mwait
  <2>1. /\ owner' = owner /\ holds' = holds /\ mwait' = mwait
        /\ current \in Slots /\ call[current] = s /\ call' = [call EXCEPT ![current] = "idle"]
        /\ UNCHANGED schedVars
    BY <1>3 DEF SemReturn
  <2>2. \A t \in Slots : \/ call'[t] = call[t]
                         \/ /\ t = current /\ call[t] \notin Mutexes /\ call'[t] \notin Mutexes
                            /\ state[t] = "READY"
    BY <2>1 DEF RunningIsReady
  <2>3. WaitersArePatient' /\ FlightIsKnown' /\ DeadHoldNothing'
    BY <2>1, <2>2, HandOverKept DEF schedVars
  <2> QED BY <2>1, <2>3 DEF HandOver, LoopIsOff, schedVars
<1>4. ASSUME NEW s \in Sems, NEW d \in TakeTimeouts, SemWait(s, d)
      PROVE  HandOver' /\ owner' = owner /\ holds' = holds /\ mwait' = mwait
  <2>1. /\ owner' = owner /\ holds' = holds /\ mwait' = mwait
        /\ current \in Slots /\ call[current] = "idle"
        /\ call' = [call EXCEPT ![current] = s]
        /\ current' = NoReady /\ running' = running /\ Block(current, d)
    BY <1>4 DEF SemWait, InTask, SwitchOut
  <2>2. \A t \in Slots \ {current} :
          /\ call'[t] = call[t] /\ state'[t] = state[t] /\ due'[t] = due[t]
          /\ timeoutFired'[t] = timeoutFired[t]
    BY <2>1 DEF Block
  <2>3. state'[current] = "BLOCKED" /\ call'[current] = s
    BY <2>1 DEF Block
  <2>4. WaitersArePatient' /\ FlightIsKnown' /\ DeadHoldNothing'
    BY <2>1, <2>2, <2>3, HandOverKept
  <2> QED BY <2>1, <2>4 DEF HandOver, LoopIsOff
<1>5. (HandOver' /\ owner' = owner /\ holds' = holds /\ mwait' = mwait)
  BY <1>1, <1>2, <1>3, <1>4 DEF SemStep
<1>6. Holder' = Holder /\ Line' = Line
  BY <1>5 DEF Holder, Line, InFlight
<1> QED BY <1>5, <1>6

\* sleeping
LEMMA FifoTime ==
  ASSUME FifoInv, TimeStep
  PROVE  HandOver' /\ Holder' = Holder /\ Line' = Line
<1> USE FifoParts
<1>0. owner' = owner /\ holds' = holds /\ mwait' = mwait
  BY DEF TimeStep, SleepReturn, Sleep, BusyWait, syncVars
<1>1. ASSUME NEW d \in Delays, Sleep(d)
      PROVE  HandOver'
  <2>1. /\ current \in Slots /\ call[current] = "idle"
        /\ call' = [call EXCEPT ![current] = "sleep"]
        /\ current' = NoReady /\ running' = running /\ YieldTimed(current, d)
    BY <1>1 DEF Sleep, InTask, SwitchOut
  <2>2. \A t \in Slots \ {current} :
          /\ call'[t] = call[t] /\ state'[t] = state[t] /\ due'[t] = due[t]
          /\ timeoutFired'[t] = timeoutFired[t]
    BY <2>1 DEF YieldTimed
  <2>3. state'[current] = "WAITING" /\ call'[current] = "sleep"
    BY <2>1 DEF YieldTimed
  <2>4. WaitersArePatient' /\ FlightIsKnown' /\ DeadHoldNothing'
    BY <1>0, <2>1, <2>2, <2>3, HandOverKept
  <2> QED BY <2>1, <2>4 DEF HandOver, LoopIsOff
<1>2. ASSUME SleepReturn
      PROVE  HandOver'
  <2>1. /\ current \in Slots /\ call[current] = "sleep"
        /\ call' = [call EXCEPT ![current] = "idle"] /\ UNCHANGED schedVars
    BY <1>2 DEF SleepReturn
  <2>2. \A t \in Slots : \/ call'[t] = call[t]
                         \/ /\ t = current /\ call[t] \notin Mutexes /\ call'[t] \notin Mutexes
                            /\ state[t] = "READY"
    BY <2>1 DEF RunningIsReady
  <2>3. WaitersArePatient' /\ FlightIsKnown' /\ DeadHoldNothing'
    BY <1>0, <2>1, <2>2, HandOverKept DEF schedVars
  <2> QED BY <2>1, <2>3 DEF HandOver, LoopIsOff, schedVars
<1>3. ASSUME NEW d \in Delays, BusyWait(d)
      PROVE  HandOver'
  <2>1. /\ Elapse(d) /\ state' = state /\ timeoutFired' = timeoutFired /\ call' = call
        /\ running' = running /\ current' = current
    BY <1>3 DEF BusyWait, loopVars
  <2>2. \A t \in Slots : due[t] = Never => due'[t] = Never
    BY <2>1 DEF Elapse
  <2>3. WaitersArePatient' /\ FlightIsKnown' /\ DeadHoldNothing'
    BY <1>0, <2>1, <2>2, HandOverKept
  <2> QED BY <2>1, <2>3 DEF HandOver, LoopIsOff
<1>4. Holder' = Holder /\ Line' = Line
  BY <1>0 DEF Holder, Line, InFlight
<1> QED BY <1>1, <1>2, <1>3, <1>4 DEF TimeStep

\* tasks are created and end holding nothing
LEMMA FifoTask ==
  ASSUME FifoInv, TaskStep, NoTimeouts
  PROVE  HandOver' /\ Holder' = Holder /\ Line' = Line
<1> USE FifoParts
<1>0. owner' = owner /\ mwait' = mwait
  BY DEF TaskStep, TaskDeleteSelf, Reset, TaskCreate, TaskDelete, Run, syncVars
<1>1. ASSUME TaskDeleteSelf
      PROVE  HandOver' /\ holds' = holds
  <2>1. /\ current \in Slots /\ call[current] = "idle" /\ holds[current] = {}
        /\ call' = call /\ current' = NoReady /\ running' = running
        /\ MarkZombie(current) /\ holds' = [holds EXCEPT ![current] = {}]
    BY <1>1 DEF TaskDeleteSelf, InTask, SwitchOut, NoTimeouts
  <2>2. holds' = holds
    BY <2>1
  <2>3. \A t \in Slots \ {current} :
          /\ call'[t] = call[t] /\ state'[t] = state[t] /\ due'[t] = due[t]
          /\ timeoutFired'[t] = timeoutFired[t]
    BY <2>1 DEF MarkZombie
  <2>4. WaitersArePatient' /\ FlightIsKnown' /\ DeadHoldNothing'
    BY <1>0, <2>1, <2>2, <2>3, HandOverKept
  <2> QED BY <2>1, <2>2, <2>4 DEF HandOver, LoopIsOff
<1>2. ASSUME NEW t \in Slots, TaskCreate(t) \/ Run(t)
      PROVE  HandOver' /\ holds' = holds
  <2>1. /\ Free(t) /\ Register(t) /\ call' = [call EXCEPT ![t] = "idle"]
        /\ current' = current /\ (running' = running \/ running' = TRUE)
        /\ holds' = holds \/ holds' = [holds EXCEPT ![t] = {}]
    BY <1>2 DEF TaskCreate, Run, FirstFree, loopVars
  <2>2. holds[t] = {} /\ call[t] \notin Mutexes
    BY <2>1 DEF Free, DeadHoldNothing, WaitersArePatient, Patient
  <2>3. holds' = holds
    <3>1. [holds EXCEPT ![t] = {}] = holds
      BY <2>2
    <3> QED BY <2>1, <3>1
  <2>4. \A u \in Slots \ {t} :
          /\ call'[u] = call[u] /\ state'[u] = state[u] /\ due'[u] = due[u]
          /\ timeoutFired'[u] = timeoutFired[u]
    BY <2>1 DEF Register
  <2>5. call'[t] = "idle"
    BY <2>1
  <2>6. WaitersArePatient' /\ FlightIsKnown' /\ DeadHoldNothing'
    BY <1>0, <2>2, <2>3, <2>4, <2>5, HandOverKept
  <2> QED BY <2>1, <2>3, <2>6 DEF HandOver, LoopIsOff
<1>3. HandOver' /\ holds' = holds
  <2>1. ~Reset /\ \A t \in Slots : ~TaskDelete(t)
    BY DEF Reset, TaskDelete, NoTimeouts
  <2> QED BY <1>1, <1>2, <2>1 DEF TaskStep
<1>4. Holder' = Holder /\ Line' = Line
  BY <1>0, <1>3 DEF Holder, Line, InFlight
<1> QED BY <1>3, <1>4

\* calls that create and destroy mutexes touch no lock that is held or awaited
LEMMA FifoPool ==
  ASSUME FifoInv, NEW m \in Mutexes, MutexCreate(m) \/ MutexDestroy(m)
  PROVE  HandOver' /\ Holder' = Holder /\ Line' = Line
<1> USE FifoParts
<1>1. owner' = owner /\ mwait' = mwait
  <2>1. CASE MutexCreate(m)
    <3>1. owner[m] = NoOwner /\ mwait[m] = <<>>
      BY <2>1 DEF MutexCreate, UnusedIsFree, WaitsForReason
    <3> QED BY <2>1, <3>1 DEF MutexCreate
  <2>2. CASE MutexDestroy(m)
    BY <2>2 DEF MutexDestroy
  <2> QED BY <2>1, <2>2
<1>2. holds' = holds /\ call' = call /\ UNCHANGED schedVars
  BY DEF MutexCreate, MutexDestroy
<1>3. WaitersArePatient' /\ FlightIsKnown' /\ DeadHoldNothing'
  <2>1. \A t \in Slots : /\ call'[t] = call[t] /\ state'[t] = state[t] /\ due'[t] = due[t]
                         /\ timeoutFired'[t] = timeoutFired[t]
    BY <1>2 DEF schedVars
  <2> QED BY <1>1, <1>2, <2>1, HandOverKept
<1> QED BY <1>1, <1>2, <1>3 DEF HandOver, LoopIsOff, schedVars, Holder, Line, InFlight

\* what Holder and Line say of a mutex
LEMMA HolderLine ==
  /\ Holder = [m \in Mutexes |-> Holder[m]] /\ Line = [m \in Mutexes |-> Line[m]]
  /\ \A m \in Mutexes :
       /\ InFlight(m) => Holder[m] = NoOwner /\ Line[m] = <<owner[m]>> \o mwait[m]
       /\ ~InFlight(m) => Holder[m] = owner[m] /\ Line[m] = mwait[m]
BY DEF Holder, Line

\* locking a free mutex is Take
LEMMA AcquireIsTake ==
  ASSUME FifoInv, NEW m \in Mutexes, MutexAcquire(m)
  PROVE  HandOver' /\ Lock!Take(current, m)
<1> USE FifoParts
<1>1. /\ current = NoReady \/ (current \in Slots /\ call[current] = "idle"
                               /\ state[current] = "READY")
      /\ current \in Callers
  BY WhoCalls DEF MutexAcquire
<1>2. /\ owner[m] = NoOwner /\ mwait[m] = <<>>
      /\ owner' = [owner EXCEPT ![m] = current]
      /\ holds' = [holds EXCEPT ![current] = @ \cup {m}]
      /\ mwait' = mwait /\ call' = call /\ UNCHANGED schedVars
  BY DEF MutexAcquire, WaitsForReason
<1>3. WaitersArePatient'
  BY <1>1, <1>2 DEF WaitersArePatient, Patient, schedVars
<1>4. /\ ~InFlight(m) /\ ~InFlight(m)'
      /\ \A n \in Mutexes : n # m => InFlight(n)' = InFlight(n)
  BY <1>1, <1>2 DEF InFlight
<1>5. FlightIsKnown'
  BY <1>2, <1>4 DEF FlightIsKnown
<1>6. DeadHoldNothing'
  BY <1>1, <1>2 DEF DeadHoldNothing, schedVars
<1>7. Lock!Take(current, m)
  <2>1. Holder[m] = NoOwner /\ Line[m] = <<>>
    BY <1>2, <1>4, HolderLine
  <2>2. Holder' = [Holder EXCEPT ![m] = current]
    <3>1. Holder'[m] = current /\ \A n \in Mutexes : n # m => Holder'[n] = Holder[n]
      BY <1>2, <1>4 DEF Holder
    <3> QED BY <3>1 DEF Holder
  <2>3. Line' = Line
    <3>1. \A n \in Mutexes : Line'[n] = Line[n]
      BY <1>2, <1>4 DEF Line
    <3> QED BY <3>1 DEF Line
  <2> QED BY <2>1, <2>2, <2>3 DEF Lock!Take
<1> QED BY <1>2, <1>3, <1>5, <1>6, <1>7 DEF HandOver, LoopIsOff, schedVars

\* adding to the end of a line with a head in front
LEMMA AppendBehind ==
  ASSUME NEW q \in Seq(Slots), NEW h \in Slots, NEW t \in Slots
  PROVE  /\ Append(<<h>> \o q, t) = <<h>> \o Append(q, t)
         /\ Len(<<h>> \o q) = Len(q) + 1 /\ Len(q) \in Nat
         /\ \A i \in 1 .. Len(<<h>> \o q) : (<<h>> \o q)[i] = IF i = 1 THEN h ELSE q[i - 1]
         /\ <<h>> \o q # <<>> /\ Head(<<h>> \o q) = h /\ Tail(<<h>> \o q) = q
BY LenProperties

\* waiting for a mutex is Queue
LEMMA WaitIsQueue ==
  ASSUME FifoInv, NEW m \in Mutexes, MutexWait(m, 0)
  PROVE  HandOver' /\ Lock!Queue(current, m)
<1> USE FifoParts
<1>1. /\ current \in Slots /\ call[current] = "idle" /\ state[current] = "READY"
      /\ owner[m] \notin {NoOwner, current} /\ owner' = owner /\ holds' = holds
      /\ mwait' = [mwait EXCEPT ![m] = Push(@, current)]
      /\ call' = [call EXCEPT ![current] = m] /\ Block(current, 0)
      /\ current' = NoReady
  BY DEF MutexWait, InTask, SwitchOut, RunningIsReady
<1>2. \A t \in Slots \ {current} :
        /\ call'[t] = call[t] /\ state'[t] = state[t] /\ due'[t] = due[t]
        /\ timeoutFired'[t] = timeoutFired[t]
  BY <1>1 DEF Block
<1>3. /\ state'[current] = "BLOCKED" /\ ~timeoutFired'[current] /\ due'[current] = Never
      /\ call'[current] = m
  BY <1>1 DEF Block
<1>4. WaitersArePatient'
  BY <1>1, <1>2, <1>3 DEF WaitersArePatient, Patient
<1>5. FlightIsKnown'
  BY <1>1, <1>2 DEF FlightIsKnown, InFlight
<1>6. DeadHoldNothing'
  BY <1>1, <1>2, <1>3 DEF DeadHoldNothing
<1>7. \A n \in Mutexes : InFlight(n)' = InFlight(n)
  BY <1>1 DEF InFlight
<1>8. /\ mwait[m] \in WaitLine /\ mwait[m] \in Seq(Slots) /\ Distinct(mwait[m])
      /\ current \notin Entries(mwait[m])
  BY <1>1, WaitLineIsSeq DEF LinesTidy, TidyLine
<1>9. Push(mwait[m], current) = Append(mwait[m], current)
  <2>1. Len(mwait[m]) \in Nat /\ Len(mwait[m]) < N
    BY <1>1, <1>8, LineHasRoom, LenProperties
  <2> QED BY <2>1 DEF Push
<1>10. \A i \in 1 .. Len(mwait[m]) : mwait[m][i] # current
  BY <1>8 DEF Entries
<1>11. /\ Line'[m] = Append(Line[m], current)
       /\ Holder[m] # NoOwner \/ Line[m] # <<>>
       /\ \A i \in 1 .. Len(Line[m]) : Line[m][i] # current
  <2>1. CASE InFlight(m)
    <3>1. owner[m] \in Slots /\ Line[m] = <<owner[m]>> \o mwait[m]
      BY <2>1, HolderLine DEF InFlight
    <3>2. Line'[m] = <<owner[m]>> \o Append(mwait[m], current)
      BY <1>1, <1>7, <1>9, <2>1 DEF Line
    <3> DEFINE h == owner[m]
               q == mwait[m]
    <3>3. h \in Slots /\ q \in Seq(Slots) /\ current \in Slots /\ h # current
          /\ \A i \in 1 .. Len(q) : q[i] # current
      BY <1>1, <1>8, <1>10, <3>1
    <3> HIDE DEF h, q
    <3>4. /\ Append(<<h>> \o q, current) = <<h>> \o Append(q, current)
          /\ Len(<<h>> \o q) = Len(q) + 1 /\ Len(q) \in Nat /\ <<h>> \o q # <<>>
      <4>1. Append(<<h>> \o q, current) = <<h>> \o Append(q, current)
        BY <3>3, LenProperties
      <4> QED BY <3>3, <4>1, LenProperties
    <3>5. \A i \in 1 .. Len(<<h>> \o q) : (<<h>> \o q)[i] = IF i = 1 THEN h ELSE q[i - 1]
      <4>1. h \in Slots /\ q \in Seq(Slots) /\ current \in Slots
        BY <3>3
      <4> QED BY <4>1, AppendBehind
    <3>6. \A i \in 1 .. Len(<<h>> \o q) : (<<h>> \o q)[i] # current
      <4>1. \A i \in 1 .. Len(q) + 1 : i # 1 => i - 1 \in 1 .. Len(q)
        BY <3>4
      <4> QED BY <3>3, <3>4, <3>5, <4>1
    <3> QED BY <3>1, <3>2, <3>4, <3>6 DEF h, q
  <2>2. CASE ~InFlight(m)
    <3>1. Line[m] = mwait[m] /\ Holder[m] = owner[m]
      BY <2>2, HolderLine
    <3>2. Line'[m] = Append(mwait[m], current)
      BY <1>1, <1>7, <1>9, <2>2 DEF Line
    <3> QED BY <1>1, <1>10, <3>1, <3>2
  <2> QED BY <2>1, <2>2
<1>12. Lock!Queue(current, m)
  <2>1. Holder' = Holder /\ Holder[m] # current
    BY <1>1, <1>7 DEF Holder
  <2>2. \A n \in Mutexes : n # m => Line'[n] = Line[n]
    BY <1>1, <1>7 DEF Line
  <2>3. Line' = [Line EXCEPT ![m] = Append(@, current)]
    BY <1>11, <2>2 DEF Line
  <2> QED BY <1>11, <2>1, <2>3 DEF Lock!Queue
<1> QED BY <1>1, <1>4, <1>5, <1>6, <1>12 DEF HandOver, LoopIsOff

\* returning from a lock call that waited is Grant
LEMMA ReturnIsGrant ==
  ASSUME FifoInv, NEW m \in Mutexes, MutexReturn(m)
  PROVE  HandOver' /\ Lock!Grant(m)
<1> USE FifoParts
<1>1. /\ current \in Slots /\ call[current] = m /\ state[current] = "READY"
      /\ ~timeoutFired[current] /\ owner[m] = current /\ m \notin holds[current]
  BY DEF MutexReturn, RunningIsReady, WaitersArePatient, Patient
<1>2. /\ call' = [call EXCEPT ![current] = "idle"]
      /\ holds' = [holds EXCEPT ![current] = @ \cup {m}]
      /\ owner' = owner /\ mwait' = mwait /\ UNCHANGED schedVars
  BY <1>1 DEF MutexReturn
<1>3. WaitersArePatient'
  BY <1>1, <1>2 DEF WaitersArePatient, Patient, schedVars
<1>4. /\ InFlight(m) /\ ~InFlight(m)'
      /\ \A n \in Mutexes : n # m => InFlight(n)' = InFlight(n)
  BY <1>1, <1>2 DEF InFlight
<1>5. FlightIsKnown'
  BY <1>1, <1>2, <1>4 DEF FlightIsKnown
<1>6. DeadHoldNothing'
  BY <1>1, <1>2 DEF DeadHoldNothing, schedVars
<1>7. Lock!Grant(m)
  <2>1. Holder[m] = NoOwner /\ Line[m] = <<current>> \o mwait[m]
    BY <1>1, <1>4, HolderLine
  <2>2. mwait[m] \in Seq(Slots)
    BY WaitLineIsSeq
  <2>3. Line[m] # <<>> /\ Head(Line[m]) = current /\ Tail(Line[m]) = mwait[m]
    <3> DEFINE q == mwait[m]
    <3>1. q \in Seq(Slots) /\ current \in Slots
      BY <1>1, <2>2
    <3> HIDE DEF q
    <3>2. /\ <<current>> \o q # <<>> /\ Head(<<current>> \o q) = current
          /\ Tail(<<current>> \o q) = q
      BY <3>1, AppendBehind
    <3> QED BY <2>1, <3>2 DEF q
  <2>4. Holder' = [Holder EXCEPT ![m] = current] /\ Line' = [Line EXCEPT ![m] = mwait[m]]
    <3>1. Holder' = [Holder EXCEPT ![m] = current]
      BY <1>1, <1>2, <1>4 DEF Holder
    <3>2. Line' = [Line EXCEPT ![m] = mwait[m]]
      BY <1>1, <1>2, <1>4 DEF Line
    <3> QED BY <3>1, <3>2
  <2> QED BY <2>1, <2>3, <2>4 DEF Lock!Grant
<1> QED BY <1>2, <1>3, <1>5, <1>6, <1>7 DEF HandOver, LoopIsOff, schedVars

\* unlocking is Release: the first waiter stays first in line until it returns
LEMMA UnlockIsRelease ==
  ASSUME FifoInv, NEW m \in Mutexes, MutexUnlock(m)
  PROVE  HandOver' /\ Lock!Release(m)
<1> USE FifoParts
<1>1. /\ current = NoReady \/ (current \in Slots /\ call[current] = "idle"
                               /\ state[current] = "READY")
      /\ current \in Callers /\ current # NoOwner /\ owner[m] = current
  BY WhoCalls DEF MutexUnlock
<1>2. ~InFlight(m)
  BY <1>1 DEF FlightIsKnown, InFlight
<1>3. /\ holds' = [holds EXCEPT ![current] = @ \ {m}] /\ call' = call
      /\ current' = current /\ running' = running
  BY DEF MutexUnlock, loopVars
<1>4. Holder[m] = current /\ Line[m] = mwait[m]
  BY <1>1, <1>2, HolderLine
<1>5. CASE mwait[m] = <<>>
  <2>1. owner' = [owner EXCEPT ![m] = NoOwner] /\ mwait' = mwait /\ UNCHANGED taskVars
    BY <1>5 DEF MutexUnlock
  <2>2. WaitersArePatient'
    BY <1>1, <1>3, <2>1 DEF WaitersArePatient, Patient, taskVars
  <2>3. /\ ~InFlight(m)'
        /\ \A n \in Mutexes : n # m => InFlight(n)' = InFlight(n)
    BY <1>3, <2>1 DEF InFlight
  <2>4. FlightIsKnown'
    BY <1>3, <2>1, <2>3 DEF FlightIsKnown
  <2>5. DeadHoldNothing'
    BY <1>1, <1>3, <2>1 DEF DeadHoldNothing, taskVars
  <2>6. Holder' = [Holder EXCEPT ![m] = NoOwner]
    <3>1. Holder'[m] = NoOwner /\ \A n \in Mutexes : n # m => Holder'[n] = Holder[n]
      BY <1>2, <2>1, <2>3 DEF Holder
    <3> QED BY <3>1 DEF Holder
  <2>7. Line' = Line
    <3>1. \A n \in Mutexes : Line'[n] = Line[n]
      BY <1>2, <2>1, <2>3 DEF Line
    <3> QED BY <3>1 DEF Line
  <2>8. Lock!Release(m)
    BY <1>1, <1>4, <2>6, <2>7 DEF Lock!Release
  <2> QED BY <1>3, <2>2, <2>4, <2>5, <2>8 DEF HandOver, LoopIsOff
<1>6. CASE mwait[m] # <<>>
  <2> DEFINE h == Head(mwait[m])
  <2>1. mwait[m] \in WaitLine /\ TidyLine(mwait[m], m, state, call, timeoutFired)
    BY DEF LinesTidy
  <2>2. h \in Slots /\ h \in Entries(mwait[m])
    BY <1>6, <2>1, PopType, PopEntries DEF TidyLine
  <2>3. call[h] = m /\ state[h] = "BLOCKED" /\ ~timeoutFired[h]
    BY <2>1, <2>2 DEF TidyLine, WaitersArePatient, Patient
  <2>4. h # current /\ m \notin holds[h]
    BY <1>1, <2>2, <2>3 DEF MutualExclusion
  <2>5. /\ owner' = [owner EXCEPT ![m] = h] /\ Resume(h, "SYNC_RES")
        /\ mwait' = [mwait EXCEPT ![m] = Tail(@)]
    BY <1>6 DEF MutexUnlock
  <2>6. <<h>> \o Tail(mwait[m]) = mwait[m]
    <3>1. mwait[m] \in Seq(Slots)
      BY <2>1, WaitLineIsSeq
    <3> QED BY <1>6, <3>1, HeadTailProperties
  <2> HIDE DEF h
  <2>7. /\ state'[h] = "READY" /\ ~timeoutFired'[h]
        /\ \A t \in Slots \ {h} : /\ state'[t] = state[t] /\ due'[t] = due[t]
                                  /\ timeoutFired'[t] = timeoutFired[t]
    BY <2>2, <2>3, <2>5 DEF Resume
  <2>8. \A t \in Slots \ {current} : holds'[t] = holds[t]
    BY <1>3
  <2>9. WaitersArePatient'
    BY <1>1, <1>3, <2>2, <2>3, <2>4, <2>5, <2>7, <2>8 DEF WaitersArePatient, Patient
  <2>10. /\ InFlight(m)'
         /\ \A n \in Mutexes : n # m => InFlight(n)' = InFlight(n)
    BY <1>3, <2>2, <2>4, <2>5, <2>8 DEF InFlight
  <2>11. FlightIsKnown'
    BY <1>3, <2>3, <2>5, <2>10 DEF FlightIsKnown
  <2>12. DeadHoldNothing'
    BY <1>1, <1>3, <2>3, <2>7 DEF DeadHoldNothing
  <2>13. Holder' = [Holder EXCEPT ![m] = NoOwner]
    BY <1>2, <2>5, <2>10 DEF Holder
  <2>14. Line'[m] = mwait[m] /\ \A n \in Mutexes : n # m => Line'[n] = Line[n]
    BY <2>5, <2>6, <2>10 DEF Line
  <2>15. Line' = Line
    BY <1>4, <2>14 DEF Line
  <2>16. Lock!Release(m)
    BY <1>1, <1>4, <2>13, <2>15 DEF Lock!Release
  <2> QED BY <1>3, <2>9, <2>11, <2>12, <2>16 DEF HandOver, LoopIsOff
<1> QED BY <1>5, <1>6

\* every step keeps the invariant and is a step of the lock, or none
LEMMA FifoStep ==
  ASSUME FifoInv, [Next]_vars, NoTimeouts
  PROVE  FifoInv' /\ [Lock!LockNext]_(Lock!lockVars)
<1>1. MutexInv' /\ WakeInv'
  BY MutexInvNext, WakeInvNext DEF FifoInv, NoTimeouts, RulesKept
<1>2. SUFFICES HandOver' /\ (Lock!LockNext \/ (Holder' = Holder /\ Line' = Line))
  BY <1>1 DEF FifoInv, Lock!lockVars
<1>3. ASSUME NEW m \in Mutexes,
             MutexAcquire(m) \/ MutexReturn(m) \/ MutexUnlock(m) \/ MutexWait(m, 0)
      PROVE  HandOver' /\ Lock!LockNext
  <2>1. current \in Callers
    BY FifoParts DEF Callers
  <2> QED BY <1>3, <2>1, AcquireIsTake, ReturnIsGrant, UnlockIsRelease, WaitIsQueue
          DEF Lock!LockNext
<1>4. CASE MutexStep
  <2>1. PICK m \in Mutexes :
          \/ MutexCreate(m) \/ MutexDestroy(m)
          \/ MutexAcquire(m) \/ MutexReturn(m) \/ MutexUnlock(m)
          \/ \E d \in LockTimeouts : MutexWait(m, d)
    BY <1>4 DEF MutexStep
  <2>2. CASE MutexCreate(m) \/ MutexDestroy(m)
    BY <2>2, FifoPool
  <2>3. CASE \E d \in LockTimeouts : MutexWait(m, d)
    <3>1. PICK d \in LockTimeouts : MutexWait(m, d)
      BY <2>3
    <3>2. d = 0
      BY DEF NoTimeouts
    <3>3. MutexWait(m, 0)
      BY <3>1, <3>2
    <3>4. HandOver' /\ Lock!LockNext
      BY <1>3, <3>3
    <3> QED BY <3>4
  <2>4. CASE MutexAcquire(m) \/ MutexReturn(m) \/ MutexUnlock(m)
    <3>1. HandOver' /\ Lock!LockNext
      BY <1>3, <2>4
    <3> QED BY <3>1
  <2> QED BY <2>1, <2>2, <2>3, <2>4
<1>5. ASSUME NEW s \in IsrSems, IsrGive(s)
      PROVE  HandOver' /\ Holder' = Holder /\ Line' = Line
  <2>1. s \in Sems
    BY <1>5, ResourceAssumption
  <2>2. /\ WaitersArePatient' /\ FlightIsKnown' /\ DeadHoldNothing'
        /\ running' = running /\ current' = current
        /\ owner' = owner /\ holds' = holds /\ mwait' = mwait
    BY <1>5, <2>1, FifoGive DEF IsrGive
  <2>3. Holder' = Holder /\ Line' = Line
    BY <2>2 DEF Holder, Line, InFlight
  <2> QED BY <2>2, <2>3, FifoParts DEF HandOver, LoopIsOff
<1>6. CASE UNCHANGED vars
  <2>1. Holder' = Holder /\ Line' = Line
    BY <1>6 DEF vars, syncVars, Holder, Line, InFlight
  <2>2. WaitersArePatient' /\ FlightIsKnown' /\ DeadHoldNothing' /\ LoopIsOff'
    BY <1>6, FifoParts DEF vars, syncVars, schedVars, WaitersArePatient, Patient,
          FlightIsKnown, InFlight, DeadHoldNothing, LoopIsOff
  <2> QED BY <2>1, <2>2 DEF HandOver
<1> QED BY <1>4, <1>5, <1>6, FifoSem, FifoTime, FifoTask, FifoLoop DEF Next

\* The host mutex is a first-come first-served lock, for any number of tasks and
\* mutexes, if nobody uses a timeout, dies with a mutex or is deleted by another:
\* an unlock hands over to the longest waiter, no newcomer gets in between, and
\* no task owns a mutex without a lock call that returned or will return WINK_OK.
THEOREM MutexIsFifoLock ==
  ASSUME NoTimeouts
  PROVE  Spec => IsFifoLock
<1>1. Init => Lock!LockInit
  BY TypeInit, FifoInvInit, FifoParts DEF Init, Lock!LockInit, Holder, Line, InFlight
<1>2. FifoInv /\ [Next]_vars => FifoInv' /\ [Lock!LockNext]_(Lock!lockVars)
  BY FifoStep
<1> QED BY <1>1, <1>2, FifoInvInit, PTL DEF Spec, IsFifoLock, Lock!LockSpec
=============================================================================
