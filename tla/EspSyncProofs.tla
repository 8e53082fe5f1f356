---------------------------- MODULE EspSyncProofs ----------------------------
(***************************************************************************)
(* Theorems about EspSync and EspTimers, for any number of tasks, queues,  *)
(* semaphores, event groups and timers, and all applications.              *)
(***************************************************************************)
EXTENDS EspTimers, SequenceTheorems, FiniteSetTheorems, WellFoundedInduction, TLAPS

USE NAssumption, MaxDelayAssumption, MaxTicksAssumption

-----------------------------------------------------------------------------
(* Numbers, sequences and wait lines.                                      *)

\* a set of numbers that is not empty has a least one
LEMMA Least ==
  ASSUME NEW S, S \subseteq Nat, S # {}
  PROVE  \E x \in S : \A y \in S : x <= y
<1> DEFINE Less == {ss \in Nat \X Nat : ss[1] < ss[2]}
<1>1. IsWellFoundedOn(Less, Nat)
  BY NatLessThanWellFounded DEF OpToRel
<1>2. \A x, y \in Nat : x < y => <<x, y>> \in Less
  OBVIOUS
<1> HIDE DEF Less
<1>3. PICK x \in S : \A y \in S : ~(<<y, x>> \in Less)
  BY <1>1, WFMin
<1>4. \A y \in S : ~(y < x)
  BY <1>2, <1>3
<1> QED BY <1>4

\* the sequences of at most N members of a set
LEMMA ShortSeqs ==
  ASSUME NEW S
  PROVE  \A q : q \in UNION {[1 .. n -> S] : n \in 0 .. N}
                <=> q \in Seq(S) /\ Len(q) <= N
<1>1. ASSUME NEW q, q \in UNION {[1 .. n -> S] : n \in 0 .. N}
      PROVE  q \in Seq(S) /\ Len(q) <= N
  <2>1. PICK n \in 0 .. N : q \in [1 .. n -> S]
    BY <1>1
  <2>2. q \in Seq(S)
    BY <2>1, SeqDef
  <2> QED BY <2>1, <2>2, LenProperties
<1>2. ASSUME NEW q, q \in Seq(S), Len(q) <= N
      PROVE  q \in UNION {[1 .. n -> S] : n \in 0 .. N}
  <2>1. Len(q) \in 0 .. N /\ q \in [1 .. Len(q) -> S]
    BY <1>2, LenProperties
  <2> QED BY <2>1
<1> QED BY <1>1, <1>2

\* the empty line, and the lines as sequences
LEMMA LineIsSeq ==
  /\ <<>> \in Lines /\ <<>> \in WaiterLists
  /\ \A l \in Lines : /\ l \in Seq(Slots) /\ Len(l) \in Nat /\ Len(l) <= N
                      /\ DOMAIN l = 1 .. Len(l) /\ \A i \in DOMAIN l : l[i] \in Slots
  /\ \A l \in WaiterLists :
       /\ l \in Seq(Waiters) /\ Len(l) \in Nat /\ Len(l) <= N
       /\ DOMAIN l = 1 .. Len(l) /\ \A i \in DOMAIN l : l[i] \in Waiters
<1>1. <<>> \in Seq(Slots) /\ <<>> \in Seq(Waiters) /\ Len(<<>>) <= N
  BY EmptySeq
<1>2. <<>> \in Lines /\ <<>> \in WaiterLists
  BY <1>1, ShortSeqs DEF Lines, WaiterLists
<1>3. ASSUME NEW S, NEW l \in Seq(S)
      PROVE  Len(l) \in Nat /\ DOMAIN l = 1 .. Len(l) /\ \A i \in DOMAIN l : l[i] \in S
  BY LenProperties, ElementOfSeq
<1>4. \A l \in Lines : l \in Seq(Slots) /\ Len(l) <= N
  BY ShortSeqs DEF Lines
<1>5. \A l \in WaiterLists : l \in Seq(Waiters) /\ Len(l) <= N
  BY ShortSeqs DEF WaiterLists
<1> QED BY <1>2, <1>3, <1>4, <1>5

\* taking one entry out closes the gap
LEMMA Removed ==
  ASSUME NEW S, NEW q \in Seq(S), NEW i \in 1 .. Len(q)
  PROVE  /\ RemoveAt(q, i) \in Seq(S) /\ Len(RemoveAt(q, i)) = Len(q) - 1
         /\ \A j \in 1 .. Len(q) - 1 :
              RemoveAt(q, i)[j] = IF j < i THEN q[j] ELSE q[j + 1]
<1>1. Len(q) \in Nat /\ i \in Nat /\ i >= 1 /\ i <= Len(q)
  BY LenProperties
<1> DEFINE front == SubSeq(q, 1, i - 1)
           back == SubSeq(q, i + 1, Len(q))
<1>2. /\ front \in Seq(S) /\ Len(front) = i - 1
      /\ \A j \in 1 .. i - 1 : front[j] = q[j]
  BY <1>1
<1>3. /\ back \in Seq(S) /\ Len(back) = Len(q) - i
      /\ \A j \in 1 .. Len(q) - i : back[j] = q[i + j]
  BY <1>1
<1>4. RemoveAt(q, i) = front \o back
  BY DEF RemoveAt
<1> HIDE DEF front, back
<1>5. /\ front \o back \in Seq(S) /\ Len(front \o back) = Len(front) + Len(back)
      /\ \A j \in 1 .. Len(front) + Len(back) :
           (front \o back)[j] = IF j <= Len(front) THEN front[j] ELSE back[j - Len(front)]
  BY <1>2, <1>3, ConcatProperties
<1>6. Len(front) + Len(back) = Len(q) - 1
  BY <1>1, <1>2, <1>3
<1>7. ASSUME NEW j \in 1 .. Len(q) - 1
      PROVE  (front \o back)[j] = IF j < i THEN q[j] ELSE q[j + 1]
  <2>1. CASE j < i
    <3>1. j \in 1 .. i - 1 /\ j <= Len(front) /\ j \in 1 .. Len(front) + Len(back)
      BY <1>1, <1>2, <1>6, <2>1
    <3> QED BY <1>2, <1>5, <2>1, <3>1
  <2>2. CASE ~(j < i)
    <3>1. /\ j - (i - 1) \in 1 .. Len(q) - i /\ ~(j <= Len(front))
          /\ j \in 1 .. Len(front) + Len(back) /\ i + (j - (i - 1)) = j + 1
      BY <1>1, <1>2, <1>6, <2>2
    <3> QED BY <1>2, <1>3, <1>5, <2>2, <3>1
  <2> QED BY <2>1, <2>2
<1> QED BY <1>4, <1>5, <1>6, <1>7

Distinct(l) == \A i, j \in DOMAIN l : l[i] = l[j] => i = j

\* a line without duplicates that lost an entry
LEMMA RemovedFromLine ==
  ASSUME NEW l \in Lines, Distinct(l), NEW i \in DOMAIN l
  PROVE  /\ RemoveAt(l, i) \in Lines /\ Distinct(RemoveAt(l, i))
         /\ \A t : In(t, RemoveAt(l, i)) <=> In(t, l) /\ t # l[i]
<1>1. l \in Seq(Slots) /\ Len(l) \in Nat /\ Len(l) <= N /\ DOMAIN l = 1 .. Len(l)
  BY LineIsSeq
<1> DEFINE r == RemoveAt(l, i)
<1>2. /\ r \in Seq(Slots) /\ Len(r) = Len(l) - 1
      /\ \A j \in 1 .. Len(l) - 1 : r[j] = IF j < i THEN l[j] ELSE l[j + 1]
  BY <1>1, Removed
<1> HIDE DEF r
<1>3. DOMAIN r = 1 .. Len(l) - 1 /\ i \in 1 .. Len(l)
  BY <1>1, <1>2, LenProperties
<1>4. r \in Lines
  <2>1. Len(r) <= N
    BY <1>1, <1>2
  <2> QED BY <1>2, <2>1, ShortSeqs DEF Lines
<1>5. Distinct(r)
  <2> SUFFICES ASSUME NEW j \in 1 .. Len(l) - 1, NEW k \in 1 .. Len(l) - 1, r[j] = r[k]
               PROVE  j = k
    BY <1>3 DEF Distinct
  <2>1. /\ r[j] = IF j < i THEN l[j] ELSE l[j + 1]
        /\ r[k] = IF k < i THEN l[k] ELSE l[k + 1]
    BY <1>2
  <2>2. \A m \in 1 .. Len(l) - 1 : m \in DOMAIN l /\ m + 1 \in DOMAIN l
    BY <1>1
  <2>3. CASE j < i /\ k < i
    BY <2>1, <2>2, <2>3 DEF Distinct
  <2>4. CASE ~(j < i) /\ ~(k < i)
    <3>1. j + 1 = k + 1
      BY <2>1, <2>2, <2>4 DEF Distinct
    <3> QED BY <1>1, <3>1
  <2>5. CASE j < i /\ ~(k < i)
    <3>1. j = k + 1
      BY <2>1, <2>2, <2>5 DEF Distinct
    <3> QED BY <1>1, <1>3, <2>5, <3>1
  <2>6. CASE ~(j < i) /\ k < i
    <3>1. j + 1 = k
      BY <2>1, <2>2, <2>6 DEF Distinct
    <3> QED BY <1>1, <1>3, <2>6, <3>1
  <2> QED BY <2>3, <2>4, <2>5, <2>6
<1>6. ASSUME NEW j \in 1 .. Len(l) - 1
      PROVE  \E k \in DOMAIN l : k # i /\ r[j] = l[k]
  <2>1. CASE j < i
    <3>1. j \in DOMAIN l /\ j # i /\ r[j] = l[j]
      BY <1>1, <1>2, <1>3, <2>1
    <3> QED BY <3>1
  <2>2. CASE ~(j < i)
    <3>1. j + 1 \in DOMAIN l /\ j + 1 # i /\ r[j] = l[j + 1]
      BY <1>1, <1>2, <1>3, <2>2
    <3> QED BY <3>1
  <2> QED BY <2>1, <2>2
<1>7. ASSUME NEW k \in DOMAIN l, k # i
      PROVE  \E j \in 1 .. Len(l) - 1 : r[j] = l[k]
  <2>1. CASE k < i
    <3>1. k \in 1 .. Len(l) - 1 /\ r[k] = l[k]
      BY <1>1, <1>2, <1>3, <2>1
    <3> QED BY <3>1
  <2>2. CASE ~(k < i)
    <3>1. k - 1 \in 1 .. Len(l) - 1 /\ (k - 1) + 1 = k /\ ~(k - 1 < i)
      BY <1>1, <1>3, <1>7, <2>2
    <3>2. r[k - 1] = l[k]
      BY <1>2, <3>1
    <3> QED BY <3>1, <3>2
  <2> QED BY <2>1, <2>2
<1>8. \A t : In(t, r) <=> In(t, l) /\ t # l[i]
  <2>1. ASSUME NEW t, In(t, r)
        PROVE  In(t, l) /\ t # l[i]
    <3>1. PICK j \in 1 .. Len(l) - 1 : r[j] = t
      BY <1>3, <2>1 DEF In
    <3>2. PICK k \in DOMAIN l : k # i /\ r[j] = l[k]
      BY <1>6
    <3> QED BY <3>1, <3>2 DEF In, Distinct
  <2>2. ASSUME NEW t, In(t, l), t # l[i]
        PROVE  In(t, r)
    <3>1. PICK k \in DOMAIN l : l[k] = t /\ k # i
      BY <2>2 DEF In
    <3>2. PICK j \in 1 .. Len(l) - 1 : r[j] = l[k]
      BY <1>7, <3>1
    <3> QED BY <1>3, <3>1, <3>2 DEF In
  <2> QED BY <2>1, <2>2
<1> QED BY <1>4, <1>5, <1>8 DEF r

\* waiter_remove
LEMMA WithoutLine ==
  ASSUME NEW l \in Lines, Distinct(l), NEW t
  PROVE  /\ Without(l, t) \in Lines /\ Distinct(Without(l, t))
         /\ \A u : In(u, Without(l, t)) <=> In(u, l) /\ u # t
<1>1. CASE In(t, l)
  <2>1. PICK k \in DOMAIN l : l[k] = t
    BY <1>1 DEF In
  <2>2. \A j \in 1 .. k - 1 : j \in DOMAIN l /\ j # k
    BY LineIsSeq
  <2>3. \E i \in DOMAIN l : l[i] = t /\ \A j \in 1 .. i - 1 : l[j] # t
    BY <2>1, <2>2 DEF Distinct
  <2>4. Place(l, t) \in DOMAIN l /\ l[Place(l, t)] = t
    BY <2>3 DEF Place
  <2>5. Without(l, t) = RemoveAt(l, Place(l, t))
    BY <1>1 DEF Without
  <2> QED BY <2>4, <2>5, RemovedFromLine
<1>2. CASE ~In(t, l)
  BY <1>2 DEF Without
<1> QED BY <1>1, <1>2

\* an array of N entries without duplicates that lacks t has room for t
LEMMA LineHasRoom ==
  ASSUME NEW q \in Seq(Slots), NEW t \in Slots, Distinct(q), ~In(t, q)
  PROVE  Len(q) < N
<1>0. Len(q) \in Nat /\ q \in [1 .. Len(q) -> Slots] /\ DOMAIN q = 1 .. Len(q)
  BY LenProperties
<1> SUFFICES ASSUME ~(Len(q) < N)
             PROVE  FALSE
  OBVIOUS
<1> DEFINE Others == Slots \ {t}
<1>1. IsFiniteSet(Slots) /\ Cardinality(Slots) = N
  <2>1. IsFiniteSet(0 .. N - 1)
        /\ Cardinality(0 .. N - 1) = IF 0 > N - 1 THEN 0 ELSE N - 1 - 0 + 1
    BY FS_Interval
  <2> QED BY <2>1 DEF Slots
<1>2. IsFiniteSet(Others) /\ Cardinality(Others) = N - 1
  BY <1>1, FS_RemoveElement
<1>3. IsFiniteSet(1 .. Len(q)) /\ Cardinality(1 .. Len(q)) = Len(q)
  <2>1. IsFiniteSet(1 .. Len(q))
        /\ Cardinality(1 .. Len(q)) = IF 1 > Len(q) THEN 0 ELSE Len(q) - 1 + 1
    BY <1>0, FS_Interval
  <2> QED BY <1>0, <2>1
<1>4. q \in [1 .. Len(q) -> Others]
  BY <1>0 DEF In
<1>5. Cardinality(Others) < Cardinality(1 .. Len(q))
  BY <1>0, <1>2, <1>3
<1>6. \E i, j \in 1 .. Len(q) : i # j /\ q[i] = q[j]
  BY <1>2, <1>3, <1>4, <1>5, FS_PigeonHole
<1> QED BY <1>0, <1>6 DEF Distinct

\* waiter_add
LEMMA JoinLine ==
  ASSUME NEW l \in Lines, Distinct(l), NEW t \in Slots
  PROVE  /\ Join(l, t) \in Lines /\ Distinct(Join(l, t))
         /\ \A u : In(u, Join(l, t)) <=> In(u, l) \/ u = t
<1>1. CASE In(t, l)
  BY <1>1 DEF Join
<1>2. CASE ~In(t, l)
  <2>1. l \in Seq(Slots) /\ Len(l) \in Nat /\ Len(l) < N /\ DOMAIN l = 1 .. Len(l)
    BY <1>2, LineIsSeq, LineHasRoom
  <2>2. Join(l, t) = Append(l, t)
    <3>1. ~(Len(l) >= N)
      BY <2>1
    <3> QED BY <1>2, <3>1 DEF Join
  <2> DEFINE r == Append(l, t)
  <2>3. /\ r \in Seq(Slots) /\ Len(r) = Len(l) + 1 /\ r[Len(l) + 1] = t
        /\ \A i \in 1 .. Len(l) : r[i] = l[i]
    BY <2>1
  <2> HIDE DEF r
  <2>4. DOMAIN r = 1 .. Len(l) + 1 /\ r \in Lines
    <3>1. Len(r) <= N
      BY <2>1, <2>3
    <3> QED BY <2>3, <3>1, LenProperties, ShortSeqs DEF Lines
  <2>5. \A i \in DOMAIN r : \/ i \in DOMAIN l /\ r[i] = l[i]
                            \/ i = Len(l) + 1 /\ r[i] = t
    BY <2>1, <2>3, <2>4
  <2>6. Distinct(r)
    BY <1>2, <2>5 DEF Distinct, In
  <2>7. \A i \in DOMAIN l : i \in DOMAIN r
    BY <2>1, <2>4
  <2>8. Len(l) + 1 \in DOMAIN r
    BY <2>1, <2>4
  <2>9. \A u : In(u, r) <=> In(u, l) \/ u = t
    BY <2>3, <2>5, <2>7, <2>8 DEF In
  <2> QED BY <2>2, <2>4, <2>6, <2>9 DEF r
<1> QED BY <1>1, <1>2

-----------------------------------------------------------------------------
(* The invariant of types.                                                 *)

RunningIsReady == current \in Slots => state[current] = "READY"

Singly == \A w \in WaitPoints : Distinct(line[w])

\* the commands a task may wait with
Sent == {m \in Commands : m.op # "work" /\ m.prev > 0}

SendersHaveCommands ==
  \A t \in Slots : call[t] = <<"timer", t>> /\ t # daemon => msg[t] \in Sent

Generated == \A h \in Handles : timers[h].used => timers[h].gen > 0

NotBehind == phase[1] # "scan" => behind = 0

SyncTypes  == TypeOK /\ RunningIsReady /\ Singly
TableTypes ==
  /\ timers \in [Handles -> [used : BOOLEAN, active : BOOLEAN, auto : BOOLEAN,
                             work : BOOLEAN, gen : 0 .. MaxGen,
                             period : 0 .. MaxDelay, expiry : Int]]
  /\ \A h \in Handles : timers[h].expiry <= MaxDelay
  /\ Generated
  /\ gen \in 0 .. MaxGen /\ want \in [Handles -> BOOLEAN] /\ spoilt \subseteq Handles
SendTypes ==
  /\ cmds \in Seq(Commands) /\ Len(cmds) <= QueueLength
  /\ txWaiter \in Slots \cup {NoReady}
  /\ msg \in [Slots -> Commands \cup {NoCmd}]
  /\ astray \subseteq Slots
DaemonTypes ==
  /\ daemon \in Slots \cup {NoReady}
  /\ asleep \in BOOLEAN
  /\ phase \in {"top", "drain", "scan"} \X (0 .. NTimers)
  /\ behind \in Nat /\ NotBehind

TimerTypes == TableTypes /\ SendTypes /\ DaemonTypes /\ SendersHaveCommands

Types == SyncTypes /\ TimerTypes

\* the types of the module are part of it
LEMMA TypesParts == Types <=> TimersTypeOK /\ RunningIsReady /\ Singly /\ Generated
                              /\ SendersHaveCommands /\ NotBehind
BY DEF Types, SyncTypes, TimerTypes, TableTypes, SendTypes, DaemonTypes, TimersTypeOK

\* the parts of TypeOK
TaskTable ==
  /\ state \in [Slots -> TaskStates]
  /\ due \in [Slots -> {Never} \cup 0 .. MaxDelay]
  /\ timeoutFired \in [Slots -> BOOLEAN]
  /\ wakeReason \in [Slots -> WakeReasons]
LoopTypes ==
  /\ current \in Slots \cup {NoReady} /\ last \in Slots \cup {NoReady}
  /\ atZero \in BOOLEAN /\ running \in BOOLEAN
  /\ main \in Slots \cup {NoReady} /\ ticks \in 0 .. MaxTicks
LineTypes ==
  /\ items \in [Queues -> Nat] /\ \A q \in Queues : items[q] <= Capacity[q]
  /\ count \in [Sems -> Nat] /\ \A s \in Sems : count[s] <= MaxCount[s]
  /\ line \in [WaitPoints -> Lines] /\ Singly
GroupTypes ==
  /\ bits \in [Groups -> SUBSET Bits]
  /\ gwait \in [Groups -> WaiterLists]
RestTypes ==
  /\ used \subseteq Objects /\ notify \in [Slots -> 0 .. MaxNotify]
  /\ holds \in [Slots -> SUBSET Mutexes] /\ stray \in [Mutexes -> 0 .. MaxStray]
  /\ lost \subseteq Objects \cup Slots
CallTypes ==
  /\ call \in [Slots -> Calls]
  /\ left \in [Slots -> {Never} \cup 0 .. MaxDelay]
  /\ stale \subseteq Slots

\* SyncTypes taken apart
LEMMA SyncParts ==
  SyncTypes <=> /\ app \in Apps /\ TaskTable /\ LoopTypes /\ LineTypes /\ GroupTypes
                /\ RestTypes /\ CallTypes /\ RunningIsReady
BY DEF SyncTypes, TypeOK, SchedTypeOK, TaskTable, LoopTypes, LineTypes, GroupTypes,
       RestTypes, CallTypes

\* and after a step
LEMMA SyncPartsNext ==
  SyncTypes' <=> /\ app' \in Apps /\ TaskTable' /\ LoopTypes' /\ LineTypes' /\ GroupTypes'
                 /\ RestTypes' /\ CallTypes' /\ RunningIsReady'
BY DEF SyncTypes, TypeOK, SchedTypeOK, TaskTable, LoopTypes, LineTypes, GroupTypes,
       RestTypes, CallTypes

-----------------------------------------------------------------------------
(* The task table.                                                         *)

\* a step wakes tasks at most; one whose call begins or ends is awake after it
Steady(u) == state'[u] = state[u] /\ due'[u] = due[u]
Eased == \A u \in Slots : state'[u] = "READY" \/ Steady(u)
EasyStep ==
  /\ TaskTable' /\ Eased
  /\ current' = current
  /\ \A u \in Slots : state'[u] = "READY" \/ (call'[u] = call[u] /\ left'[u] = left[u])

\* the caller blocks in call c; the others are left alone
BlockingStep ==
  /\ TaskTable' /\ current \in Slots /\ current' = NoReady
  /\ state'[current] = "BLOCKED" /\ due'[current] = left'[current]
  /\ \A u \in Slots \ {current} : Steady(u) /\ call'[u] = call[u] /\ left'[u] = left[u]

\* waking tasks
LEMMA WakeOps ==
  ASSUME TaskTable, RunningIsReady
  PROVE  /\ UNCHANGED taskVars => TaskTable' /\ Eased
         /\ \A t \in Slots : Resume(t, Reason) => TaskTable' /\ Eased
         /\ \A ts : ResumeAll(ts) => TaskTable' /\ Eased
         /\ \A t \in Slots : Register(t) => TaskTable' /\ Eased
<1> USE DEF TaskTable, Eased, Steady, TaskStates, WakeReasons
<1>1. UNCHANGED taskVars => TaskTable' /\ Eased
  BY DEF taskVars
<1>2. ASSUME NEW t \in Slots, Resume(t, Reason)
      PROVE  TaskTable' /\ Eased
  BY <1>2 DEF Resume, Reason, taskVars
<1>3. ASSUME NEW ts, ResumeAll(ts)
      PROVE  TaskTable' /\ Eased
  BY <1>3 DEF ResumeAll, Reason
<1>4. ASSUME NEW t \in Slots, Register(t)
      PROVE  TaskTable' /\ Eased
  BY <1>4 DEF Register
<1> QED BY <1>1, <1>2, <1>3, <1>4

\* an eased step keeps the running task ready
LEMMA EasyRuns ==
  ASSUME RunningIsReady, Eased, current' = current
  PROVE  RunningIsReady'
BY DEF RunningIsReady, Eased, Steady

\* calls that end or stay
LEMMA EasyCalls ==
  ASSUME RunningIsReady, CallTypes, TaskTable', Eased, current' = current,
         UNCHANGED callVars \/ (current \in Slots /\ EndCall)
  PROVE  EasyStep
<1>1. current \in Slots => state'[current] = "READY"
  BY DEF RunningIsReady, Eased, Steady
<1>2. \A u \in Slots : u = current \/ (call'[u] = call[u] /\ left'[u] = left[u])
  BY DEF EndCall, callVars, CallTypes
<1> QED BY <1>1, <1>2 DEF EasyStep

\* sync_block
LEMMA BlockOps ==
  ASSUME TaskTable, LoopTypes, current \in Slots,
         NEW timeout \in 0 .. MaxDelay, SyncBlock(timeout)
  PROVE  /\ TaskTable' /\ LoopTypes' /\ current' = NoReady
         /\ state'[current] = "BLOCKED"
         /\ due'[current] = IF timeout = 0 THEN Never ELSE timeout
         /\ ~timeoutFired'[current]
         /\ \A u \in Slots \ {current} : Steady(u) /\ timeoutFired'[u] = timeoutFired[u]
<1>1. Block(current, timeout) /\ SwitchOut /\ UNCHANGED <<last, atZero, running, main>>
  BY DEF SyncBlock
<1>2. TaskTable'
  BY <1>1 DEF Block, TaskTable, TaskStates, WakeReasons
<1>3. LoopTypes'
  BY <1>1 DEF SwitchOut, LoopTypes
<1>4. /\ state'[current] = "BLOCKED" /\ ~timeoutFired'[current]
      /\ due'[current] = IF timeout = 0 THEN Never ELSE timeout
      /\ \A u \in Slots \ {current} : Steady(u) /\ timeoutFired'[u] = timeoutFired[u]
  BY <1>1 DEF Block, TaskTable, Steady
<1> QED BY <1>1, <1>2, <1>3, <1>4 DEF SwitchOut

\* a blocking call begins, or goes on
LEMMA Blocks ==
  ASSUME TaskTable, LoopTypes, CallTypes, current \in Slots,
         NEW timeout \in 0 .. MaxDelay, SyncBlock(timeout),
         \/ \E c \in Calls : StartCall(c, timeout)
         \/ UNCHANGED callVars /\ left[current] = IF timeout = 0 THEN Never ELSE timeout
  PROVE  BlockingStep /\ LoopTypes' /\ CallTypes' /\ RunningIsReady'
<1>1. /\ TaskTable' /\ LoopTypes' /\ current' = NoReady
      /\ state'[current] = "BLOCKED"
      /\ due'[current] = IF timeout = 0 THEN Never ELSE timeout
      /\ \A u \in Slots \ {current} : Steady(u)
  BY BlockOps
<1>2. RunningIsReady'
  BY <1>1 DEF RunningIsReady, Slots, NoReady
<1>3. CASE \E c \in Calls : StartCall(c, timeout)
  <2>1. PICK c \in Calls : StartCall(c, timeout)
    BY <1>3
  <2>2. CallTypes'
    BY <2>1 DEF StartCall, CallTypes
  <2>3. /\ left'[current] = IF timeout = 0 THEN Never ELSE timeout
        /\ \A u \in Slots \ {current} : call'[u] = call[u] /\ left'[u] = left[u]
    BY <2>1 DEF StartCall, CallTypes
  <2> QED BY <1>1, <1>2, <2>2, <2>3 DEF BlockingStep
<1>4. CASE UNCHANGED callVars /\ left[current] = IF timeout = 0 THEN Never ELSE timeout
  BY <1>1, <1>2, <1>4 DEF BlockingStep, callVars, CallTypes
<1> QED BY <1>3, <1>4

\* the end of a call, types
LEMMA EndCallType ==
  ASSUME CallTypes, EndCall
  PROVE  CallTypes'
BY DEF EndCall, CallTypes, Calls

-----------------------------------------------------------------------------
(* Wait points.                                                            *)

\* what the calls that wait in lines look like
LEMMA WaitCallKinds ==
  /\ \A c \in WaitCalls :
       /\ c \in Calls /\ LineOf(c) \in WaitPoints /\ c = <<c[1], c[2]>>
       /\ c[1] \in {"send", "recv", "peek", "take"}
       /\ c[1] = "take" => c[2] \in Sems /\ LineOf(c) = c
       /\ c[1] # "take" => /\ c[2] \in Queues
                           /\ <<"send", c[2]>> \in WaitPoints
                           /\ <<"recv", c[2]>> \in WaitPoints
       /\ c[1] = "send" => LineOf(c) = <<"send", c[2]>>
       /\ c[1] \in {"recv", "peek"} => LineOf(c) = <<"recv", c[2]>>
  /\ \A w \in WaitPoints : w \in WaitCalls /\ LineOf(w) = w
BY DEF WaitCalls, WaitPoints, Calls, LineOf

\* the priority of a waiter
LEMMA RankType == \A w \in WaitPoints : \A t \in Slots : Rank(w, t) \in 0 .. 24
BY TaskAssumption DEF Rank

\* a line that is not empty has a first waiter of the highest priority
LEMMA FirstIn ==
  ASSUME NEW w \in WaitPoints, line[w] \in Lines, line[w] # <<>>
  PROVE  /\ First(w) \in DOMAIN line[w]
         /\ line[w][First(w)] \in Slots
<1> DEFINE l == line[w]
           R(j) == Rank(w, l[j])
           Below(j) == 24 - R(j)
           S1 == {Below(j) : j \in DOMAIN l}
<1>1. /\ Len(l) \in Nat /\ DOMAIN l = 1 .. Len(l) /\ \A i \in DOMAIN l : l[i] \in Slots
      /\ l \in Seq(Slots)
  BY LineIsSeq
<1>2. 1 \in DOMAIN l
  BY <1>1, EmptySeq
<1>3. \A j \in DOMAIN l : R(j) \in 0 .. 24
  BY <1>1, RankType
<1> HIDE DEF R
<1>4. S1 \subseteq Nat /\ S1 # {}
  <2>1. \A j \in DOMAIN l : Below(j) \in Nat
    <3>1. \A r \in 0 .. 24 : 24 - r \in Nat
      OBVIOUS
    <3> HIDE DEF l
    <3> QED BY <1>3, <3>1
  <2> HIDE DEF Below
  <2> QED BY <1>2, <2>1
<1>5. PICK m \in S1 : \A y \in S1 : m <= y
  BY <1>4, Least
<1> DEFINE S2 == {j \in DOMAIN l : Below(j) = m}
<1>6. S2 \subseteq Nat /\ S2 # {}
  BY <1>1, <1>5
<1>7. PICK i \in S2 : \A y \in S2 : i <= y
  BY <1>6, Least
<1>8. \A j \in DOMAIN l : R(j) <= R(i)
  <2> SUFFICES ASSUME NEW j \in DOMAIN l
               PROVE  R(j) <= R(i)
    OBVIOUS
  <2>1. i \in DOMAIN l /\ 24 - R(i) = m /\ m <= 24 - R(j)
    BY <1>5, <1>7
  <2>2. R(i) \in 0 .. 24 /\ R(j) \in 0 .. 24
    BY <1>3, <2>1
  <2>3. \A a, b \in 0 .. 24 : 24 - a <= 24 - b => b <= a
    OBVIOUS
  <2> QED BY <2>1, <2>2, <2>3
<1>9. ASSUME NEW j \in 1 .. i - 1
      PROVE  R(j) < R(i)
  <2>1. i \in DOMAIN l /\ j \in DOMAIN l /\ j \notin S2 /\ 24 - R(i) = m
    BY <1>1, <1>7
  <2>2. 24 - R(j) # m
    BY <2>1
  <2>3. R(i) \in 0 .. 24 /\ R(j) \in 0 .. 24 /\ R(j) <= R(i)
    BY <1>3, <1>8, <2>1
  <2>4. \A a, b \in 0 .. 24 : b <= a /\ 24 - b # 24 - a => b < a
    OBVIOUS
  <2> QED BY <2>1, <2>2, <2>3, <2>4
<1>10. \E k \in DOMAIN line[w] :
          /\ \A j \in DOMAIN line[w] : Rank(w, line[w][j]) <= Rank(w, line[w][k])
          /\ \A j \in 1 .. k - 1 : Rank(w, line[w][j]) < Rank(w, line[w][k])
  BY <1>7, <1>8, <1>9 DEF R
<1>11. First(w) \in DOMAIN line[w]
  BY <1>10 DEF First
<1> QED BY <1>1, <1>11

\* ..._pop_highest_prio
LEMMA PoppedLine ==
  ASSUME NEW w \in WaitPoints, line[w] \in Lines, Distinct(line[w])
  PROVE  /\ Popped(w) \in Lines /\ Distinct(Popped(w))
         /\ \A t : In(t, Popped(w)) =>
                     In(t, line[w]) /\ (line[w] # <<>> => t # line[w][First(w)])
         /\ \A t : In(t, line[w]) =>
                     line[w] # <<>> /\ (In(t, Popped(w)) \/ t = line[w][First(w)])
<1>1. CASE line[w] = <<>>
  BY <1>1, LineIsSeq, EmptySeq DEF Popped, In, Distinct
<1>2. CASE line[w] # <<>>
  <2>1. First(w) \in DOMAIN line[w]
    BY <1>2, FirstIn
  <2>2. Popped(w) = RemoveAt(line[w], First(w))
    BY <1>2 DEF Popped
  <2> QED BY <1>2, <2>1, <2>2, RemovedFromLine
<1> QED BY <1>1, <1>2

\* the waiter that is resumed
LEMMA WakeOk ==
  ASSUME TaskTable, RunningIsReady, NEW w \in WaitPoints, line[w] \in Lines, Wake(w)
  PROVE  TaskTable' /\ Eased
<1>1. CASE line[w] = <<>>
  BY <1>1, WakeOps DEF Wake
<1>2. CASE line[w] # <<>>
  BY <1>2, FirstIn, WakeOps DEF Wake
<1> QED BY <1>1, <1>2

\* one line changes
LEMMA LineChanges ==
  ASSUME NEW p \in WaitPoints, NEW l \in Lines, Distinct(l),
         NEW all \in [WaitPoints -> Lines], \A w \in WaitPoints : Distinct(all[w])
  PROVE  /\ [all EXCEPT ![p] = l] \in [WaitPoints -> Lines]
         /\ \A w \in WaitPoints : Distinct([all EXCEPT ![p] = l][w])
OBVIOUS

\* the caller leaves its line
LEMMA LeftLine ==
  ASSUME LineTypes, NEW c \in WaitCalls
  PROVE  /\ Left(c) \in [WaitPoints -> Lines]
         /\ \A w \in WaitPoints : Distinct(Left(c)[w])
         /\ \A w \in WaitPoints : w # LineOf(c) => Left(c)[w] = line[w]
         /\ Left(c)[LineOf(c)] = Without(line[LineOf(c)], current)
<1>1. LineOf(c) \in WaitPoints /\ line \in [WaitPoints -> Lines]
      /\ \A w \in WaitPoints : Distinct(line[w])
  BY WaitCallKinds DEF LineTypes, Singly
<1>2. Without(line[LineOf(c)], current) \in Lines
      /\ Distinct(Without(line[LineOf(c)], current))
  BY <1>1, WithoutLine
<1> DEFINE new == Without(line[LineOf(c)], current)
<1>3. Left(c) = [line EXCEPT ![LineOf(c)] = new]
  BY DEF Left
<1>4. Left(c)[LineOf(c)] = new /\ \A w \in WaitPoints : w # LineOf(c) => Left(c)[w] = line[w]
  BY <1>1, <1>3
<1> HIDE DEF new
<1>5. /\ Left(c) \in [WaitPoints -> Lines]
      /\ \A w \in WaitPoints : Distinct(Left(c)[w])
  BY <1>1, <1>2, <1>3, LineChanges DEF new
<1> QED BY <1>4, <1>5 DEF new

\* a send, receive, peek or take that is done
LEMMA EffectOk ==
  ASSUME SyncTypes, NEW c \in WaitCalls, Room(c),
         NEW l \in [WaitPoints -> Lines], \A w \in WaitPoints : Distinct(l[w]),
         Effect(c, l)
  PROVE  /\ TaskTable' /\ Eased /\ LoopTypes' /\ LineTypes' /\ GroupTypes'
         /\ current' = current /\ used' \subseteq Objects
         /\ notify' \in [Slots -> 0 .. MaxNotify] /\ holds' \in [Slots -> SUBSET Mutexes]
         /\ stray' = stray
<1>1. TaskTable /\ LoopTypes /\ LineTypes /\ GroupTypes /\ RestTypes /\ RunningIsReady
  BY SyncParts
<1>2. /\ c = <<c[1], c[2]>> /\ c[1] \in {"send", "recv", "peek", "take"}
      /\ c[1] = "take" => c[2] \in Sems
      /\ c[1] # "take" => /\ c[2] \in Queues /\ <<"send", c[2]>> \in WaitPoints
                          /\ <<"recv", c[2]>> \in WaitPoints
  BY WaitCallKinds
<1>3. /\ LoopTypes' /\ GroupTypes' /\ current' = current /\ used' = used
      /\ notify' = notify /\ stray' = stray
  BY <1>1 DEF Effect, otherVars, loopVars, groupVars, LoopTypes, GroupTypes
<1>4. items' \in [Queues -> Nat] /\ \A q \in Queues : items'[q] <= Capacity[q]
  <2>1. items \in [Queues -> Nat] /\ \A q \in Queues : items[q] <= Capacity[q]
        /\ Capacity \in [Queues -> Nat]
    BY <1>1, SizeAssumption DEF LineTypes
  <2>2. CASE c[1] = "send"
    <3>1. items' = [items EXCEPT ![c[2]] = @ + 1] /\ items[c[2]] < Capacity[c[2]]
      BY <2>2 DEF Effect, Room
    <3> QED BY <1>2, <2>1, <2>2, <3>1
  <2>3. CASE c[1] = "recv"
    <3>1. items' = [items EXCEPT ![c[2]] = @ - 1] /\ items[c[2]] > 0
      BY <2>3 DEF Effect, Room
    <3>2. c[2] \in Queues /\ items[c[2]] - 1 \in Nat
          /\ items[c[2]] - 1 <= Capacity[c[2]]
      BY <1>2, <2>1, <2>3, <3>1
    <3> QED BY <2>1, <3>1, <3>2
  <2>4. CASE c[1] \notin {"send", "recv"}
    BY <2>1, <2>4 DEF Effect
  <2> QED BY <2>2, <2>3, <2>4
<1>5. count' \in [Sems -> Nat] /\ \A s \in Sems : count'[s] <= MaxCount[s]
  <2>1. count \in [Sems -> Nat] /\ \A s \in Sems : count[s] <= MaxCount[s]
        /\ MaxCount \in [Sems -> Nat]
    BY <1>1, SizeAssumption DEF LineTypes
  <2>2. CASE c[1] = "take"
    <3>1. count' = [count EXCEPT ![c[2]] = @ - 1] /\ count[c[2]] > 0
      BY <2>2 DEF Effect, Room
    <3>2. c[2] \in Sems /\ count[c[2]] - 1 \in Nat
          /\ count[c[2]] - 1 <= MaxCount[c[2]]
      BY <1>2, <2>1, <2>2, <3>1
    <3> QED BY <2>1, <3>1, <3>2
  <2>3. CASE c[1] # "take"
    BY <2>1, <2>3 DEF Effect
  <2> QED BY <2>2, <2>3
<1>6. /\ line' \in [WaitPoints -> Lines] /\ \A w \in WaitPoints : Distinct(line'[w])
      /\ TaskTable' /\ Eased
  <2> DEFINE other == <<IF c[1] = "send" THEN "recv" ELSE "send", c[2]>>
  <2>1. CASE c[1] \in {"send", "recv"}
    <3>1. other \in WaitPoints
      BY <1>2, <2>1
    <3> HIDE DEF other
    <3>2. line' = [l EXCEPT ![other] = Popped(other)] /\ Wake(other)
      BY <2>1 DEF Effect, other
    <3>3. line[other] \in Lines /\ Distinct(line[other])
      BY <1>1, <3>1 DEF LineTypes, Singly
    <3>4. Popped(other) \in Lines /\ Distinct(Popped(other))
      BY <3>1, <3>3, PoppedLine
    <3>5. TaskTable' /\ Eased
      BY <1>1, <3>1, <3>2, <3>3, WakeOk
    <3> QED BY <3>1, <3>2, <3>4, <3>5, LineChanges
  <2>2. CASE c[1] \notin {"send", "recv"}
    <3>1. line' = l /\ UNCHANGED taskVars
      BY <2>2 DEF Effect
    <3> QED BY <1>1, <3>1, WakeOps
  <2> QED BY <2>1, <2>2
<1>7. holds' \in [Slots -> SUBSET Mutexes]
  <2>1. holds \in [Slots -> SUBSET Mutexes]
    BY <1>1 DEF RestTypes
  <2>2. CASE c[1] = "take" /\ c[2] \in Mutexes
    BY <2>1, <2>2 DEF Effect
  <2>3. CASE ~(c[1] = "take" /\ c[2] \in Mutexes)
    BY <2>1, <2>3 DEF Effect
  <2> QED BY <2>2, <2>3
<1>8. LineTypes'
  BY <1>4, <1>5, <1>6 DEF LineTypes, Singly
<1> QED BY <1>1, <1>3, <1>6, <1>7, <1>8 DEF RestTypes

-----------------------------------------------------------------------------
(* The steps of the FreeRTOS calls keep the types.                         *)

Moves == EasyStep \/ BlockingStep

\* a call of a task, or of an interrupt handler
LEMMA DoTypes ==
  ASSUME SyncTypes, NEW c \in WaitCalls, Do(c)
  PROVE  SyncTypes' /\ Moves
<1>1. /\ TaskTable /\ LoopTypes /\ LineTypes /\ RestTypes /\ CallTypes /\ RunningIsReady
      /\ app \in Apps
  BY SyncParts
<1>2. Room(c) /\ Effect(c, line) /\ UNCHANGED <<app, callVars, lost>>
  BY DEF Do
<1>3. line \in [WaitPoints -> Lines] /\ \A w \in WaitPoints : Distinct(line[w])
  BY <1>1 DEF LineTypes, Singly
<1>4. /\ TaskTable' /\ Eased /\ LoopTypes' /\ LineTypes' /\ GroupTypes'
      /\ current' = current /\ used' \subseteq Objects
      /\ notify' \in [Slots -> 0 .. MaxNotify] /\ holds' \in [Slots -> SUBSET Mutexes]
      /\ stray' = stray
  BY <1>2, <1>3, EffectOk
<1>5. EasyStep /\ RunningIsReady'
  BY <1>1, <1>2, <1>4, EasyCalls, EasyRuns
<1>6. CallTypes' /\ RestTypes'
  BY <1>1, <1>2, <1>4 DEF CallTypes, callVars, RestTypes
<1>7. app' \in Apps
  BY <1>1, <1>2
<1> QED BY <1>4, <1>5, <1>6, <1>7, SyncPartsNext DEF Moves

\* a task whose call begins to wait
LEMMA WaitTypes ==
  ASSUME SyncTypes, NEW c \in WaitCalls, NEW timeout \in Timeouts, Wait(c, timeout)
  PROVE  SyncTypes' /\ Moves
<1>1. /\ TaskTable /\ LoopTypes /\ LineTypes /\ GroupTypes /\ RestTypes /\ CallTypes
      /\ RunningIsReady /\ app \in Apps
  BY SyncParts
<1>2. /\ current \in Slots /\ StartCall(c, timeout) /\ SyncBlock(timeout)
      /\ line' = [line EXCEPT ![LineOf(c)] = Join(@, current)]
      /\ UNCHANGED <<app, used, items, count, groupVars, notify, histVars>>
  BY DEF Wait, InTask
<1>3. timeout \in 0 .. MaxDelay /\ c \in Calls /\ LineOf(c) \in WaitPoints
  BY TaskAssumption, WaitCallKinds
<1>4. BlockingStep /\ LoopTypes' /\ CallTypes' /\ RunningIsReady'
  BY <1>1, <1>2, <1>3, Blocks
<1>5. LineTypes'
  <2> DEFINE p == LineOf(c)
             new == Join(line[p], current)
  <2>1. line[p] \in Lines /\ Distinct(line[p])
        /\ line \in [WaitPoints -> Lines] /\ \A w \in WaitPoints : Distinct(line[w])
    BY <1>1, <1>3 DEF LineTypes, Singly
  <2>2. new \in Lines /\ Distinct(new)
    BY <1>2, <2>1, JoinLine
  <2>3. line' = [line EXCEPT ![p] = new]
    BY <1>2
  <2> HIDE DEF new
  <2>4. line' \in [WaitPoints -> Lines] /\ \A w \in WaitPoints : Distinct(line'[w])
    BY <1>3, <2>1, <2>2, <2>3, LineChanges
  <2> QED BY <1>1, <1>2, <2>4 DEF LineTypes, Singly
<1>6. GroupTypes' /\ RestTypes'
  BY <1>1, <1>2 DEF GroupTypes, groupVars, RestTypes, histVars
<1>7. TaskTable' /\ app' \in Apps
  BY <1>1, <1>2, <1>4 DEF BlockingStep
<1> QED BY <1>4, <1>5, <1>6, <1>7, SyncPartsNext DEF Moves

\* a task whose call goes on waiting
LEMMA RetryTypes ==
  ASSUME SyncTypes, NEW c \in WaitCalls, Retry(c)
  PROVE  SyncTypes' /\ Moves
<1> DEFINE timeout == IF left[current] = Never THEN 0 ELSE left[current]
<1>1. /\ TaskTable /\ LoopTypes /\ LineTypes /\ GroupTypes /\ RestTypes /\ CallTypes
      /\ RunningIsReady /\ app \in Apps
  BY SyncParts
<1>2. /\ current \in Slots /\ left[current] # 0 /\ SyncBlock(timeout)
      /\ line' = [line EXCEPT ![LineOf(c)] = Join(Without(@, current), current)]
      /\ UNCHANGED <<app, callVars, used, items, count, groupVars, notify, histVars>>
  BY DEF Retry, Back
<1>3. left[current] \in {Never} \cup 0 .. MaxDelay /\ LineOf(c) \in WaitPoints
  BY <1>1, <1>2, WaitCallKinds DEF CallTypes
<1>4. /\ timeout \in 0 .. MaxDelay
      /\ left[current] = IF timeout = 0 THEN Never ELSE timeout
  BY <1>2, <1>3
<1> HIDE DEF timeout
<1>5. BlockingStep /\ LoopTypes' /\ CallTypes' /\ RunningIsReady'
  <2>1. UNCHANGED callVars
    BY <1>2
  <2> QED BY <1>1, <1>2, <1>4, <2>1, Blocks
<1>6. LineTypes'
  <2> DEFINE p == LineOf(c)
             old == Without(line[p], current)
             new == Join(old, current)
  <2>1. line[p] \in Lines /\ Distinct(line[p])
        /\ line \in [WaitPoints -> Lines] /\ \A w \in WaitPoints : Distinct(line[w])
    BY <1>1, <1>3 DEF LineTypes, Singly
  <2>2. old \in Lines /\ Distinct(old)
    BY <2>1, WithoutLine
  <2>3. line' = [line EXCEPT ![p] = new]
    BY <1>2
  <2> HIDE DEF old
  <2>4. new \in Lines /\ Distinct(new)
    BY <1>2, <2>2, JoinLine
  <2> HIDE DEF new
  <2>5. line' \in [WaitPoints -> Lines] /\ \A w \in WaitPoints : Distinct(line'[w])
    BY <1>3, <2>1, <2>3, <2>4, LineChanges
  <2> QED BY <1>1, <1>2, <2>5 DEF LineTypes, Singly
<1>7. GroupTypes' /\ RestTypes'
  BY <1>1, <1>2 DEF GroupTypes, groupVars, RestTypes, histVars
<1>8. TaskTable' /\ app' \in Apps
  BY <1>1, <1>2, <1>5 DEF BlockingStep
<1> QED BY <1>5, <1>6, <1>7, <1>8, SyncPartsNext DEF Moves

\* a call that ends, with or without success, or finds its object deleted
LEMMA EndsTypes ==
  ASSUME SyncTypes, NEW c \in WaitCalls, Succeed(c) \/ GiveUp(c) \/ Abort
  PROVE  SyncTypes' /\ Moves
<1>1. /\ TaskTable /\ LoopTypes /\ LineTypes /\ GroupTypes /\ RestTypes /\ CallTypes
      /\ RunningIsReady /\ app \in Apps
  BY SyncParts
<1>2. current \in Slots /\ EndCall /\ app' = app
  BY DEF Succeed, GiveUp, Abort, Back
<1>3. CallTypes'
  BY <1>1, <1>2, EndCallType
<1>4. CASE Succeed(c)
  <2>1. /\ Left(c) \in [WaitPoints -> Lines] /\ \A w \in WaitPoints : Distinct(Left(c)[w])
    BY <1>1, LeftLine
  <2>2. Room(c) /\ Effect(c, Left(c))
    BY <1>4 DEF Succeed
  <2>3. /\ TaskTable' /\ Eased /\ LoopTypes' /\ LineTypes' /\ GroupTypes'
        /\ current' = current /\ used' \subseteq Objects
        /\ notify' \in [Slots -> 0 .. MaxNotify] /\ holds' \in [Slots -> SUBSET Mutexes]
        /\ stray' = stray
    BY <1>2, <2>1, <2>2, EffectOk
  <2>4. lost' \subseteq Objects \cup Slots
    <3>1. c[1] = "peek" => c[2] \in Objects
      BY WaitCallKinds DEF Objects
    <3> QED BY <1>1, <1>4, <3>1 DEF Succeed, RestTypes
  <2>5. EasyStep /\ RunningIsReady'
    BY <1>1, <1>2, <2>3, EasyCalls, EasyRuns
  <2> QED BY <1>1, <1>2, <1>3, <2>3, <2>4, <2>5, SyncPartsNext DEF Moves, RestTypes
<1>5. ASSUME GiveUp(c) \/ Abort
      PROVE  SyncTypes' /\ Moves
  <2>1. /\ UNCHANGED <<schedVars, used, items, count, groupVars, notify, histVars>>
        /\ line' = Left(c) \/ line' = line
    BY <1>5 DEF GiveUp, Abort, objVars, queueVars
  <2>2. UNCHANGED taskVars /\ current' = current /\ LoopTypes'
    BY <1>1, <2>1 DEF schedVars, taskVars, LoopTypes
  <2>3. LineTypes' /\ GroupTypes' /\ RestTypes'
    <3>1. line' \in [WaitPoints -> Lines] /\ \A w \in WaitPoints : Distinct(line'[w])
      BY <1>1, <2>1, LeftLine DEF LineTypes, Singly
    <3> QED BY <1>1, <2>1, <3>1 DEF LineTypes, Singly, GroupTypes, groupVars, RestTypes,
                                    histVars
  <2>4. TaskTable' /\ EasyStep /\ RunningIsReady'
    BY <1>1, <1>2, <2>2, WakeOps, EasyCalls, EasyRuns
  <2> QED BY <1>1, <1>2, <1>3, <2>2, <2>3, <2>4, SyncPartsNext DEF Moves
<1> QED BY <1>4, <1>5

\* xSemaphoreGive
LEMMA GiveTypes ==
  ASSUME SyncTypes, NEW s \in Sems, Give(s)
  PROVE  SyncTypes' /\ Moves
<1>1. /\ TaskTable /\ LoopTypes /\ LineTypes /\ GroupTypes /\ RestTypes /\ CallTypes
      /\ RunningIsReady /\ app \in Apps
  BY SyncParts
<1> DEFINE p == <<"take", s>>
<1>2. p \in WaitPoints
  BY DEF WaitPoints
<1> HIDE DEF p
<1>3. /\ line' = [line EXCEPT ![p] = Popped(p)] /\ Wake(p)
      /\ count[s] < MaxCount[s] /\ count' = [count EXCEPT ![s] = @ + 1]
      /\ holds' = [t \in Slots |-> holds[t] \ (IF t = current THEN {s} ELSE {})]
      /\ Stray(s) => stray[s] < MaxStray
      /\ stray' = IF Stray(s) THEN [stray EXCEPT ![s] = @ + 1] ELSE stray
      /\ UNCHANGED <<app, otherVars, callVars, used, items, groupVars, notify, lost>>
  BY DEF Give, Release, p
<1>4. line[p] \in Lines /\ line \in [WaitPoints -> Lines]
      /\ \A w \in WaitPoints : Distinct(line[w])
  BY <1>1, <1>2 DEF LineTypes, Singly
<1>5. TaskTable' /\ Eased
  BY <1>1, <1>2, <1>3, <1>4, WakeOk
<1>6. LoopTypes' /\ current' = current /\ CallTypes' /\ GroupTypes'
  BY <1>1, <1>3 DEF otherVars, loopVars, LoopTypes, CallTypes, callVars, GroupTypes, groupVars
<1>7. EasyStep /\ RunningIsReady'
  BY <1>1, <1>3, <1>5, <1>6, EasyCalls, EasyRuns
<1>8. LineTypes'
  <2>1. Popped(p) \in Lines /\ Distinct(Popped(p))
    BY <1>2, <1>4, PoppedLine
  <2>2. line' \in [WaitPoints -> Lines] /\ \A w \in WaitPoints : Distinct(line'[w])
    BY <1>2, <1>3, <1>4, <2>1, LineChanges
  <2>3. MaxCount[s] \in Nat /\ count[s] \in Nat
    BY <1>1, SizeAssumption DEF LineTypes
  <2> QED BY <1>1, <1>3, <2>2, <2>3 DEF LineTypes, Singly
<1>9. RestTypes'
  <2>1. stray' \in [Mutexes -> 0 .. MaxStray]
    <3>1. stray \in [Mutexes -> 0 .. MaxStray] /\ MaxStray \in Nat
      BY <1>1, SizeAssumption DEF RestTypes
    <3>2. CASE Stray(s)
      BY <1>3, <3>1, <3>2 DEF Stray
    <3>3. CASE ~Stray(s)
      BY <1>3, <3>1, <3>3
    <3> QED BY <3>2, <3>3
  <2>2. holds' \in [Slots -> SUBSET Mutexes]
    BY <1>1, <1>3 DEF RestTypes
  <2> QED BY <1>1, <1>3, <2>1, <2>2 DEF RestTypes
<1> QED BY <1>1, <1>3, <1>5, <1>6, <1>7, <1>8, <1>9, SyncPartsNext DEF Moves

\* a give that is refused changes a history only
LEMMA GiveRefusedTypes ==
  ASSUME SyncTypes, NEW s \in Sems, GiveRefused(s)
  PROVE  SyncTypes' /\ Moves
<1>1. /\ TaskTable /\ LoopTypes /\ LineTypes /\ GroupTypes /\ RestTypes /\ CallTypes
      /\ RunningIsReady /\ app \in Apps
  BY SyncParts
<1>2. /\ holds' = [t \in Slots |-> holds[t] \ (IF t = current THEN {s} ELSE {})]
      /\ UNCHANGED <<app, schedVars, objVars, callVars, stray, lost>>
  BY DEF GiveRefused, Release
<1>3. LineTypes' /\ GroupTypes' /\ RestTypes'
  BY <1>1, <1>2 DEF objVars, queueVars, LineTypes, Singly, GroupTypes, groupVars, RestTypes
<1>4. UNCHANGED taskVars /\ current' = current /\ LoopTypes' /\ CallTypes'
  BY <1>1, <1>2 DEF schedVars, taskVars, LoopTypes, CallTypes, callVars
<1>5. TaskTable' /\ EasyStep /\ RunningIsReady'
  BY <1>1, <1>2, <1>4, WakeOps, EasyCalls, EasyRuns
<1> QED BY <1>1, <1>2, <1>3, <1>4, <1>5, SyncPartsNext DEF Moves

\* the calls of queues and semaphores
LEMMA LineStepTypes ==
  ASSUME SyncTypes, LineStep
  PROVE  SyncTypes' /\ Moves
<1>1. ASSUME NEW c \in WaitCalls,
             \/ Do(c) \/ Succeed(c) \/ GiveUp(c) \/ Retry(c)
             \/ \E d \in Timeouts : Wait(c, d)
      PROVE  SyncTypes' /\ Moves
  BY <1>1, DoTypes, WaitTypes, RetryTypes, EndsTypes
<1>2. ASSUME Abort
      PROVE  SyncTypes' /\ Moves
  <2>1. CASE WaitCalls # {}
    BY <1>2, <2>1, EndsTypes
  <2>2. CASE WaitCalls = {}
    <3>1. /\ TaskTable /\ LoopTypes /\ LineTypes /\ GroupTypes /\ RestTypes /\ CallTypes
          /\ RunningIsReady /\ app \in Apps
      BY SyncParts
    <3>2. current \in Slots /\ EndCall /\ UNCHANGED <<app, schedVars, objVars, histVars>>
      BY <1>2 DEF Abort
    <3>3. /\ CallTypes' /\ UNCHANGED taskVars /\ current' = current /\ LoopTypes'
      BY <3>1, <3>2, EndCallType DEF schedVars, taskVars, LoopTypes
    <3>4. LineTypes' /\ GroupTypes' /\ RestTypes'
      BY <3>1, <3>2 DEF objVars, queueVars, LineTypes, Singly, GroupTypes, groupVars,
                        RestTypes, histVars
    <3>5. TaskTable' /\ EasyStep /\ RunningIsReady'
      BY <3>1, <3>2, <3>3, WakeOps, EasyCalls, EasyRuns
    <3> QED BY <3>1, <3>2, <3>3, <3>4, <3>5, SyncPartsNext DEF Moves
  <2> QED BY <2>1, <2>2
<1>3. ASSUME NEW q \in Queues, QueueReset(q)
      PROVE  SyncTypes' /\ Moves
  <2>1. /\ TaskTable /\ LoopTypes /\ LineTypes /\ GroupTypes /\ RestTypes /\ CallTypes
        /\ RunningIsReady /\ app \in Apps
    BY SyncParts
  <2>2. /\ items' = [items EXCEPT ![q] = 0] /\ lost' = lost \cup {q}
        /\ UNCHANGED <<app, schedVars, callVars, used, count, line, groupVars,
                       notify, holds, stray>>
    BY <1>3 DEF QueueReset
  <2>3. UNCHANGED taskVars /\ current' = current /\ LoopTypes' /\ CallTypes' /\ GroupTypes'
    BY <2>1, <2>2 DEF schedVars, taskVars, LoopTypes, CallTypes, callVars, GroupTypes,
                      groupVars
  <2>4. LineTypes' /\ RestTypes'
    <3>1. Capacity[q] \in Nat /\ q \in Objects
      BY SizeAssumption DEF Objects
    <3> QED BY <2>1, <2>2, <3>1 DEF LineTypes, Singly, RestTypes
  <2>5. TaskTable' /\ EasyStep /\ RunningIsReady'
    BY <2>1, <2>2, <2>3, WakeOps, EasyCalls, EasyRuns
  <2> QED BY <2>1, <2>2, <2>3, <2>4, <2>5, SyncPartsNext DEF Moves
<1>4. ASSUME NEW s \in Sems, Give(s) \/ GiveRefused(s)
      PROVE  SyncTypes' /\ Moves
  BY <1>4, GiveTypes, GiveRefusedTypes
<1> QED BY <1>1, <1>2, <1>3, <1>4 DEF LineStep

\* entries of an event group
LEMMA WaiterListOps ==
  ASSUME NEW l \in WaiterLists
  PROVE  /\ \A w \in Waiters : Len(l) < N => Append(l, w) \in WaiterLists
         /\ \A i \in DOMAIN l : RemoveAt(l, i) \in WaiterLists
         /\ \A m : [i \in DOMAIN l |-> [l[i] EXCEPT !.woken = @ \/ i \in m]] \in WaiterLists
<1>1. /\ l \in Seq(Waiters) /\ Len(l) \in Nat /\ Len(l) <= N
      /\ DOMAIN l = 1 .. Len(l) /\ \A i \in DOMAIN l : l[i] \in Waiters
  BY LineIsSeq
<1>2. \A q \in Seq(Waiters) : Len(q) <= N => q \in WaiterLists
  BY ShortSeqs DEF WaiterLists
<1>3. ASSUME NEW w \in Waiters, Len(l) < N
      PROVE  Append(l, w) \in WaiterLists
  <2>1. Append(l, w) \in Seq(Waiters) /\ Len(Append(l, w)) = Len(l) + 1
    BY <1>1
  <2>2. Len(l) + 1 <= N
    BY <1>1, <1>3
  <2> QED BY <1>2, <2>1, <2>2
<1>4. ASSUME NEW i \in DOMAIN l
      PROVE  RemoveAt(l, i) \in WaiterLists
  <2>1. RemoveAt(l, i) \in Seq(Waiters) /\ Len(RemoveAt(l, i)) = Len(l) - 1
    BY <1>1, Removed
  <2>2. Len(l) - 1 <= N
    BY <1>1
  <2> QED BY <1>2, <2>1, <2>2
<1>5. ASSUME NEW m
      PROVE  [i \in DOMAIN l |-> [l[i] EXCEPT !.woken = @ \/ i \in m]] \in WaiterLists
  <2> DEFINE new == [i \in DOMAIN l |-> [l[i] EXCEPT !.woken = @ \/ i \in m]]
  <2>1. \A i \in DOMAIN l : [l[i] EXCEPT !.woken = @ \/ i \in m] \in Waiters
    <3> SUFFICES ASSUME NEW i \in DOMAIN l
                 PROVE  [l[i] EXCEPT !.woken = @ \/ i \in m] \in Waiters
      OBVIOUS
    <3>1. l[i] \in [task : Slots, need : Needs, woken : BOOLEAN]
      BY <1>1 DEF Waiters
    <3>2. (l[i].woken \/ i \in m) \in BOOLEAN
      OBVIOUS
    <3> QED BY <3>1, <3>2 DEF Waiters
  <2>2. new \in [1 .. Len(l) -> Waiters]
    BY <1>1, <2>1
  <2> HIDE DEF new
  <2>3. Len(l) \in 0 .. N
    BY <1>1
  <2>4. new \in WaiterLists
    BY <2>2, <2>3 DEF WaiterLists
  <2> QED BY <2>4 DEF new
<1> QED BY <1>3, <1>4, <1>5

\* the caller's first entry in an event group
MineIn(g)   == {i \in DOMAIN gwait[g] : gwait[g][i].task = current}
FirstOfMine(g) == {i \in MineIn(g) : \A j \in MineIn(g) : i <= j}

\* it exists, if the caller has an entry
LEMMA FirstMine ==
  ASSUME NEW g \in Groups, gwait[g] \in WaiterLists, MineIn(g) # {}
  PROVE  /\ (CHOOSE i \in FirstOfMine(g) : TRUE) \in FirstOfMine(g)
         /\ FirstOfMine(g) \subseteq MineIn(g) /\ MineIn(g) \subseteq DOMAIN gwait[g]
<1>1. MineIn(g) \subseteq Nat
  BY LineIsSeq DEF MineIn
<1>2. \E i \in MineIn(g) : \A j \in MineIn(g) : i <= j
  BY <1>1, Least
<1> QED BY <1>2 DEF FirstOfMine, MineIn

\* one event group changes
LEMMA GroupChanges ==
  ASSUME GroupTypes, NEW g \in Groups, NEW l \in WaiterLists, NEW b \in SUBSET Bits,
         gwait' = [gwait EXCEPT ![g] = l] \/ gwait' = gwait,
         bits' = [bits EXCEPT ![g] = b] \/ bits' = bits
  PROVE  GroupTypes'
BY DEF GroupTypes

\* what the calls of event groups do to the rest
LEMMA QuietGroup ==
  ASSUME SyncTypes, UNCHANGED <<app, used, queueVars, notify, holds, stray>>,
         lost' \subseteq lost \cup Slots
  PROVE  app' \in Apps /\ LineTypes' /\ RestTypes'
<1>1. app \in Apps /\ LineTypes /\ RestTypes
  BY SyncParts
<1> QED BY <1>1 DEF LineTypes, Singly, RestTypes, queueVars

\* a step that leaves the scheduler alone, and ends the call at most
LEMMA QuietSched ==
  ASSUME SyncTypes, UNCHANGED schedVars, UNCHANGED callVars \/ (current \in Slots /\ EndCall)
  PROVE  TaskTable' /\ LoopTypes' /\ CallTypes' /\ RunningIsReady' /\ Moves
<1>1. TaskTable /\ LoopTypes /\ CallTypes /\ RunningIsReady
  BY SyncParts
<1>2. UNCHANGED taskVars /\ current' = current /\ LoopTypes'
  BY <1>1 DEF schedVars, taskVars, LoopTypes
<1>3. CallTypes'
  BY <1>1, EndCallType DEF callVars, CallTypes
<1> QED BY <1>1, <1>2, <1>3, WakeOps, EasyCalls, EasyRuns DEF Moves

\* a step that resumes tasks and changes no call
LEMMA WakingStep ==
  ASSUME SyncTypes, TaskTable', Eased, UNCHANGED <<otherVars, callVars>>
  PROVE  LoopTypes' /\ CallTypes' /\ RunningIsReady' /\ Moves
<1>1. TaskTable /\ LoopTypes /\ CallTypes /\ RunningIsReady
  BY SyncParts
<1>2. current' = current /\ LoopTypes' /\ UNCHANGED callVars
  BY <1>1 DEF otherVars, loopVars, LoopTypes
<1>3. CallTypes'
  BY <1>1, <1>2 DEF callVars, CallTypes
<1> QED BY <1>1, <1>2, <1>3, EasyCalls, EasyRuns DEF Moves

\* a task begins to wait for bits
LEMMA BitsWaitTypes ==
  ASSUME SyncTypes, NEW g \in Groups, NEW n \in Needs, NEW timeout \in Timeouts,
         BitsWait(g, n, timeout)
  PROVE  SyncTypes' /\ Moves
<1>1. TaskTable /\ LoopTypes /\ CallTypes /\ GroupTypes /\ RunningIsReady
  BY SyncParts
<1>2. /\ current \in Slots /\ StartCall(<<"bits", g, n>>, timeout) /\ SyncBlock(timeout)
      /\ gwait' = [gwait EXCEPT ![g] =
           IF Len(@) >= N THEN @
           ELSE Append(@, [task |-> current, need |-> n, woken |-> FALSE])]
      /\ UNCHANGED <<app, used, queueVars, bits, notify, holds, stray>>
      /\ lost' \subseteq lost \cup Slots
  BY DEF BitsWait, InTask
<1>3. timeout \in 0 .. MaxDelay /\ <<"bits", g, n>> \in Calls
  BY TaskAssumption DEF Calls
<1>4. BlockingStep /\ LoopTypes' /\ CallTypes' /\ RunningIsReady'
  BY <1>1, <1>2, <1>3, Blocks
<1>5. GroupTypes'
  <2> DEFINE w == [task |-> current, need |-> n, woken |-> FALSE]
             new == IF Len(gwait[g]) >= N THEN gwait[g] ELSE Append(gwait[g], w)
  <2>1. gwait[g] \in WaiterLists
    BY <1>1 DEF GroupTypes
  <2>2. w \in Waiters
    BY <1>2 DEF Waiters
  <2>3. gwait' = [gwait EXCEPT ![g] = new] /\ bits' = bits
    BY <1>2
  <2> HIDE DEF w
  <2>4. CASE Len(gwait[g]) >= N
    BY <1>1, <2>1, <2>3, <2>4 DEF GroupTypes
  <2>5. CASE ~(Len(gwait[g]) >= N)
    <3>1. Len(gwait[g]) < N
      BY <2>1, <2>5, LineIsSeq
    <3>2. new \in WaiterLists
      BY <2>1, <2>2, <2>5, <3>1, WaiterListOps
    <3> HIDE DEF new
    <3> QED BY <1>1, <2>3, <3>2 DEF GroupTypes
  <2> QED BY <2>4, <2>5
<1>6. app' \in Apps /\ LineTypes' /\ RestTypes'
  BY <1>2, QuietGroup DEF histVars
<1>7. TaskTable'
  BY <1>4 DEF BlockingStep
<1> QED BY <1>4, <1>5, <1>6, <1>7, SyncPartsNext DEF Moves

\* the wait for bits ends
LEMMA BitsReturnTypes ==
  ASSUME SyncTypes, NEW g \in Groups, NEW n \in Needs, BitsReturn(g, n)
  PROVE  SyncTypes' /\ Moves
<1>1. GroupTypes
  BY SyncParts
<1>2. /\ current \in Slots /\ EndCall
      /\ UNCHANGED <<app, schedVars, used, queueVars, notify, histVars>>
  BY DEF BitsReturn, Back
<1>3. gwait[g] \in WaiterLists /\ bits[g] \in SUBSET Bits
  BY <1>1 DEF GroupTypes
<1>4. gwait' = [gwait EXCEPT ![g] =
         IF MineIn(g) = {} THEN @ ELSE RemoveAt(@, CHOOSE i \in FirstOfMine(g) : TRUE)]
  BY DEF BitsReturn, MineIn, FirstOfMine
<1>5. \E l \in WaiterLists : gwait' = [gwait EXCEPT ![g] = l]
  <2>1. CASE MineIn(g) = {}
    BY <1>3, <1>4, <2>1
  <2>2. CASE MineIn(g) # {}
    <3>1. (CHOOSE i \in FirstOfMine(g) : TRUE) \in DOMAIN gwait[g]
      BY <1>3, <2>2, FirstMine
    <3>2. RemoveAt(gwait[g], CHOOSE i \in FirstOfMine(g) : TRUE) \in WaiterLists
      BY <1>3, <3>1, WaiterListOps
    <3> QED BY <1>4, <2>2, <3>2
  <2> QED BY <2>1, <2>2
<1>6. \E b \in SUBSET Bits : bits' = [bits EXCEPT ![g] = b]
  <2>1. \E p \in BOOLEAN :
          bits' = [bits EXCEPT ![g] = IF p /\ Met(@, n) THEN Taken(@, n) ELSE @]
    BY DEF BitsReturn
  <2>2. Taken(bits[g], n) \in SUBSET Bits
    BY <1>3 DEF Taken
  <2> QED BY <1>3, <2>1, <2>2
<1>7. GroupTypes'
  BY <1>1, <1>5, <1>6, GroupChanges
<1>8. app' \in Apps /\ LineTypes' /\ RestTypes'
  BY <1>2, QuietGroup DEF histVars
<1> QED BY <1>2, <1>7, <1>8, QuietSched, SyncPartsNext

\* the calls of event groups
LEMMA GroupStepTypes ==
  ASSUME SyncTypes, GroupStep
  PROVE  SyncTypes' /\ Moves
<1>1. /\ TaskTable /\ LoopTypes /\ CallTypes /\ GroupTypes /\ RunningIsReady
  BY SyncParts
<1>2. PICK g \in Groups :
        \/ \E n \in Needs : \/ BitsDo(g, n) \/ BitsReturn(g, n)
                            \/ \E d \in Timeouts : BitsWait(g, n, d)
        \/ \E b \in Bits : SetBits(g, {b}) \/ ClearBits(g, {b})
  BY DEF GroupStep
<1>3. gwait[g] \in WaiterLists /\ bits[g] \in SUBSET Bits
  BY <1>1 DEF GroupTypes
<1>4. ASSUME NEW n \in Needs, BitsReturn(g, n) \/ \E d \in Timeouts : BitsWait(g, n, d)
      PROVE  SyncTypes' /\ Moves
  BY <1>4, BitsReturnTypes, BitsWaitTypes
<1>5. ASSUME (\E n \in Needs : BitsDo(g, n)) \/ (\E b \in Bits : ClearBits(g, {b}))
      PROVE  SyncTypes' /\ Moves
  <2>1. /\ UNCHANGED <<app, schedVars, callVars, used, queueVars, gwait, notify, histVars>>
        /\ \E b \in SUBSET Bits : bits' = [bits EXCEPT ![g] = b]
    <3>1. \A n : Taken(bits[g], n) \in SUBSET Bits
      BY <1>3 DEF Taken
    <3>2. \A b : bits[g] \ {b} \in SUBSET Bits
      BY <1>3
    <3> QED BY <1>5, <3>1, <3>2 DEF BitsDo, ClearBits
  <2>2. GroupTypes'
    BY <1>1, <1>3, <2>1, GroupChanges
  <2>3. app' \in Apps /\ LineTypes' /\ RestTypes'
    BY <2>1, QuietGroup DEF histVars
  <2> QED BY <2>1, <2>2, <2>3, QuietSched, SyncPartsNext
<1>6. ASSUME NEW b \in Bits, SetBits(g, {b})
      PROVE  SyncTypes' /\ Moves
  <2> DEFINE have  == bits[g] \cup {b}
             match == Matching(g, have)
             new   == [i \in DOMAIN gwait[g] |->
                         [gwait[g][i] EXCEPT !.woken = @ \/ i \in match]]
             left2 == {x \in have : \A i \in match : x \in Taken(have, gwait[g][i].need)}
  <2>1. /\ gwait' = [gwait EXCEPT ![g] = new] /\ bits' = [bits EXCEPT ![g] = left2]
        /\ \E ts : ResumeAll(ts)
        /\ UNCHANGED <<app, otherVars, callVars, used, queueVars, notify, histVars>>
    <3>1. /\ gwait' = [gwait EXCEPT ![g] = new]
          /\ ResumeAll({gwait[g][i].task : i \in match})
          /\ bits' = [bits EXCEPT ![g] = left2]
      <4> HIDE DEF match
      <4>1. gwait' = [gwait EXCEPT ![g] = new]
        BY <1>6 DEF SetBits, match
      <4>2. ResumeAll({gwait[g][i].task : i \in match})
        BY <1>6 DEF SetBits, match
      <4>3. bits' = [bits EXCEPT ![g] = left2]
        BY <1>6 DEF SetBits, match
      <4> QED BY <4>1, <4>2, <4>3
    <3>2. UNCHANGED <<app, otherVars, callVars, used, queueVars, notify, histVars>>
      BY <1>6 DEF SetBits
    <3> HIDE DEF new, match, left2
    <3> QED BY <3>1, <3>2, Zenon
  <2>2. left2 \in SUBSET Bits
    BY <1>3
  <2> HIDE DEF match, left2
  <2>3. new \in WaiterLists
    BY <1>3, WaiterListOps
  <2> HIDE DEF new
  <2>4. GroupTypes'
    BY <1>1, <2>1, <2>2, <2>3, GroupChanges
  <2>5. TaskTable' /\ Eased
    BY <1>1, <2>1, WakeOps
  <2>6. app' \in Apps /\ LineTypes' /\ RestTypes'
    BY <2>1, QuietGroup DEF histVars
  <2> QED BY <2>1, <2>4, <2>5, <2>6, WakingStep, SyncPartsNext
<1> QED BY <1>2, <1>4, <1>5, <1>6

\* the calls of notifications
LEMMA NotifyStepTypes ==
  ASSUME SyncTypes, NotifyStep
  PROVE  SyncTypes' /\ Moves
<1>1. /\ app \in Apps /\ TaskTable /\ LoopTypes /\ LineTypes /\ GroupTypes /\ RestTypes
      /\ CallTypes /\ RunningIsReady
  BY SyncParts
<1>2. ASSUME UNCHANGED <<app, used, queueVars, groupVars, histVars>>,
             notify' \in [Slots -> 0 .. MaxNotify]
      PROVE  app' \in Apps /\ LineTypes' /\ GroupTypes' /\ RestTypes'
  BY <1>1, <1>2 DEF queueVars, groupVars, histVars, LineTypes, Singly, GroupTypes, RestTypes
<1>3. ASSUME NEW t \in Slots, NotifyGive(t)
      PROVE  SyncTypes' /\ Moves
  <2>1. /\ notify[t] < MaxNotify /\ notify' = [notify EXCEPT ![t] = @ + 1]
        /\ Resume(t, Reason)
        /\ UNCHANGED <<app, otherVars, callVars, used, queueVars, groupVars, histVars>>
    BY <1>3 DEF NotifyGive
  <2>2. notify' \in [Slots -> 0 .. MaxNotify]
    <3>1. notify \in [Slots -> 0 .. MaxNotify] /\ MaxNotify \in Nat
      BY <1>1, SizeAssumption DEF RestTypes
    <3>2. notify[t] + 1 \in 0 .. MaxNotify
      BY <2>1, <3>1
    <3> QED BY <2>1, <3>1, <3>2
  <2>3. TaskTable' /\ Eased
    BY <1>1, <2>1, WakeOps
  <2> QED BY <1>2, <2>1, <2>2, <2>3, WakingStep, SyncPartsNext
<1>4. ASSUME NEW clear \in BOOLEAN, NotifyDo(clear) \/ NotifyReturn(clear)
      PROVE  SyncTypes' /\ Moves
  <2>1. /\ TakeNotify(clear) /\ UNCHANGED <<app, schedVars, used, queueVars, groupVars, histVars>>
        /\ UNCHANGED callVars \/ (current \in Slots /\ EndCall)
        /\ current \in Slots
    BY <1>4 DEF NotifyDo, NotifyReturn, Back, InTask
  <2>2. notify' \in [Slots -> 0 .. MaxNotify]
    <3>1. notify \in [Slots -> 0 .. MaxNotify] /\ MaxNotify \in Nat
      BY <1>1, SizeAssumption DEF RestTypes
    <3>2. notify' = [notify EXCEPT ![current] =
                       IF notify[current] = 0 \/ clear THEN 0 ELSE notify[current] - 1]
      BY <2>1 DEF TakeNotify
    <3>3. (IF notify[current] = 0 \/ clear THEN 0 ELSE notify[current] - 1) \in 0 .. MaxNotify
      BY <2>1, <3>1
    <3> QED BY <3>1, <3>2, <3>3
  <2> QED BY <1>2, <2>1, <2>2, QuietSched, SyncPartsNext
<1>5. ASSUME NEW d \in Timeouts, NotifyWait(d)
      PROVE  SyncTypes' /\ Moves
  <2>1. /\ current \in Slots /\ StartCall(<<"notified", current>>, d) /\ SyncBlock(d)
        /\ UNCHANGED <<app, objVars, histVars>>
    BY <1>5 DEF NotifyWait, InTask
  <2>2. d \in 0 .. MaxDelay /\ <<"notified", current>> \in Calls
    BY <2>1, TaskAssumption DEF Calls
  <2>3. BlockingStep /\ LoopTypes' /\ CallTypes' /\ RunningIsReady'
    BY <1>1, <2>1, <2>2, Blocks
  <2>4. app' \in Apps /\ LineTypes' /\ GroupTypes' /\ RestTypes'
    BY <1>1, <1>2, <2>1 DEF objVars, RestTypes
  <2>5. TaskTable'
    BY <2>3 DEF BlockingStep
  <2> QED BY <2>3, <2>4, <2>5, SyncPartsNext DEF Moves
<1> QED BY <1>3, <1>4, <1>5 DEF NotifyStep

\* no call that waits gets a wake-up later than its time
Timely ==
  \A u \in Slots :
    \/ state'[u] # "BLOCKED" \/ call'[u] = Idle \/ due'[u] = Never \/ due'[u] = left'[u]
    \/ Steady(u) /\ state[u] = "BLOCKED" /\ call'[u] = call[u] /\ left'[u] = left[u]

\* the steps seen so far are like that
LEMMA MovesTimely == Moves => Timely
BY DEF Moves, EasyStep, BlockingStep, Timely, Eased, Steady

\* objects come and go
LEMMA ObjectStepTypes ==
  ASSUME SyncTypes, ObjectStep
  PROVE  SyncTypes' /\ Moves
<1>1. /\ app \in Apps /\ TaskTable /\ LoopTypes /\ LineTypes /\ GroupTypes /\ RestTypes
      /\ CallTypes /\ RunningIsReady
  BY SyncParts
<1>2. <<>> \in Lines /\ Distinct(<<>>) /\ <<>> \in WaiterLists
  BY LineIsSeq DEF Distinct
<1>3. ASSUME NEW o \in Objects, Exist(o), UNCHANGED <<schedVars, callVars, notify, holds, app>>,
             stray' \in [Mutexes -> 0 .. MaxStray], LineTypes', GroupTypes'
      PROVE  SyncTypes' /\ Moves
  <2>1. RestTypes'
    BY <1>1, <1>3 DEF Exist, RestTypes
  <2>2. TaskTable' /\ LoopTypes' /\ CallTypes' /\ RunningIsReady' /\ Moves
    BY <1>3, QuietSched
  <2> QED BY <1>1, <1>3, <2>1, <2>2, SyncPartsNext
<1>4. ASSUME NEW q \in Queues, QueueCreate(q)
      PROVE  SyncTypes' /\ Moves
  <2>1. /\ items' = [items EXCEPT ![q] = 0]
        /\ line' = [w \in WaitPoints |-> IF w[2] = q THEN <<>> ELSE line[w]]
        /\ UNCHANGED <<app, schedVars, callVars, count, groupVars, notify, holds, stray>>
        /\ Exist(q) /\ q \in Objects
    BY <1>4 DEF QueueCreate, Objects
  <2>2. LineTypes'
    <3>1. line' \in [WaitPoints -> Lines] /\ \A w \in WaitPoints : Distinct(line'[w])
      BY <1>1, <1>2, <2>1 DEF LineTypes, Singly
    <3>2. Capacity[q] \in Nat
      BY SizeAssumption
    <3> QED BY <1>1, <2>1, <3>1, <3>2 DEF LineTypes, Singly
  <2>3. GroupTypes'
    BY <1>1, <2>1 DEF GroupTypes, groupVars
  <2>4. stray' \in [Mutexes -> 0 .. MaxStray]
    BY <1>1, <2>1 DEF RestTypes
  <2> QED BY <1>3, <2>1, <2>2, <2>3, <2>4
<1>5. ASSUME NEW s \in Sems, SemCreate(s)
      PROVE  SyncTypes' /\ Moves
  <2> DEFINE p == <<"take", s>>
  <2>1. p \in WaitPoints
    BY DEF WaitPoints
  <2> HIDE DEF p
  <2>2. /\ count' = [count EXCEPT ![s] = IF s \in Mutexes THEN 1 ELSE 0]
        /\ line' = [line EXCEPT ![p] = <<>>]
        /\ stray' = IF s \in Mutexes THEN [stray EXCEPT ![s] = 0] ELSE stray
        /\ UNCHANGED <<app, schedVars, callVars, items, groupVars, notify, holds>>
        /\ Exist(s) /\ s \in Objects
    BY <1>5 DEF SemCreate, Objects, p
  <2>3. LineTypes'
    <3>1. line \in [WaitPoints -> Lines] /\ \A w \in WaitPoints : Distinct(line[w])
      BY <1>1 DEF LineTypes, Singly
    <3>2. line' \in [WaitPoints -> Lines] /\ \A w \in WaitPoints : Distinct(line'[w])
      BY <1>2, <2>1, <2>2, <3>1, LineChanges
    <3>3. MaxCount[s] \in Nat \ {0}
      BY SizeAssumption
    <3> QED BY <1>1, <2>2, <3>2, <3>3 DEF LineTypes, Singly
  <2>4. GroupTypes'
    BY <1>1, <2>2 DEF GroupTypes, groupVars
  <2>5. stray' \in [Mutexes -> 0 .. MaxStray]
    BY <1>1, <2>2, SizeAssumption DEF RestTypes
  <2> QED BY <1>3, <2>2, <2>3, <2>4, <2>5
<1>6. ASSUME NEW g \in Groups, GroupCreate(g)
      PROVE  SyncTypes' /\ Moves
  <2>1. /\ bits' = [bits EXCEPT ![g] = {}] /\ gwait' = [gwait EXCEPT ![g] = <<>>]
        /\ UNCHANGED <<app, schedVars, callVars, queueVars, notify, holds, stray>>
        /\ Exist(g) /\ g \in Objects
    BY <1>6 DEF GroupCreate, Objects
  <2>2. GroupTypes' /\ LineTypes'
    BY <1>1, <1>2, <2>1 DEF GroupTypes, LineTypes, Singly, queueVars
  <2>3. stray' \in [Mutexes -> 0 .. MaxStray]
    BY <1>1, <2>1 DEF RestTypes
  <2> QED BY <1>3, <2>1, <2>2, <2>3
<1>7. ASSUME NEW o \in Objects, Destroy(o)
      PROVE  SyncTypes' /\ Moves
  <2>1. /\ current \in Slots /\ used' = used \ {o} /\ stale' = stale \cup CallersOf(o)
        /\ ResumeAll(ListedOn(o)) /\ holds' = [t \in Slots |-> holds[t] \ {o}]
        /\ UNCHANGED <<app, otherVars, queueVars, groupVars, notify, call, left, stray, lost>>
    BY <1>7 DEF Destroy, InTask
  <2>2. TaskTable' /\ Eased
    BY <1>1, <2>1, WakeOps
  <2>3. LoopTypes' /\ current' = current /\ LineTypes' /\ GroupTypes'
    BY <1>1, <2>1 DEF otherVars, loopVars, LoopTypes, LineTypes, Singly, queueVars,
                      GroupTypes, groupVars
  <2>4. CallTypes' /\ RestTypes'
    BY <1>1, <2>1 DEF CallTypes, RestTypes, CallersOf
  <2>5. EasyStep /\ RunningIsReady'
    BY <1>1, <2>1, <2>2, <2>3, EasyRuns DEF EasyStep
  <2> QED BY <1>1, <2>1, <2>2, <2>3, <2>4, <2>5, SyncPartsNext DEF Moves
<1> QED BY <1>4, <1>5, <1>6, <1>7 DEF ObjectStep

\* a step that moves the scheduler only keeps the rest
LEMMA QuietObjects ==
  ASSUME SyncTypes, UNCHANGED <<app, objVars, stray>>,
         holds' \in [Slots -> SUBSET Mutexes], lost' \subseteq Objects \cup Slots
  PROVE  app' \in Apps /\ LineTypes' /\ GroupTypes' /\ RestTypes'
<1>1. app \in Apps /\ LineTypes /\ GroupTypes /\ RestTypes
  BY SyncParts
<1> QED BY <1>1 DEF LineTypes, Singly, GroupTypes, RestTypes, objVars, queueVars, groupVars

\* tasks come, go, and are held up
LEMMA TaskStepTypes ==
  ASSUME SyncTypes, TaskStep
  PROVE  SyncTypes' /\ Timely
<1>1. /\ app \in Apps /\ TaskTable /\ LoopTypes /\ LineTypes /\ GroupTypes /\ RestTypes
      /\ CallTypes /\ RunningIsReady
  BY SyncParts
<1>2. \A t \in Slots : Burden(t) \subseteq Objects \cup Slots
  BY <1>1 DEF Burden, CallTypes, Calls, WaitPoints, Objects
<1>3. holds \in [Slots -> SUBSET Mutexes] /\ lost \subseteq Objects \cup Slots
  BY <1>1 DEF RestTypes
<1>4. ASSUME NEW t \in Slots, TaskCreate(t)
      PROVE  SyncTypes' /\ Timely
  <2>1. /\ Register(t) /\ running' = TRUE
        /\ main' = IF main = NoReady THEN t ELSE main
        /\ UNCHANGED <<app, current, last, atZero, ticks, objVars, callVars, histVars>>
    BY <1>4 DEF TaskCreate
  <2>2. TaskTable' /\ Eased
    BY <1>1, <2>1, WakeOps
  <2>3. EasyStep /\ RunningIsReady'
    BY <1>1, <2>1, <2>2, EasyCalls, EasyRuns
  <2>4. LoopTypes' /\ CallTypes'
    BY <1>1, <2>1 DEF LoopTypes, CallTypes, callVars
  <2>5. app' \in Apps /\ LineTypes' /\ GroupTypes' /\ RestTypes'
    BY <1>3, <2>1, QuietObjects DEF histVars
  <2> QED BY <2>2, <2>3, <2>4, <2>5, SyncPartsNext, MovesTimely DEF Moves
<1>5. ASSUME NEW t \in Slots, TaskDelete(t)
      PROVE  SyncTypes' /\ Timely
  <2>1. /\ MarkZombie(t) /\ ~Free(t) /\ state[t] # "ZOMBIE"
        /\ IF t = current THEN SwitchOut /\ UNCHANGED <<last, running, main>>
           ELSE UNCHANGED <<current, loopVars>>
        /\ call' = [call EXCEPT ![t] = Idle] /\ left' = [left EXCEPT ![t] = Never]
        /\ stale' = stale \ {t} /\ holds' = [holds EXCEPT ![t] = {}]
        /\ lost' = (lost \cup Burden(t)) \ {t}
        /\ UNCHANGED <<app, atZero, objVars, stray>>
    BY <1>5 DEF TaskDelete
  <2>2. TaskTable' /\ \A u \in Slots : \/ state'[u] = "ZOMBIE" /\ u = t
                                       \/ u # t /\ Steady(u)
    BY <1>1, <2>1 DEF MarkZombie, TaskTable, TaskStates, Steady
  <2>3. LoopTypes' /\ (current' = NoReady \/ (current' = current /\ current # t))
    BY <1>1, <2>1 DEF SwitchOut, LoopTypes, loopVars
  <2>4. RunningIsReady'
    <3>1. NoReady \notin Slots
      BY DEF NoReady, Slots
    <3> QED BY <1>1, <2>2, <2>3, <3>1 DEF RunningIsReady, Steady
  <2>5. CallTypes' /\ Timely
    <3>1. CallTypes'
      BY <1>1, <2>1 DEF CallTypes, Calls
    <3>2. \A u \in Slots : u # t => call'[u] = call[u] /\ left'[u] = left[u]
      BY <1>1, <2>1 DEF CallTypes
    <3> QED BY <2>2, <3>1, <3>2 DEF Timely, Steady
  <2>6. app' \in Apps /\ LineTypes' /\ GroupTypes' /\ RestTypes'
    <3>1. holds' \in [Slots -> SUBSET Mutexes] /\ lost' \subseteq Objects \cup Slots
      BY <1>2, <1>3, <2>1
    <3> QED BY <2>1, <3>1, QuietObjects
  <2> QED BY <2>2, <2>3, <2>4, <2>5, <2>6, SyncPartsNext
<1>6. ASSUME NEW t \in Slots, Suspend(t)
      PROVE  SyncTypes' /\ Timely
  <2>1. /\ Block(t, 0)
        /\ IF t = current THEN SwitchOut /\ UNCHANGED <<last, running, main>>
           ELSE UNCHANGED <<current, loopVars>>
        /\ lost' = lost \cup Burden(t) \cup {t}
        /\ UNCHANGED <<app, atZero, objVars, callVars, holds, stray>>
    BY <1>6 DEF Suspend
  <2>2. TaskTable' /\ \A u \in Slots : \/ due'[u] = Never /\ u = t
                                       \/ u # t /\ Steady(u)
    BY <1>1, <2>1 DEF Block, TaskTable, TaskStates, WakeReasons, Steady
  <2>3. LoopTypes' /\ (current' = NoReady \/ (current' = current /\ current # t))
    BY <1>1, <2>1 DEF SwitchOut, LoopTypes, loopVars
  <2>4. RunningIsReady'
    <3>1. NoReady \notin Slots
      BY DEF NoReady, Slots
    <3> QED BY <1>1, <2>2, <2>3, <3>1 DEF RunningIsReady, Steady
  <2>5. CallTypes' /\ Timely
    BY <1>1, <2>1, <2>2 DEF CallTypes, callVars, Timely, Steady
  <2>6. app' \in Apps /\ LineTypes' /\ GroupTypes' /\ RestTypes'
    <3>1. holds' \in [Slots -> SUBSET Mutexes] /\ lost' \subseteq Objects \cup Slots
      BY <1>2, <1>3, <2>1
    <3> QED BY <2>1, <3>1, QuietObjects
  <2> QED BY <2>2, <2>3, <2>4, <2>5, <2>6, SyncPartsNext
<1>7. ASSUME NEW t \in Slots, ResumeTask(t)
      PROVE  SyncTypes' /\ Timely
  <2>1. Resume(t, Reason) /\ UNCHANGED <<app, otherVars, objVars, callVars, histVars>>
    BY <1>7 DEF ResumeTask
  <2>2. TaskTable' /\ Eased
    BY <1>1, <2>1, WakeOps
  <2>3. LoopTypes' /\ CallTypes' /\ RunningIsReady' /\ Moves
    BY <2>1, <2>2, WakingStep
  <2>4. app' \in Apps /\ LineTypes' /\ GroupTypes' /\ RestTypes'
    BY <1>3, <2>1, QuietObjects DEF histVars
  <2> QED BY <2>2, <2>3, <2>4, SyncPartsNext, MovesTimely
<1>8. ASSUME NEW d \in Delays, Delay(d)
      PROVE  SyncTypes' /\ Timely
  <2>1. /\ current \in Slots
        /\ IF d = 0 THEN UNCHANGED taskVars ELSE YieldTimed(current, d)
        /\ SwitchOut
        /\ UNCHANGED <<app, last, atZero, running, main, objVars, callVars, histVars>>
    BY <1>8 DEF Delay, InTask
  <2>2. d \in 0 .. MaxDelay
    BY TaskAssumption
  <2>3. TaskTable' /\ \A u \in Slots : state'[u] = "WAITING" \/ Steady(u)
    BY <1>1, <2>1, <2>2 DEF YieldTimed, TaskTable, taskVars, TaskStates, WakeReasons, Steady
  <2>4. LoopTypes' /\ current' = NoReady
    BY <1>1, <2>1 DEF SwitchOut, LoopTypes
  <2>5. RunningIsReady'
    BY <2>4 DEF RunningIsReady, NoReady, Slots
  <2>6. CallTypes' /\ Timely
    BY <1>1, <2>1, <2>3 DEF CallTypes, callVars, Timely, Steady
  <2>7. app' \in Apps /\ LineTypes' /\ GroupTypes' /\ RestTypes'
    BY <1>3, <2>1, QuietObjects DEF histVars
  <2> QED BY <2>3, <2>4, <2>5, <2>6, <2>7, SyncPartsNext
<1> QED BY <1>4, <1>5, <1>6, <1>7, <1>8 DEF TaskStep

\* the loop switches a task in, or stops
LEMMA DispatchTypes ==
  ASSUME SyncTypes, Dispatch
  PROVE  SyncTypes' /\ Timely
<1>1. /\ TaskTable /\ LoopTypes /\ RestTypes /\ CallTypes /\ RunningIsReady
  BY SyncParts
<1>2. UNCHANGED <<app, objVars, callVars, histVars>>
      /\ (LoopStops \/ (\E t \in Slots : SwitchIn(t)) \/ IdleStops)
  BY DEF Dispatch
<1>3. app' \in Apps /\ LineTypes' /\ GroupTypes' /\ RestTypes'
  BY <1>1, <1>2, QuietObjects DEF RestTypes, histVars
<1>4. CallTypes'
  BY <1>1, <1>2 DEF CallTypes, callVars
<1>5. ASSUME LoopStops \/ IdleStops
      PROVE  TaskTable' /\ LoopTypes' /\ RunningIsReady' /\ Timely
  <2>1. /\ state' = Collected /\ running' = FALSE /\ current = NoReady
        /\ UNCHANGED <<due, timeoutFired, wakeReason, current, last, atZero, main, ticks>>
    BY <1>5 DEF LoopStops, IdleStops, AtLoopTop
  <2>2. TaskTable' /\ LoopTypes'
    BY <1>1, <2>1 DEF TaskTable, LoopTypes, Collected, TaskStates
  <2>3. RunningIsReady'
    BY <2>1 DEF RunningIsReady, NoReady, Slots
  <2>4. Timely
    BY <1>1, <1>2, <2>1 DEF Timely, Steady, Collected, callVars, TaskTable
  <2> QED BY <2>2, <2>3, <2>4
<1>6. ASSUME NEW t \in Slots, SwitchIn(t)
      PROVE  TaskTable' /\ LoopTypes' /\ RunningIsReady' /\ Timely
  <2>1. /\ Picked(t) /\ Woken
        /\ wakeReason' = [u \in Slots |-> IF u = t THEN "NONE" ELSE ReasonNow(u)]
        /\ current' = t /\ last' = t
        /\ UNCHANGED <<atZero, running, main, ticks>>
    BY <1>6 DEF SwitchIn
  <2>2. TaskTable' /\ LoopTypes'
    BY <1>1, <2>1 DEF TaskTable, LoopTypes, Woken, Collected, TaskStates, WakeReasons, ReasonNow
  <2>3. RunningIsReady'
    <3>1. t \in ReadyNow
      BY <2>1 DEF Picked, IrqWoken
    <3> QED BY <2>1, <3>1 DEF RunningIsReady, ReadyNow, Woken, Collected
  <2>4. Timely
    BY <1>1, <1>2, <2>1 DEF Timely, Steady, Woken, Collected, callVars, TaskTable
  <2> QED BY <2>2, <2>3, <2>4
<1> QED BY <1>2, <1>3, <1>4, <1>5, <1>6, SyncPartsNext

\* the time to the first wake-up
LEMMA PassedOk ==
  ASSUME TaskTable, NEW t \in Armed, \A u \in Armed : due[t] <= due[u]
  PROVE  /\ due[t] = Passed /\ Passed \in 0 .. MaxDelay
         /\ \A u \in Armed : Passed <= due[u]
<1>1. \A u \in Armed : due[u] \in 0 .. MaxDelay
  BY DEF Armed, TaskTable
<1>2. \E d \in 0 .. MaxDelay : \E v \in Armed : due[v] = d /\ \A u \in Armed : d <= due[u]
  BY <1>1
<1>3. Passed \in 0 .. MaxDelay
      /\ \E v \in Armed : due[v] = Passed /\ \A u \in Armed : Passed <= due[u]
  BY <1>2 DEF Passed
<1> QED BY <1>1, <1>3

\* the clock moves
LEMMA TickTypes ==
  ASSUME SyncTypes, Tick
  PROVE  /\ SyncTypes' /\ Passed \in 0 .. MaxDelay /\ current = NoReady
         /\ state' = Collected
         /\ due' = [t \in Slots |-> IF due[t] = Never THEN Never
                                    ELSE IF due[t] > Passed THEN due[t] - Passed ELSE 0]
         /\ \A u \in Armed : Passed <= due[u]
<1>1. /\ TaskTable /\ LoopTypes /\ RestTypes /\ CallTypes /\ RunningIsReady
  BY SyncParts
<1>2. IdleAdvance /\ UNCHANGED <<app, objVars, call, stale, histVars>>
  BY DEF Tick
<1>3. app' \in Apps /\ LineTypes' /\ GroupTypes' /\ RestTypes'
  BY <1>1, <1>2, QuietObjects DEF RestTypes, histVars
<1>4. PICK t \in Armed : (\A u \in Armed : due[t] <= due[u]) /\ Elapse(due[t])
  BY <1>2 DEF IdleAdvance
<1>5. due[t] = Passed /\ Passed \in 0 .. MaxDelay /\ \A u \in Armed : Passed <= due[u]
  BY <1>1, <1>4, PassedOk
<1>6. /\ Elapse(Passed) /\ state' = Collected /\ current = NoReady
      /\ UNCHANGED <<timeoutFired, wakeReason, current, loopVars>>
  BY <1>2, <1>4, <1>5 DEF IdleAdvance, AtLoopTop
<1>7. due' = [u \in Slots |-> IF due[u] = Never THEN Never
                              ELSE IF due[u] > Passed THEN due[u] - Passed ELSE 0]
  BY <1>6 DEF Elapse
<1> HIDE DEF Passed
<1>8. TaskTable'
  <2>1. \A u \in Slots : due[u] \in {Never} \cup 0 .. MaxDelay
    BY <1>1 DEF TaskTable
  <2>2. due' \in [Slots -> {Never} \cup 0 .. MaxDelay]
    BY <1>5, <1>7, <2>1
  <2> QED BY <1>1, <1>6, <2>2 DEF TaskTable, Collected, TaskStates
<1>9. LoopTypes' /\ RunningIsReady'
  BY <1>1, <1>6 DEF LoopTypes, loopVars, Elapse, RunningIsReady, NoReady, Slots
<1>10. CallTypes'
  <2>1. left' = [u \in Slots |-> IF left[u] = Never THEN Never
                                 ELSE IF left[u] > Passed THEN left[u] - Passed ELSE 0]
    BY DEF Tick
  <2>2. \A u \in Slots : left[u] \in {Never} \cup 0 .. MaxDelay
    BY <1>1 DEF CallTypes
  <2>3. left' \in [Slots -> {Never} \cup 0 .. MaxDelay]
    BY <1>5, <2>1, <2>2
  <2> QED BY <1>1, <1>2, <2>3 DEF CallTypes
<1> QED BY <1>3, <1>5, <1>6, <1>7, <1>8, <1>9, <1>10, SyncPartsNext

\* all the calls of FreeRTOS
LEMMA SyncStepTypes ==
  ASSUME SyncTypes, SyncStep
  PROVE  SyncTypes' /\ Timely
BY LineStepTypes, GroupStepTypes, NotifyStepTypes, ObjectStepTypes, TaskStepTypes,
   DispatchTypes, MovesTimely DEF SyncStep

-----------------------------------------------------------------------------
(* The table of timers.                                                    *)

TimerRecords == [used : BOOLEAN, active : BOOLEAN, auto : BOOLEAN, work : BOOLEAN,
                 gen : 0 .. MaxGen, period : 0 .. MaxDelay, expiry : Int]

Sound(r) == r \in TimerRecords /\ r.expiry <= MaxDelay /\ (r.used => r.gen > 0)

Table(ts) == ts \in [Handles -> TimerRecords] /\ \A h \in Handles : Sound(ts[h])

\* the types of the table, said with these
LEMMA TableParts ==
  TableTypes <=> /\ Table(timers) /\ gen \in 0 .. MaxGen /\ want \in [Handles -> BOOLEAN]
                 /\ spoilt \subseteq Handles
BY DEF TableTypes, Table, Sound, TimerRecords, Generated

\* and after a step
LEMMA TablePartsNext ==
  TableTypes' <=> /\ Table(timers') /\ gen' \in 0 .. MaxGen /\ want' \in [Handles -> BOOLEAN]
                  /\ spoilt' \subseteq Handles
BY DEF TableTypes, Table, Sound, TimerRecords, Generated

\* one timer changes
LEMMA TableSet ==
  ASSUME NEW ts, Table(ts), NEW h \in Handles, NEW r, Sound(r)
  PROVE  Table([ts EXCEPT ![h] = r])
BY DEF Table, Sound

\* timers that are set up, changed and gone
LEMMA SoundTimers ==
  /\ Sound(FreeTimer)
  /\ \A g \in 1 .. MaxGen : \A auto \in BOOLEAN : \A p \in 0 .. MaxDelay :
       /\ Sound([FreeTimer EXCEPT !.used = TRUE, !.auto = auto, !.period = p, !.gen = g])
       /\ Sound([FreeTimer EXCEPT !.used = TRUE, !.work = TRUE, !.gen = g])
  /\ \A r : Sound(r) =>
       /\ \A g \in 1 .. MaxGen : Sound([r EXCEPT !.gen = g])
       /\ \A auto \in BOOLEAN : Sound([r EXCEPT !.auto = auto])
       /\ \A p, e \in 0 .. MaxDelay :
            Sound([r EXCEPT !.active = TRUE, !.period = p, !.expiry = e])
       /\ Sound([r EXCEPT !.active = FALSE, !.expiry = 0])
       /\ \A e \in Int : e <= MaxDelay => Sound([r EXCEPT !.expiry = e])
<1>0. MaxGen \in Nat
  BY TimersAssumption
<1>1. Sound(FreeTimer)
  BY <1>0 DEF Sound, FreeTimer, TimerRecords
<1>2. ASSUME NEW g \in 1 .. MaxGen, NEW auto \in BOOLEAN, NEW p \in 0 .. MaxDelay
      PROVE  /\ Sound([FreeTimer EXCEPT !.used = TRUE, !.auto = auto, !.period = p, !.gen = g])
             /\ Sound([FreeTimer EXCEPT !.used = TRUE, !.work = TRUE, !.gen = g])
  <2> DEFINE made == [FreeTimer EXCEPT !.used = TRUE, !.auto = auto, !.period = p, !.gen = g]
             item == [FreeTimer EXCEPT !.used = TRUE, !.work = TRUE, !.gen = g]
  <2>1. FreeTimer \in [used : BOOLEAN, active : BOOLEAN, auto : BOOLEAN, work : BOOLEAN,
                       gen : 0 .. MaxGen, period : 0 .. MaxDelay, expiry : Int]
        /\ FreeTimer.expiry = 0
    BY <1>1 DEF Sound, TimerRecords, FreeTimer
  <2>2. g \in 0 .. MaxGen /\ g > 0 /\ 0 <= MaxDelay
    BY <1>0
  <2>3. made \in TimerRecords /\ made.expiry = 0 /\ made.gen = g
    BY <2>1, <2>2 DEF TimerRecords
  <2>4. item \in TimerRecords /\ item.expiry = 0 /\ item.gen = g
    BY <2>1, <2>2 DEF TimerRecords
  <2> HIDE DEF made, item
  <2>5. Sound(made) /\ Sound(item)
    BY <2>2, <2>3, <2>4 DEF Sound
  <2> QED BY <2>5 DEF made, item
<1>3. ASSUME NEW r, Sound(r)
      PROVE  /\ \A g \in 1 .. MaxGen : Sound([r EXCEPT !.gen = g])
             /\ \A auto \in BOOLEAN : Sound([r EXCEPT !.auto = auto])
             /\ \A p, e \in 0 .. MaxDelay :
                  Sound([r EXCEPT !.active = TRUE, !.period = p, !.expiry = e])
             /\ Sound([r EXCEPT !.active = FALSE, !.expiry = 0])
             /\ \A e \in Int : e <= MaxDelay => Sound([r EXCEPT !.expiry = e])
  <2>0. /\ r \in [used : BOOLEAN, active : BOOLEAN, auto : BOOLEAN, work : BOOLEAN,
                   gen : 0 .. MaxGen, period : 0 .. MaxDelay, expiry : Int]
        /\ r.expiry <= MaxDelay /\ (r.used => r.gen > 0)
    BY <1>3 DEF Sound, TimerRecords
  <2>1. ASSUME NEW g \in 1 .. MaxGen
        PROVE  Sound([r EXCEPT !.gen = g])
    <3>1. g \in 0 .. MaxGen /\ g > 0
      BY <1>0
    <3> QED BY <2>0, <3>1 DEF Sound, TimerRecords
  <2>2. ASSUME NEW auto \in BOOLEAN
        PROVE  Sound([r EXCEPT !.auto = auto])
    BY <2>0 DEF Sound, TimerRecords
  <2>3. ASSUME NEW p \in 0 .. MaxDelay, NEW e \in 0 .. MaxDelay
        PROVE  Sound([r EXCEPT !.active = TRUE, !.period = p, !.expiry = e])
    <3>1. e \in Int /\ e <= MaxDelay
      OBVIOUS
    <3> QED BY <2>0, <3>1 DEF Sound, TimerRecords
  <2>4. Sound([r EXCEPT !.active = FALSE, !.expiry = 0])
    <3>1. 0 \in Int /\ 0 <= MaxDelay
      OBVIOUS
    <3> QED BY <2>0, <3>1 DEF Sound, TimerRecords
  <2>5. ASSUME NEW e \in Int, e <= MaxDelay
        PROVE  Sound([r EXCEPT !.expiry = e])
    BY <2>0, <2>5 DEF Sound, TimerRecords
  <2> QED BY <2>1, <2>2, <2>3, <2>4, <2>5
<1> QED BY <1>1, <1>2, <1>3

\* what the fields of a command are
LEMMA CommandFields ==
  \A m \in Commands : /\ m.op \in Ops /\ m.h \in Handles /\ m.arg \in 0 .. MaxDelay
                      /\ m.gen \in 1 .. MaxGen /\ m.prev \in 0 .. MaxGen
BY DEF Commands

\* prvExecuteCommand
LEMMA ExecutedOk ==
  ASSUME NEW ts, Table(ts), NEW m \in Commands
  PROVE  Table(Executed(ts, m))
<1>1. m.h \in Handles /\ m.arg \in 0 .. MaxDelay
  BY CommandFields
<1>2. Sound(ts[m.h]) /\ ts[m.h].period \in 0 .. MaxDelay
  BY <1>1 DEF Table, Sound, TimerRecords
<1>3. Sound(Obeying(ts[m.h], m))
  <2>1. CASE m.op \in {"start", "restart"}
    BY <1>2, <2>1, SoundTimers DEF Obeying
  <2>2. CASE m.op = "change"
    BY <1>1, <1>2, <2>2, SoundTimers DEF Obeying
  <2>3. CASE m.op = "work"
    BY <1>1, <1>2, <2>3, SoundTimers DEF Obeying
  <2>4. CASE m.op = "stop"
    BY <1>2, <2>4, SoundTimers DEF Obeying
  <2>5. CASE m.op \notin {"start", "restart", "change", "work", "stop"}
    BY <2>5, SoundTimers DEF Obeying
  <2> QED BY <2>1, <2>2, <2>3, <2>4, <2>5
<1> QED BY <1>1, <1>3, TableSet DEF Executed

\* what a call does to the table
LEMMA MarkedOk ==
  ASSUME Table(timers), NEW m \in Commands
  PROVE  Table(Marked(m))
<1>1. m.h \in Handles /\ m.gen \in 1 .. MaxGen /\ 0 \in 0 .. MaxDelay
  BY CommandFields
<1>2. Sound(timers[m.h])
  BY <1>1 DEF Table
<1>3. CASE m.op \in Bumping
  <2> DEFINE r == [timers[m.h] EXCEPT !.gen = m.gen]
  <2>1. Sound(r)
    BY <1>1, <1>2, SoundTimers
  <2>2. Marked(m) = [timers EXCEPT ![m.h] = r]
    BY <1>3 DEF Marked, Bumping
  <2> HIDE DEF r
  <2>3. Table([timers EXCEPT ![m.h] = r])
    BY <1>1, <2>1, TableSet
  <2> QED BY <2>2, <2>3
<1>4. CASE m.op = "work"
  <2> DEFINE r == [FreeTimer EXCEPT !.used = TRUE, !.work = TRUE, !.gen = m.gen]
  <2>1. Sound(r)
    BY <1>1, SoundTimers
  <2>2. Marked(m) = [timers EXCEPT ![m.h] = r]
    BY <1>4 DEF Marked, Bumping
  <2> HIDE DEF r
  <2>3. Table([timers EXCEPT ![m.h] = r])
    BY <1>1, <2>1, TableSet
  <2> QED BY <2>2, <2>3
<1>5. CASE m.op \notin Bumping /\ m.op # "work"
  BY <1>5 DEF Marked
<1> QED BY <1>3, <1>4, <1>5

\* and when it has succeeded
LEMMA SettledOk ==
  ASSUME NEW ts, Table(ts), NEW m \in Commands
  PROVE  Table(Settled(ts, m))
BY CommandFields, SoundTimers, TableSet DEF Settled

\* the command of a call
LEMMA CommandOk ==
  ASSUME TableTypes, NEW op \in Ops, NEW h \in Handles, NEW arg \in 0 .. MaxDelay,
         op \in Renewing => gen < MaxGen, op \notin Renewing => timers[h].used
  PROVE  /\ Command(op, h, arg) \in Commands
         /\ Command(op, h, arg).op = op /\ Command(op, h, arg).h = h
         /\ op # "work" /\ timers[h].used => Command(op, h, arg) \in Sent
<1>1. timers[h].gen \in 0 .. MaxGen /\ (timers[h].used => timers[h].gen > 0)
      /\ gen \in 0 .. MaxGen /\ MaxGen \in Nat
  BY TimersAssumption DEF TableTypes, Generated
<1>2. (IF op \in Renewing THEN gen + 1 ELSE timers[h].gen) \in 1 .. MaxGen
  BY <1>1
<1>3. Command(op, h, arg) \in Commands
  BY <1>1, <1>2 DEF Command, Commands
<1>4. Command(op, h, arg).op = op /\ Command(op, h, arg).h = h
      /\ Command(op, h, arg).prev = timers[h].gen
  BY DEF Command
<1> QED BY <1>1, <1>3, <1>4 DEF Sent

\* what the accepted calls want
LEMMA WantedType ==
  ASSUME TableTypes, NEW m \in Commands
  PROVE  Wanted(m) \in [Handles -> BOOLEAN]
<1>1. want \in [Handles -> BOOLEAN] /\ m.h \in Handles
  BY CommandFields DEF TableTypes
<1>2. (m.op \notin {"stop", "delete"}) \in BOOLEAN
  OBVIOUS
<1> QED BY <1>1, <1>2 DEF Wanted

\* the timers spoilt
LEMMA SpoiltType ==
  ASSUME TableTypes, SendTypes, NEW hs, hs \subseteq Handles, Spoilt(hs)
  PROVE  spoilt' \subseteq Handles
BY DEF Spoilt, TableTypes

\* commands in the queue are for timers
LEMMA QueuedType ==
  ASSUME SendTypes
  PROVE  Queued \subseteq Handles
<1>1. \A i \in DOMAIN cmds : cmds[i] \in Commands
  BY ElementOfSeq, LenProperties DEF SendTypes
<1> QED BY <1>1, CommandFields DEF Queued

-----------------------------------------------------------------------------
(* The steps of the timers keep the types.                                 *)

\* nothing of EspSync changes
LEMMA StillSync ==
  ASSUME SyncTypes, UNCHANGED vars
  PROVE  SyncTypes' /\ Timely /\ UNCHANGED call
<1>1. /\ app \in Apps /\ TaskTable /\ LoopTypes /\ LineTypes /\ GroupTypes /\ RestTypes
      /\ CallTypes
  BY SyncParts
<1>2. UNCHANGED schedVars /\ UNCHANGED callVars /\ UNCHANGED <<app, objVars, histVars>>
  BY DEF vars
<1>3. TaskTable' /\ LoopTypes' /\ CallTypes' /\ RunningIsReady' /\ Moves
  BY <1>2, QuietSched
<1>4. app' \in Apps /\ LineTypes' /\ GroupTypes' /\ RestTypes'
  BY <1>1, <1>2, QuietObjects DEF RestTypes, histVars
<1> QED BY <1>2, <1>3, <1>4, SyncPartsNext, MovesTimely DEF callVars

\* calls that are not on timers do not wait with a command
CallsStay == \A u \in Slots : call'[u] = call[u] \/ call'[u][1] # "timer"

\* the calls of EspSync are such
LEMMA SyncCalls ==
  ASSUME SyncTypes, SyncStep
  PROVE  CallsStay
<1>1. call \in [Slots -> Calls] /\ Idle[1] # "timer"
  BY SyncParts DEF CallTypes, Idle
<1>2. EndCall => CallsStay
  BY <1>1 DEF EndCall, CallsStay
<1>3. \A c, d : StartCall(c, d) /\ c[1] # "timer" => CallsStay
  BY <1>1 DEF StartCall, CallsStay
<1>4. UNCHANGED call => CallsStay
  BY DEF CallsStay
<1>5. \A c \in WaitCalls : c[1] # "timer"
  BY WaitCallKinds
<1>6. ASSUME LineStep
      PROVE  CallsStay
  <2>1. ASSUME NEW c \in WaitCalls, NEW d \in Timeouts, Wait(c, d)
        PROVE  CallsStay
    BY <1>3, <1>5, <2>1 DEF Wait
  <2> QED BY <1>2, <1>4, <1>6, <2>1
          DEF LineStep, Do, Succeed, GiveUp, Retry, Abort, Give, GiveRefused, QueueReset,
              callVars
<1>7. ASSUME GroupStep
      PROVE  CallsStay
  <2>1. ASSUME NEW g \in Groups, NEW n \in Needs, NEW d \in Timeouts, BitsWait(g, n, d)
        PROVE  CallsStay
    <3>1. StartCall(<<"bits", g, n>>, d)
      BY <2>1 DEF BitsWait
    <3> QED BY <1>3, <3>1
  <2> QED BY <1>2, <1>4, <1>7, <2>1
          DEF GroupStep, BitsDo, BitsReturn, SetBits, ClearBits, callVars
<1>8. ASSUME NotifyStep
      PROVE  CallsStay
  <2>1. ASSUME NEW d \in Timeouts, NotifyWait(d)
        PROVE  CallsStay
    <3>1. StartCall(<<"notified", current>>, d)
      BY <2>1 DEF NotifyWait
    <3> QED BY <1>3, <3>1
  <2> QED BY <1>2, <1>4, <1>8, <2>1
          DEF NotifyStep, NotifyGive, NotifyDo, NotifyReturn, callVars
<1>9. ASSUME ObjectStep
      PROVE  CallsStay
  BY <1>4, <1>9 DEF ObjectStep, QueueCreate, SemCreate, GroupCreate, Destroy, callVars
<1>10. ASSUME TaskStep
       PROVE  CallsStay
  <2>1. ASSUME NEW t \in Slots, TaskDelete(t)
        PROVE  CallsStay
    BY <1>1, <2>1 DEF TaskDelete, CallsStay
  <2> QED BY <1>4, <1>10, <2>1 DEF TaskStep, TaskCreate, Suspend, ResumeTask, Delay, callVars
<1>11. ASSUME Dispatch
       PROVE  CallsStay
  BY <1>4, <1>11 DEF Dispatch, callVars
<1> QED BY <1>6, <1>7, <1>8, <1>9, <1>10, <1>11 DEF SyncStep

\* senders keep their commands
LEMMA SendersKeep ==
  ASSUME SyncTypes, SendersHaveCommands, CallsStay, daemon' = daemon, msg' = msg
  PROVE  SendersHaveCommands'
BY DEF SendersHaveCommands, CallsStay

\* a step of EspSync
LEMMA SyncStepOk ==
  ASSUME Types, SyncStep
  PROVE  Types' /\ Timely
<1>1. SyncTypes /\ TimerTypes
  BY DEF Types
<1>2. SyncTypes' /\ Timely /\ CallsStay
  BY <1>1, SyncStepTypes, SyncCalls
<1>3. /\ UNCHANGED <<timers, gen, want, cmds, txWaiter, daemon, asleep, phase, behind, msg>>
      /\ spoilt' \subseteq Handles /\ astray' \subseteq Slots
  BY <1>1 DEF SyncStep, sendVars, daemonVars, Abandoned, TimerTypes, TableTypes, SendTypes
<1>4. TableTypes' /\ SendTypes' /\ DaemonTypes'
  BY <1>1, <1>3 DEF TimerTypes, TableTypes, Generated, SendTypes, DaemonTypes, NotBehind
<1>5. SendersHaveCommands'
  BY <1>1, <1>2, <1>3, SendersKeep DEF TimerTypes
<1> QED BY <1>2, <1>4, <1>5 DEF Types, TimerTypes

\* what stays of EspSync in the steps of timers
LEMMA RestStays ==
  ASSUME SyncTypes, UNCHANGED <<app, objVars, holds, stray>>,
         lost' \subseteq lost \cup Slots
  PROVE  app' \in Apps /\ LineTypes' /\ GroupTypes' /\ RestTypes'
<1>1. RestTypes
  BY SyncParts
<1>2. holds' \in [Slots -> SUBSET Mutexes] /\ lost' \subseteq Objects \cup Slots
  BY <1>1 DEF RestTypes
<1> QED BY <1>2, QuietObjects

\* the queue of commands
LEMMA QueueOps ==
  ASSUME SendTypes, NEW m \in Commands
  PROVE  /\ Len(cmds) \in Nat
         /\ <<m>> \in Seq(Commands) /\ Len(<<m>>) <= QueueLength
         /\ <<>> \in Seq(Commands) /\ Len(<<>>) <= QueueLength
         /\ Len(cmds) < QueueLength => /\ Append(cmds, m) \in Seq(Commands)
                                       /\ Len(Append(cmds, m)) <= QueueLength
<1>1. cmds \in Seq(Commands) /\ QueueLength \in Nat \ {0} /\ Len(cmds) \in Nat
  BY TimersAssumption, LenProperties DEF SendTypes
<1>2. Append(cmds, m) \in Seq(Commands) /\ Len(Append(cmds, m)) = Len(cmds) + 1
  BY <1>1
<1>3. <<m>> \in Seq(Commands) /\ Len(<<m>>) = 1 /\ <<>> \in Seq(Commands) /\ Len(<<>>) = 0
  OBVIOUS
<1> QED BY <1>1, <1>2, <1>3

\* the daemon is started
LEMMA StartTypes ==
  ASSUME Types, daemon = NoReady, StartDaemon,
         UNCHANGED <<app, objVars, holds, stray, otherVars, lost>>,
         msg' = msg
  PROVE  SyncTypes' /\ DaemonTypes' /\ SendersHaveCommands' /\ Timely
<1>1. /\ SyncTypes /\ TaskTable /\ LoopTypes /\ CallTypes /\ RunningIsReady
      /\ SendersHaveCommands /\ DaemonTypes
  BY SyncParts DEF Types, TimerTypes
<1>2. asleep' = FALSE /\ phase' = <<"top", 0>> /\ behind' = 0 /\ UNCHANGED <<left, stale>>
  BY DEF StartDaemon
<1>3. LoopTypes' /\ current' = current
  BY <1>1 DEF otherVars, loopVars, LoopTypes
<1>4. app' \in Apps /\ LineTypes' /\ GroupTypes' /\ RestTypes'
  BY <1>1, RestStays
<1>5. NoReady \notin Slots /\ <<"top", 0>> \in {"top", "drain", "scan"} \X (0 .. NTimers)
  BY TimersAssumption DEF NoReady, Slots
<1>6. ASSUME NEW t \in Slots, Register(t), daemon' = t,
             call' = [call EXCEPT ![t] = <<"timer", t>>]
      PROVE  SyncTypes' /\ DaemonTypes' /\ SendersHaveCommands' /\ Timely
  <2>1. TaskTable' /\ Eased /\ state'[t] = "READY"
    BY <1>1, <1>6, WakeOps DEF Register, TaskTable
  <2>2. RunningIsReady'
    BY <1>1, <1>3, <2>1, EasyRuns
  <2>3. <<"timer", t>> \in Calls
    BY DEF Calls
  <2>4. CallTypes' /\ \A u \in Slots \ {t} : call'[u] = call[u]
    BY <1>1, <1>2, <1>6, <2>3 DEF CallTypes
  <2>5. Timely
    BY <1>2, <2>1, <2>4 DEF Timely, Eased, Steady
  <2>6. SendersHaveCommands'
    BY <1>1, <1>5, <1>6, <2>4 DEF SendersHaveCommands
  <2>7. DaemonTypes'
    <3>1. behind' \in Nat /\ NotBehind' /\ asleep' \in BOOLEAN
      BY <1>2 DEF NotBehind
    <3> QED BY <1>2, <1>5, <1>6, <3>1 DEF DaemonTypes
  <2> QED BY <1>3, <1>4, <2>1, <2>2, <2>4, <2>5, <2>6, <2>7, SyncPartsNext
<1>7. ASSUME UNCHANGED <<taskVars, daemon, call>>
      PROVE  SyncTypes' /\ DaemonTypes' /\ SendersHaveCommands' /\ Timely
  <2>1. TaskTable' /\ Eased /\ RunningIsReady'
    BY <1>1, <1>3, <1>7, WakeOps, EasyRuns
  <2>2. CallTypes'
    BY <1>1, <1>2, <1>7 DEF CallTypes
  <2>3. Timely
    BY <1>2, <1>7, <2>1 DEF Timely, Eased, Steady
  <2>4. SendersHaveCommands' /\ DaemonTypes'
    <3>1. behind' \in Nat /\ NotBehind' /\ asleep' \in BOOLEAN
      BY <1>2 DEF NotBehind
    <3>2. SendersHaveCommands'
      BY <1>1, <1>7 DEF SendersHaveCommands
    <3> QED BY <1>1, <1>2, <1>5, <1>7, <3>1, <3>2 DEF DaemonTypes
  <2> QED BY <1>3, <1>4, <2>1, <2>2, <2>3, <2>4, SyncPartsNext
<1> QED BY <1>6, <1>7 DEF StartDaemon

\* a command goes into the queue
LEMMA EnqueueTypes ==
  ASSUME SyncTypes, DaemonTypes, daemon # NoReady, NEW m, Enqueue(m)
  PROVE  TaskTable' /\ Eased /\ cmds' = Append(cmds, m)
<1>1. TaskTable /\ RunningIsReady /\ daemon \in Slots
  BY SyncParts DEF DaemonTypes
<1>2. cmds' = Append(cmds, m) /\ (Resume(daemon, Reason) \/ UNCHANGED taskVars)
  BY DEF Enqueue
<1> QED BY <1>1, <1>2, WakeOps

\* what the calls of timers keep, next to the generation counter
CallsKeep ==
  /\ SyncTypes' /\ SendTypes' /\ DaemonTypes' /\ SendersHaveCommands' /\ Timely
  /\ Table(timers') /\ want' \in [Handles -> BOOLEAN] /\ spoilt' \subseteq Handles

\* a call from a callback
LEMMA CallbackTypes ==
  ASSUME Types, NEW m \in Commands, CallFromCallback(m)
  PROVE  CallsKeep
<1>1. SyncTypes /\ TableTypes /\ SendTypes /\ DaemonTypes /\ SendersHaveCommands
      /\ Table(timers)
  BY TableParts DEF Types, TimerTypes
<1>2. /\ timers' = Settled(Executed(Marked(m), m), m)
      /\ want' = want \/ want' = Wanted(m)
      /\ Spoilt({}) /\ astray' = astray \cup Stranded(m)
      /\ UNCHANGED <<vars, sendVars, daemonVars, msg>>
  BY DEF CallFromCallback
<1>3. Table(timers')
  <2>1. Table(Executed(Marked(m), m))
    BY <1>1, MarkedOk, ExecutedOk
  <2> QED BY <1>2, <2>1, SettledOk
<1>4. want' \in [Handles -> BOOLEAN] /\ spoilt' \subseteq Handles
  BY <1>1, <1>2, WantedType, SpoiltType DEF TableTypes
<1>5. SendTypes' /\ DaemonTypes'
  BY <1>1, <1>2 DEF SendTypes, DaemonTypes, NotBehind, sendVars, daemonVars, Stranded, Waiting
<1>6. SyncTypes' /\ Timely /\ UNCHANGED call
  BY <1>1, <1>2, StillSync
<1>7. SendersHaveCommands'
  BY <1>1, <1>2, <1>6 DEF SendersHaveCommands, daemonVars
<1> QED BY <1>3, <1>4, <1>5, <1>6, <1>7 DEF CallsKeep

\* a call that is accepted
LEMMA AcceptedTypes ==
  ASSUME Types, NEW m \in Commands, CallAccepted(m)
  PROVE  CallsKeep
<1>1. SyncTypes /\ TableTypes /\ SendTypes /\ DaemonTypes /\ SendersHaveCommands
      /\ Table(timers) /\ TaskTable /\ LoopTypes /\ CallTypes /\ RunningIsReady
  BY TableParts, SyncParts DEF Types, TimerTypes
<1>2. /\ IF daemon = NoReady
         THEN StartDaemon /\ cmds' = <<m>>
         ELSE /\ Len(cmds) < QueueLength
              /\ Enqueue(m)
              /\ UNCHANGED <<daemonVars, callVars>>
      /\ timers' = Settled(Marked(m), m)
      /\ want' = Wanted(m)
      /\ Spoilt(IF daemon = NoReady THEN Queued ELSE {})
      /\ astray' = astray \cup Stranded(m)
      /\ UNCHANGED <<syncVars, otherVars, txWaiter, msg>>
  BY DEF CallAccepted
<1>3. Table(timers') /\ want' \in [Handles -> BOOLEAN]
  BY <1>1, <1>2, MarkedOk, SettledOk, WantedType
<1>4. spoilt' \subseteq Handles
  <2>1. (IF daemon = NoReady THEN Queued ELSE {}) \subseteq Handles
    BY <1>1, QueuedType
  <2> QED BY <1>1, <1>2, <2>1, SpoiltType
<1>5. UNCHANGED <<app, objVars, holds, stray, lost>> /\ msg' = msg /\ UNCHANGED otherVars
  BY <1>2 DEF syncVars, histVars
<1>6. SendTypes'
  <2>1. cmds' \in Seq(Commands) /\ Len(cmds') <= QueueLength
    BY <1>1, <1>2, QueueOps DEF Enqueue
  <2>2. astray' \subseteq Slots
    BY <1>1, <1>2 DEF SendTypes, Stranded, Waiting
  <2> QED BY <1>1, <1>2, <2>1, <2>2 DEF SendTypes
<1>7. SyncTypes' /\ DaemonTypes' /\ SendersHaveCommands' /\ Timely
  <2>1. CASE daemon = NoReady
    BY <1>2, <1>5, <2>1, StartTypes
  <2>2. CASE daemon # NoReady
    <3>1. Enqueue(m) /\ UNCHANGED <<daemonVars, callVars>>
      BY <1>2, <2>2
    <3>2. TaskTable' /\ Eased
      BY <1>1, <2>2, <3>1, EnqueueTypes
    <3>3. LoopTypes' /\ CallTypes' /\ RunningIsReady' /\ Timely
      BY <1>1, <1>5, <3>1, <3>2, WakingStep, MovesTimely
    <3>4. app' \in Apps /\ LineTypes' /\ GroupTypes' /\ RestTypes'
      BY <1>1, <1>5, RestStays
    <3>5. DaemonTypes' /\ SendersHaveCommands'
      BY <1>1, <1>5, <3>1 DEF DaemonTypes, NotBehind, SendersHaveCommands, daemonVars, callVars
    <3> QED BY <3>2, <3>3, <3>4, <3>5, SyncPartsNext
  <2> QED BY <2>1, <2>2
<1> QED BY <1>3, <1>4, <1>6, <1>7 DEF CallsKeep

\* a task waits for room, in a call that begins or goes on
LEMMA RoomTypes ==
  ASSUME SyncTypes, current \in Slots, NEW timeout \in 0 .. MaxDelay, WaitForRoom(timeout),
         \/ StartCall(<<"timer", current>>, timeout)
         \/ UNCHANGED callVars /\ left[current] = IF timeout = 0 THEN Never ELSE timeout,
         UNCHANGED <<app, objVars, holds, stray>>
  PROVE  SyncTypes' /\ Timely /\ txWaiter' = current
         /\ \A u \in Slots \ {current} : call'[u] = call[u]
<1>1. TaskTable /\ LoopTypes /\ CallTypes /\ RunningIsReady /\ RestTypes
  BY SyncParts
<1>2. <<"timer", current>> \in Calls
  BY DEF Calls
<1>3. BlockingStep /\ LoopTypes' /\ CallTypes' /\ RunningIsReady'
  BY <1>1, <1>2, Blocks DEF WaitForRoom
<1>4. lost' \subseteq lost \cup Slots
  BY DEF WaitForRoom
<1>5. app' \in Apps /\ LineTypes' /\ GroupTypes' /\ RestTypes'
  BY <1>4, RestStays
<1>6. txWaiter' = current
  BY DEF WaitForRoom
<1> QED BY <1>3, <1>5, <1>6, SyncPartsNext, MovesTimely DEF Moves, BlockingStep

\* a call that waits for room
LEMMA CallWaitsTypes ==
  ASSUME Types, NEW m \in Commands, m.op # "work" => m \in Sent,
         NEW timeout \in Timeouts, CallWaits(m, timeout)
  PROVE  CallsKeep
<1>1. SyncTypes /\ TableTypes /\ SendTypes /\ DaemonTypes /\ SendersHaveCommands
      /\ Table(timers) /\ TaskTable /\ LoopTypes /\ CallTypes /\ RunningIsReady
  BY TableParts, SyncParts DEF Types, TimerTypes
<1>2. /\ current \in Slots /\ m.op # "work" /\ timers' = Marked(m)
      /\ msg' = [msg EXCEPT ![current] = m]
      /\ StartCall(<<"timer", current>>, timeout)
      /\ WaitForRoom(timeout)
      /\ UNCHANGED <<app, objVars, holds, stray, want, spoilt, cmds, daemonVars, astray>>
  BY DEF CallWaits, InTask
<1>3. timeout \in 0 .. MaxDelay
  BY TaskAssumption
<1>4. SyncTypes' /\ Timely /\ txWaiter' = current
      /\ \A u \in Slots \ {current} : call'[u] = call[u]
  BY <1>1, <1>2, <1>3, RoomTypes
<1>5. Table(timers') /\ want' \in [Handles -> BOOLEAN] /\ spoilt' \subseteq Handles
  BY <1>1, <1>2, MarkedOk DEF TableTypes
<1>6. SendTypes' /\ DaemonTypes'
  BY <1>1, <1>2, <1>4 DEF SendTypes, DaemonTypes, NotBehind, daemonVars
<1>7. SendersHaveCommands'
  BY <1>1, <1>2, <1>4 DEF SendersHaveCommands, SendTypes, daemonVars
<1> QED BY <1>4, <1>5, <1>6, <1>7 DEF CallsKeep

\* any call
LEMMA CallKeeps ==
  ASSUME Types, NEW m \in Commands, m.op # "work" => m \in Sent, Call(m)
  PROVE  CallsKeep
BY CallbackTypes, AcceptedTypes, CallWaitsTypes DEF Call

\* with the counter
LEMMA CallsKeepTypes ==
  ASSUME CallsKeep, gen' \in 0 .. MaxGen
  PROVE  Types' /\ Timely
<1>1. TableTypes'
  BY TablePartsNext DEF CallsKeep
<1> QED BY <1>1 DEF CallsKeep, Types, TimerTypes

\* xTimerStart, ..., and work items
LEMMA TimerCallTypes ==
  ASSUME Types, NEW h \in Handles, NEW arg \in 0 .. MaxDelay,
         \/ \E op \in Ops \ {"work"} : TimerCall(op, h, arg)
         \/ PostWork(h, arg)
  PROVE  Types' /\ Timely
<1>1. TableTypes /\ gen \in 0 .. MaxGen /\ MaxGen \in Nat
  BY TimersAssumption DEF Types, TimerTypes, TableTypes
<1>2. ASSUME NEW op \in Ops \ {"work"}, TimerCall(op, h, arg)
      PROVE  Types' /\ Timely
  <2>1. /\ timers[h].used /\ (op \in Bumping => gen < MaxGen)
        /\ gen' = (IF op \in Bumping THEN gen + 1 ELSE gen)
        /\ Call(Command(op, h, arg))
    BY <1>2 DEF TimerCall
  <2>2. op \in Renewing => op \in Bumping
    BY DEF Renewing
  <2>3. Command(op, h, arg) \in Commands /\ Command(op, h, arg) \in Sent
    BY <1>1, <2>1, <2>2, CommandOk
  <2>4. gen' \in 0 .. MaxGen
    BY <1>1, <2>1
  <2> QED BY <2>1, <2>3, <2>4, CallKeeps, CallsKeepTypes
<1>3. ASSUME PostWork(h, arg)
      PROVE  Types' /\ Timely
  <2>1. gen < MaxGen /\ gen' = gen + 1 /\ Call(Command("work", h, arg))
    BY <1>3 DEF PostWork
  <2>2. "work" \in Ops /\ "work" \in Renewing
    BY DEF Ops, Renewing
  <2>3. Command("work", h, arg) \in Commands /\ Command("work", h, arg).op = "work"
    BY <1>1, <2>1, <2>2, CommandOk
  <2>4. gen' \in 0 .. MaxGen
    BY <1>1, <2>1
  <2> QED BY <2>1, <2>3, <2>4, CallKeeps, CallsKeepTypes
<1> QED BY <1>2, <1>3

\* timers are made, cancelled and set up
LEMMA TableCallTypes ==
  ASSUME Types, NEW h \in Handles,
         \/ \E p \in Periods : \E auto \in BOOLEAN : TimerCreate(h, p, auto)
         \/ CancelWork(h)
         \/ \E auto \in BOOLEAN : SetReload(h, auto)
  PROVE  Types' /\ Timely
<1>1. SyncTypes /\ TableTypes /\ SendTypes /\ DaemonTypes /\ SendersHaveCommands
      /\ Table(timers) /\ TaskTable /\ LoopTypes /\ CallTypes /\ RunningIsReady
  BY TableParts, SyncParts DEF Types, TimerTypes
<1>2. gen \in 0 .. MaxGen /\ MaxGen \in Nat /\ spoilt \subseteq Handles
      /\ want \in [Handles -> BOOLEAN]
  BY <1>1, TimersAssumption DEF TableTypes
<1>3. ASSUME NEW p \in Periods, NEW auto \in BOOLEAN, TimerCreate(h, p, auto)
      PROVE  Types' /\ Timely
  <2> DEFINE r == [FreeTimer EXCEPT !.used = TRUE, !.auto = auto, !.period = p,
                                    !.gen = gen + 1]
  <2>1. /\ gen < MaxGen /\ gen' = gen + 1 /\ timers' = [timers EXCEPT ![h] = r]
        /\ want' = [want EXCEPT ![h] = FALSE]
        /\ IF daemon = NoReady
           THEN StartDaemon /\ cmds' = <<>> /\ Spoilt(Queued)
           ELSE UNCHANGED <<taskVars, daemonVars, callVars, cmds, spoilt>>
        /\ UNCHANGED <<syncVars, otherVars, txWaiter, msg, astray>>
    BY <1>3 DEF TimerCreate
  <2>2. gen + 1 \in 1 .. MaxGen /\ p \in 0 .. MaxDelay
    BY <1>2, <2>1, TimersAssumption
  <2>3. Sound(r)
    BY <2>2, SoundTimers
  <2> HIDE DEF r
  <2>4. Table([timers EXCEPT ![h] = r])
    BY <1>1, <2>3, TableSet
  <2>5. Table(timers') /\ gen' \in 0 .. MaxGen /\ want' \in [Handles -> BOOLEAN]
    BY <1>2, <2>1, <2>2, <2>4
  <2>6. spoilt' \subseteq Handles
    BY <1>1, <1>2, <2>1, QueuedType, SpoiltType
  <2>7. SendTypes'
    <3>1. cmds' \in Seq(Commands) /\ Len(cmds') <= QueueLength
      <4>1. QueueLength \in Nat /\ <<>> \in Seq(Commands) /\ Len(<<>>) = 0
        BY TimersAssumption
      <4>2. cmds' = <<>> \/ cmds' = cmds
        BY <2>1
      <4>3. 0 <= QueueLength
        BY <4>1
      <4>4. cmds \in Seq(Commands) /\ Len(cmds) <= QueueLength
        BY <1>1 DEF SendTypes
      <4> QED BY <4>1, <4>2, <4>3, <4>4
    <3> QED BY <1>1, <2>1, <3>1 DEF SendTypes
  <2>8. UNCHANGED <<app, objVars, holds, stray, lost>> /\ msg' = msg /\ UNCHANGED otherVars
    BY <2>1 DEF syncVars, histVars
  <2>9. SyncTypes' /\ DaemonTypes' /\ SendersHaveCommands' /\ Timely
    <3>1. CASE daemon = NoReady
      BY <2>1, <2>8, <3>1, StartTypes
    <3>2. CASE daemon # NoReady
      <4>1. UNCHANGED <<taskVars, daemonVars, callVars>>
        BY <2>1, <3>2
      <4>2. TaskTable' /\ Eased
        BY <1>1, <4>1, WakeOps
      <4>3. LoopTypes' /\ CallTypes' /\ RunningIsReady' /\ Timely
        BY <1>1, <2>8, <4>1, <4>2, WakingStep, MovesTimely
      <4>4. app' \in Apps /\ LineTypes' /\ GroupTypes' /\ RestTypes'
        BY <1>1, <2>8, RestStays
      <4>5. DaemonTypes' /\ SendersHaveCommands'
        BY <1>1, <2>8, <4>1 DEF DaemonTypes, NotBehind, SendersHaveCommands, daemonVars,
                                callVars
      <4> QED BY <4>2, <4>3, <4>4, <4>5, SyncPartsNext
    <3> QED BY <3>1, <3>2
  <2> QED BY <2>5, <2>6, <2>7, <2>9, CallsKeepTypes DEF CallsKeep
<1>4. ASSUME \/ CancelWork(h)
             \/ \E auto \in BOOLEAN : SetReload(h, auto)
      PROVE  Types' /\ Timely
  <2>1. UNCHANGED <<vars, gen, want, sendVars, daemonVars, msg, astray>>
    BY <1>4 DEF CancelWork, SetReload
  <2>2. SyncTypes' /\ Timely /\ UNCHANGED call
    BY <1>1, <2>1, StillSync
  <2>3. SendTypes' /\ DaemonTypes' /\ SendersHaveCommands'
    BY <1>1, <2>1, <2>2 DEF SendTypes, DaemonTypes, NotBehind, SendersHaveCommands, sendVars,
                            daemonVars
  <2>4. gen' \in 0 .. MaxGen /\ want' \in [Handles -> BOOLEAN]
    BY <1>2, <2>1
  <2>5. Table(timers') /\ spoilt' \subseteq Handles
    <3>1. CASE CancelWork(h)
      <4>1. timers' = [timers EXCEPT ![h] = FreeTimer] /\ Spoilt({})
        BY <3>1 DEF CancelWork
      <4>2. spoilt' \subseteq Handles
        BY <1>1, <4>1, SpoiltType
      <4>3. Table([timers EXCEPT ![h] = FreeTimer])
        BY <1>1, SoundTimers, TableSet
      <4> QED BY <4>1, <4>2, <4>3
    <3>2. ASSUME NEW auto \in BOOLEAN, SetReload(h, auto)
          PROVE  Table(timers') /\ spoilt' \subseteq Handles
      <4> DEFINE r == [timers[h] EXCEPT !.auto = auto]
      <4>1. timers' = [timers EXCEPT ![h] = r] /\ spoilt' = spoilt
        BY <3>2 DEF SetReload
      <4>2. Sound(r)
        BY <1>1, SoundTimers DEF Table
      <4> HIDE DEF r
      <4>3. Table([timers EXCEPT ![h] = r])
        BY <1>1, <4>2, TableSet
      <4> QED BY <1>2, <4>1, <4>3
    <3> QED BY <1>4, <3>1, <3>2
  <2> QED BY <2>2, <2>3, <2>4, <2>5, CallsKeepTypes DEF CallsKeep
<1> QED BY <1>3, <1>4

\* a send that waited for room is over
LEMMA EndSendTypes ==
  ASSUME Types, EndSend, TaskTable', Eased, BackInSend,
         cmds' \in Seq(Commands), Len(cmds') <= QueueLength, astray' \subseteq Slots,
         Table(timers'), want' \in [Handles -> BOOLEAN], spoilt' \subseteq Handles
  PROVE  Types' /\ Timely
<1>1. SyncTypes /\ TableTypes /\ SendTypes /\ DaemonTypes /\ SendersHaveCommands
      /\ TaskTable /\ LoopTypes /\ CallTypes /\ RunningIsReady
  BY SyncParts DEF Types, TimerTypes
<1>2. /\ current \in Slots /\ EndCall /\ txWaiter' \in {txWaiter, NoReady}
      /\ msg' = [msg EXCEPT ![current] = NoCmd]
      /\ lost' = lost \ {current}
      /\ UNCHANGED <<app, objVars, holds, stray, otherVars, gen, daemonVars>>
  BY DEF EndSend, BackInSend
<1>3. LoopTypes' /\ current' = current
  BY <1>1, <1>2 DEF otherVars, loopVars, LoopTypes
<1>4. EasyStep /\ RunningIsReady' /\ CallTypes'
  BY <1>1, <1>2, <1>3, EasyCalls, EasyRuns, EndCallType
<1>5. app' \in Apps /\ LineTypes' /\ GroupTypes' /\ RestTypes'
  BY <1>1, <1>2, RestStays
<1>6. SyncTypes' /\ Timely
  BY <1>3, <1>4, <1>5, SyncPartsNext, MovesTimely DEF Moves
<1>7. SendTypes' /\ DaemonTypes'
  BY <1>1, <1>2 DEF SendTypes, DaemonTypes, NotBehind, daemonVars
<1>8. SendersHaveCommands'
  <2>1. call'[current][1] # "timer" /\ \A u \in Slots \ {current} : call'[u] = call[u]
    BY <1>1, <1>2 DEF EndCall, CallTypes, Idle
  <2>2. \A u \in Slots \ {current} : msg'[u] = msg[u]
    BY <1>1, <1>2 DEF SendTypes
  <2> QED BY <1>1, <1>2, <2>1, <2>2 DEF SendersHaveCommands, daemonVars
<1>9. gen' \in 0 .. MaxGen
  BY <1>1, <1>2 DEF TableTypes
<1> QED BY <1>6, <1>7, <1>8, <1>9, CallsKeepTypes DEF CallsKeep

\* the task that waited for room
LEMMA SendTypesKept ==
  ASSUME Types, SendAccepted \/ SendFails \/ SendWaitsAgain
  PROVE  Types' /\ Timely
<1>1. SyncTypes /\ TableTypes /\ SendTypes /\ DaemonTypes /\ SendersHaveCommands
      /\ Table(timers) /\ TaskTable /\ LoopTypes /\ CallTypes /\ RunningIsReady
  BY TableParts, SyncParts DEF Types, TimerTypes
<1>2. /\ current \in Slots /\ BackInSend /\ msg[current] \in Sent
      /\ msg[current] \in Commands /\ msg[current].h \in Handles
  BY <1>1, CommandFields
     DEF SendAccepted, SendFails, SendWaitsAgain, BackInSend, SendersHaveCommands, Sent
<1> DEFINE m == msg[current]
<1>3. CASE SendAccepted
  <2>1. /\ ~Full /\ EndSend /\ Enqueue(m) /\ timers' = Settled(timers, m)
        /\ want' = want \/ want' = Wanted(m)
        /\ (\E hs \in {{}, {m.h}} : Spoilt(hs))
        /\ astray' = (astray \cup Stranded(m)) \ {current}
    BY <1>3 DEF SendAccepted
  <2> HIDE DEF m
  <2>2. daemon # NoReady => TaskTable' /\ Eased
    BY <1>1, <2>1, EnqueueTypes
  <2>3. TaskTable' /\ Eased
    <3>1. CASE daemon = NoReady
      <4>1. Resume(daemon, Reason) \/ UNCHANGED taskVars
        BY <2>1 DEF Enqueue
      <4>2. Resume(daemon, Reason) => TaskTable' /\ Eased
        BY <1>1, <3>1 DEF Resume, TaskTable, Eased, Steady, TaskStates, WakeReasons, Reason,
                          taskVars, NoReady, Slots
      <4> QED BY <1>1, <4>1, <4>2, WakeOps
    <3> QED BY <2>2, <3>1
  <2>4. cmds' \in Seq(Commands) /\ Len(cmds') <= QueueLength
    <3>1. Len(cmds) < QueueLength
      <4>1. Len(cmds) \in Nat /\ QueueLength \in Nat
        BY <1>1, LenProperties, TimersAssumption DEF SendTypes
      <4> QED BY <2>1, <4>1 DEF Full
    <3>2. cmds' = Append(cmds, m)
      BY <2>1 DEF Enqueue
    <3> QED BY <1>1, <1>2, <3>1, <3>2, QueueOps DEF m
  <2>5. Table(timers') /\ want' \in [Handles -> BOOLEAN]
    BY <1>1, <1>2, <2>1, SettledOk, WantedType DEF m, TableTypes
  <2>6. spoilt' \subseteq Handles
    BY <1>1, <1>2, <2>1, SpoiltType DEF m
  <2>7. astray' \subseteq Slots
    BY <1>1, <2>1 DEF SendTypes, Stranded, Waiting
  <2> QED BY <1>2, <2>1, <2>3, <2>4, <2>5, <2>6, <2>7, EndSendTypes
<1>4. CASE SendFails
  <2>1. /\ EndSend /\ UNCHANGED taskVars /\ cmds' = cmds /\ want' = want
        /\ astray' = astray \ {current}
        /\ IF m.op \in Bumping /\ timers[m.h].used
           THEN timers' = [timers EXCEPT ![m.h].gen = m.prev] /\ Spoilt({m.h})
           ELSE UNCHANGED <<timers, spoilt>>
    BY <1>4 DEF SendFails
  <2>2. TaskTable' /\ Eased
    BY <1>1, <2>1, WakeOps
  <2>3. Table(timers') /\ spoilt' \subseteq Handles
    <3>1. CASE m.op \in Bumping /\ timers[m.h].used
      <4> DEFINE r == [timers[m.h] EXCEPT !.gen = m.prev]
      <4>1. timers' = [timers EXCEPT ![m.h] = r] /\ Spoilt({m.h})
        BY <2>1, <3>1
      <4>2. m.prev \in 1 .. MaxGen
        <5>1. m.prev \in 0 .. MaxGen /\ m.prev > 0 /\ MaxGen \in Nat
          BY <1>2, CommandFields, TimersAssumption DEF Sent
        <5> QED BY <5>1
      <4>3. Sound(r)
        BY <1>1, <1>2, <4>2, SoundTimers DEF Table
      <4> HIDE DEF r
      <4>4. Table([timers EXCEPT ![m.h] = r])
        BY <1>1, <1>2, <4>3, TableSet
      <4>5. spoilt' \subseteq Handles
        BY <1>1, <1>2, <4>1, SpoiltType
      <4> QED BY <4>1, <4>4, <4>5
    <3>2. CASE ~(m.op \in Bumping /\ timers[m.h].used)
      BY <1>1, <2>1, <3>2 DEF TableTypes
    <3> QED BY <3>1, <3>2
  <2>4. /\ cmds' \in Seq(Commands) /\ Len(cmds') <= QueueLength /\ astray' \subseteq Slots
        /\ want' \in [Handles -> BOOLEAN]
    BY <1>1, <2>1 DEF SendTypes, TableTypes
  <2> QED BY <1>2, <2>1, <2>2, <2>3, <2>4, EndSendTypes
<1>5. CASE SendWaitsAgain
  <2> DEFINE timeout == IF left[current] = Never THEN 0 ELSE left[current]
  <2>1. /\ left[current] # 0 /\ WaitForRoom(timeout)
        /\ UNCHANGED <<app, objVars, holds, stray, callVars, tableVars, cmds, daemonVars, msg,
                       astray>>
    BY <1>5 DEF SendWaitsAgain
  <2>2. left[current] \in {Never} \cup 0 .. MaxDelay
    BY <1>1, <1>2 DEF CallTypes
  <2>3. timeout \in 0 .. MaxDelay /\ left[current] = IF timeout = 0 THEN Never ELSE timeout
    BY <2>1, <2>2
  <2> HIDE DEF timeout
  <2>4. UNCHANGED callVars /\ UNCHANGED <<app, objVars, holds, stray>>
    BY <2>1
  <2>5. SyncTypes' /\ Timely /\ txWaiter' = current
    BY <1>1, <1>2, <2>1, <2>3, <2>4, RoomTypes
  <2>6. TableTypes' /\ SendTypes' /\ DaemonTypes' /\ SendersHaveCommands'
    BY <1>1, <1>2, <2>1, <2>5
       DEF TableTypes, Generated, SendTypes, DaemonTypes, NotBehind, SendersHaveCommands,
           callVars, tableVars, daemonVars
  <2> QED BY <2>5, <2>6 DEF Types, TimerTypes
<1> QED BY <1>3, <1>4, <1>5

\* the calls of timers
LEMMA TimerStepOk ==
  ASSUME Types, TimerStep
  PROVE  Types' /\ Timely
<1>1. 0 \in 0 .. MaxDelay
  OBVIOUS
<1>2. {"start", "restart", "stop", "delete", "change"} \subseteq Ops \ {"work"}
  BY DEF Ops, Renewing, Bumping
<1>3. ASSUME NEW h \in Handles, NEW op \in {"start", "restart", "stop", "delete"},
             TimerCall(op, h, 0)
      PROVE  Types' /\ Timely
  BY <1>1, <1>2, <1>3, TimerCallTypes
<1>4. ASSUME NEW h \in Handles, NEW p \in Periods, TimerCall("change", h, p)
      PROVE  Types' /\ Timely
  <2>1. p \in 0 .. MaxDelay
    BY TimersAssumption
  <2> QED BY <1>2, <1>4, <2>1, TimerCallTypes
<1>5. ASSUME NEW h \in Handles, NEW d \in Delays, PostWork(h, d)
      PROVE  Types' /\ Timely
  <2>1. d \in 0 .. MaxDelay
    BY TaskAssumption
  <2> QED BY <1>5, <2>1, TimerCallTypes
<1> QED BY <1>3, <1>4, <1>5, TableCallTypes, SendTypesKept DEF TimerStep

-----------------------------------------------------------------------------
(* The steps of the daemon and of the clock keep the types.                *)

\* how long the daemon sleeps
LEMMA SleepTime ==
  ASSUME TableTypes, behind = 0, Expired = {}, Active # {}
  PROVE  LET wait == CHOOSE d \in 1 .. MaxDelay :
                       /\ \E h \in Active : timers[h].expiry = d
                       /\ \A h \in Active : d <= timers[h].expiry
         IN wait \in 1 .. MaxDelay /\ \A h \in Active : wait <= timers[h].expiry
<1> DEFINE S == {timers[h].expiry : h \in Active}
<1>1. \A h \in Active : timers[h].expiry \in 1 .. MaxDelay
  <2> SUFFICES ASSUME NEW h \in Active
               PROVE  timers[h].expiry \in 1 .. MaxDelay
    OBVIOUS
  <2>1. h \in Handles /\ h \notin Expired
    BY DEF Active
  <2>2. timers[h].expiry \in Int /\ timers[h].expiry <= MaxDelay
    BY <2>1 DEF TableTypes
  <2>3. ~(timers[h].expiry + behind <= 0)
    BY <2>1 DEF Expired
  <2> QED BY <2>2, <2>3
<1>2. S \subseteq Nat /\ S # {}
  BY <1>1
<1>3. PICK x \in S : \A y \in S : x <= y
  BY <1>2, Least
<1>4. \E d \in 1 .. MaxDelay : /\ \E h \in Active : timers[h].expiry = d
                               /\ \A h \in Active : d <= timers[h].expiry
  BY <1>1, <1>3
<1> QED BY <1>4

\* the daemon goes to sleep
LEMMA SleepTypes ==
  ASSUME Types, Sleep
  PROVE  Types' /\ Timely
<1>1. SyncTypes /\ TableTypes /\ SendTypes /\ DaemonTypes /\ SendersHaveCommands
      /\ TaskTable /\ LoopTypes /\ CallTypes /\ RunningIsReady
  BY SyncParts DEF Types, TimerTypes
<1> DEFINE until == CHOOSE d \in 1 .. MaxDelay :
                      /\ \E h \in Active : timers[h].expiry = d
                      /\ \A h \in Active : d <= timers[h].expiry
           wait == IF Active = {} THEN 0 ELSE until
<1>2. /\ daemon # NoReady /\ current = daemon /\ phase = <<"top", 0>> /\ Expired = {}
      /\ SyncBlock(wait) /\ StartCall(<<"timer", daemon>>, wait)
      /\ asleep' = TRUE
      /\ UNCHANGED <<syncVars, tableVars, sendVars, daemon, phase, behind, msg, astray>>
  BY DEF Sleep, AtDaemon
<1>3. daemon \in Slots /\ behind = 0
  BY <1>1, <1>2 DEF DaemonTypes, NotBehind
<1>4. wait \in 0 .. MaxDelay
  <2>1. Active # {} => until \in 1 .. MaxDelay
    BY <1>1, <1>2, <1>3, SleepTime
  <2> HIDE DEF until
  <2> QED BY <2>1
<1> HIDE DEF wait
<1>5. <<"timer", daemon>> \in Calls
  BY <1>3 DEF Calls
<1>6. BlockingStep /\ LoopTypes' /\ CallTypes' /\ RunningIsReady'
  BY <1>1, <1>2, <1>3, <1>4, <1>5, Blocks
<1>7. UNCHANGED <<app, objVars, holds, stray, lost>>
  BY <1>2 DEF syncVars, histVars
<1>8. app' \in Apps /\ LineTypes' /\ GroupTypes' /\ RestTypes'
  BY <1>1, <1>7, RestStays
<1>9. SyncTypes' /\ Timely
  BY <1>6, <1>8, SyncPartsNext, MovesTimely DEF Moves, BlockingStep
<1>10. TableTypes' /\ SendTypes' /\ DaemonTypes'
  BY <1>1, <1>2 DEF TableTypes, Generated, SendTypes, DaemonTypes, NotBehind, tableVars, sendVars
<1>11. SendersHaveCommands'
  BY <1>1, <1>2, <1>6 DEF SendersHaveCommands, BlockingStep
<1> QED BY <1>9, <1>10, <1>11 DEF Types, TimerTypes

\* the daemon wakes up, when it slept
LEMMA AwakeTypes ==
  ASSUME SyncTypes, daemon \in Slots, current = daemon, Awake,
         TaskTable', Eased, UNCHANGED <<syncVars, otherVars>>
  PROVE  SyncTypes' /\ Timely /\ call' = call
<1>1. TaskTable /\ LoopTypes /\ CallTypes /\ RunningIsReady
  BY SyncParts
<1>2. call' = call /\ stale' = stale /\ left' = [left EXCEPT ![daemon] = Never]
  BY DEF Awake
<1>3. LoopTypes' /\ current' = current
  BY <1>1 DEF otherVars, loopVars, LoopTypes
<1>4. RunningIsReady'
  BY <1>1, <1>3, EasyRuns
<1>5. CallTypes'
  BY <1>1, <1>2 DEF CallTypes
<1>6. Timely
  <2>1. state'[daemon] = "READY"
    BY <1>3, <1>4 DEF RunningIsReady
  <2>2. \A u \in Slots \ {daemon} : left'[u] = left[u]
    BY <1>1, <1>2 DEF CallTypes
  <2> QED BY <1>2, <2>1, <2>2 DEF Timely, Eased, Steady
<1>7. UNCHANGED <<app, objVars, holds, stray, lost>>
  BY DEF syncVars, histVars
<1>8. app' \in Apps /\ LineTypes' /\ GroupTypes' /\ RestTypes'
  BY <1>7, RestStays
<1> QED BY <1>2, <1>3, <1>4, <1>5, <1>6, <1>8, SyncPartsNext

\* the daemon takes a command
LEMMA ReceiveTypes ==
  ASSUME Types, Receive
  PROVE  Types' /\ Timely
<1>1. SyncTypes /\ TableTypes /\ SendTypes /\ DaemonTypes /\ SendersHaveCommands
      /\ Table(timers) /\ TaskTable /\ LoopTypes /\ CallTypes /\ RunningIsReady
  BY TableParts, SyncParts DEF Types, TimerTypes
<1>2. /\ daemon # NoReady /\ current = daemon /\ behind = 0
      /\ cmds # <<>> /\ timers' = Executed(timers, Head(cmds)) /\ cmds' = Tail(cmds)
      /\ IF txWaiter = NoReady THEN UNCHANGED taskVars ELSE Resume(txWaiter, Reason)
      /\ txWaiter' = NoReady /\ Awake /\ phase' = <<"drain", 0>>
      /\ UNCHANGED <<syncVars, otherVars, gen, want, spoilt, daemon, behind, msg, astray>>
  BY <1>1 DEF Receive, AtDaemon, DaemonTypes, NotBehind
<1>3. Head(cmds) \in Commands /\ Tail(cmds) \in Seq(Commands)
      /\ Len(Tail(cmds)) <= QueueLength
  <2>1. cmds \in Seq(Commands) /\ Len(cmds) <= QueueLength /\ QueueLength \in Nat
    BY <1>1, TimersAssumption DEF SendTypes
  <2>2. Head(cmds) \in Commands /\ Tail(cmds) \in Seq(Commands)
        /\ Len(Tail(cmds)) = Len(cmds) - 1 /\ Len(cmds) \in Nat
    BY <1>2, <2>1
  <2> QED BY <2>1, <2>2
<1>4. daemon \in Slots /\ <<"drain", 0>> \in {"top", "drain", "scan"} \X (0 .. NTimers)
  BY <1>1, <1>2, TimersAssumption DEF DaemonTypes
<1>5. TaskTable' /\ Eased
  <2>1. txWaiter \in Slots \cup {NoReady}
    BY <1>1 DEF SendTypes
  <2> QED BY <1>1, <1>2, <2>1, WakeOps
<1>6. SyncTypes' /\ Timely /\ call' = call
  <2>1. UNCHANGED <<syncVars, otherVars>>
    BY <1>2
  <2> QED BY <1>1, <1>2, <1>4, <1>5, <2>1, AwakeTypes
<1>7. TableTypes'
  <2>1. Table(timers')
    BY <1>1, <1>2, <1>3, ExecutedOk
  <2> QED BY <1>1, <1>2, <2>1, TableParts, TablePartsNext
<1>8. SendTypes' /\ SendersHaveCommands'
  BY <1>1, <1>2, <1>3, <1>6 DEF SendTypes, SendersHaveCommands
<1>9. DaemonTypes'
  <2>1. asleep' = FALSE
    BY <1>2 DEF Awake
  <2> QED BY <1>1, <1>2, <1>4, <2>1 DEF DaemonTypes, NotBehind
<1> QED BY <1>6, <1>7, <1>8, <1>9 DEF Types, TimerTypes

\* the daemon looks at its timers
LEMMA ScanTypes ==
  ASSUME Types, StartScan
  PROVE  Types' /\ Timely
<1>1. SyncTypes /\ TableTypes /\ SendTypes /\ DaemonTypes /\ SendersHaveCommands
      /\ Table(timers) /\ TaskTable /\ LoopTypes /\ CallTypes /\ RunningIsReady
  BY TableParts, SyncParts DEF Types, TimerTypes
<1>2. /\ daemon # NoReady /\ current = daemon
      /\ Awake /\ phase' = <<"scan", 0>>
      /\ timers' = [h \in Handles |->
           [timers[h] EXCEPT !.expiry = IF @ > 0 THEN @ ELSE 0]]
      /\ UNCHANGED <<syncVars, schedVars, gen, want, spoilt, sendVars, daemon, behind, msg,
                     astray>>
  BY DEF StartScan, AtDaemon
<1>3. daemon \in Slots /\ <<"scan", 0>> \in {"top", "drain", "scan"} \X (0 .. NTimers)
  BY <1>1, <1>2, TimersAssumption DEF DaemonTypes
<1>4. UNCHANGED taskVars /\ UNCHANGED <<syncVars, otherVars>>
  BY <1>2 DEF schedVars, taskVars, otherVars, loopVars
<1>5. SyncTypes' /\ Timely /\ call' = call
  BY <1>1, <1>2, <1>3, <1>4, WakeOps, AwakeTypes
<1>6. TableTypes'
  <2>1. \A h \in Handles : Sound([timers[h] EXCEPT !.expiry = IF @ > 0 THEN @ ELSE 0])
    <3> SUFFICES ASSUME NEW h \in Handles
                 PROVE  Sound([timers[h] EXCEPT !.expiry = IF @ > 0 THEN @ ELSE 0])
      OBVIOUS
    <3> DEFINE e == IF timers[h].expiry > 0 THEN timers[h].expiry ELSE 0
    <3>1. Sound(timers[h])
      BY <1>1 DEF Table
    <3>2. timers[h].expiry \in Int /\ timers[h].expiry <= MaxDelay
      BY <3>1 DEF Sound, TimerRecords
    <3>3. e \in Int /\ e <= MaxDelay
      BY <3>2
    <3> HIDE DEF e
    <3>4. Sound([timers[h] EXCEPT !.expiry = e])
      BY <3>1, <3>3, SoundTimers
    <3> QED BY <3>4 DEF e
  <2>2. Table(timers')
    BY <1>2, <2>1 DEF Table, Sound
  <2> QED BY <1>1, <1>2, <2>2, TableParts, TablePartsNext
<1>7. SendTypes' /\ SendersHaveCommands'
  BY <1>1, <1>2, <1>5 DEF SendTypes, SendersHaveCommands, sendVars
<1>8. DaemonTypes'
  <2>1. asleep' = FALSE /\ NotBehind'
    BY <1>2 DEF Awake, NotBehind
  <2> QED BY <1>1, <1>2, <1>3, <2>1 DEF DaemonTypes
<1> QED BY <1>5, <1>6, <1>7, <1>8 DEF Types, TimerTypes

\* a timer expires; the scan ends; a callback delays
LEMMA FireTypes ==
  ASSUME Types, (\E h \in Handles : Fire(h)) \/ EndScan \/ \E d \in Delays : CallbackDelay(d)
  PROVE  Types' /\ Timely
<1>1. SyncTypes /\ TableTypes /\ SendTypes /\ DaemonTypes /\ SendersHaveCommands
      /\ Table(timers) /\ TaskTable /\ LoopTypes /\ CallTypes /\ RunningIsReady
  BY TableParts, SyncParts DEF Types, TimerTypes
<1>2. behind \in Nat
  BY <1>1 DEF DaemonTypes
<1>3. ASSUME NEW h \in Handles, Fire(h)
      PROVE  Types' /\ Timely
  <2> DEFINE r == IF timers[h].work THEN FreeTimer
                  ELSE IF timers[h].auto
                       THEN [timers[h] EXCEPT !.expiry = timers[h].period - behind]
                  ELSE [timers[h] EXCEPT !.active = FALSE, !.expiry = 0]
  <2>1. /\ timers' = [timers EXCEPT ![h] = r] /\ phase' = <<"scan", h + 1>>
        /\ want' = [want EXCEPT ![h] =
             want[h] /\ (Pending(h) \/ (timers[h].auto /\ ~timers[h].work))]
        /\ UNCHANGED <<vars, gen, spoilt, sendVars, daemon, asleep, behind, msg, astray>>
    BY <1>3 DEF Fire
  <2>2. Sound(timers[h]) /\ timers[h].period \in 0 .. MaxDelay
    BY <1>1 DEF Table, Sound, TimerRecords
  <2>3. timers[h].period - behind \in Int /\ timers[h].period - behind <= MaxDelay
    BY <1>2, <2>2
  <2>4. Sound(r)
    BY <2>2, <2>3, SoundTimers
  <2> HIDE DEF r
  <2>5. Table([timers EXCEPT ![h] = r])
    BY <1>1, <2>4, TableSet
  <2>6. want' \in [Handles -> BOOLEAN]
    <3>1. want \in [Handles -> BOOLEAN]
      BY <1>1 DEF TableTypes
    <3>2. (want[h] /\ (Pending(h) \/ (timers[h].auto /\ ~timers[h].work))) \in BOOLEAN
      OBVIOUS
    <3> QED BY <2>1, <3>1, <3>2
  <2>7. TableTypes'
    BY <1>1, <2>1, <2>5, <2>6, TableParts, TablePartsNext
  <2>8. SyncTypes' /\ Timely /\ UNCHANGED call
    BY <1>1, <2>1, StillSync
  <2>9. SendTypes' /\ SendersHaveCommands'
    BY <1>1, <2>1, <2>8 DEF SendTypes, SendersHaveCommands, sendVars
  <2>10. DaemonTypes'
    <3>1. h + 1 \in 0 .. NTimers
      BY TimersAssumption DEF Handles
    <3>2. phase' \in {"top", "drain", "scan"} \X (0 .. NTimers) /\ NotBehind'
      BY <2>1, <3>1 DEF NotBehind
    <3> QED BY <1>1, <2>1, <3>2 DEF DaemonTypes
  <2> QED BY <2>7, <2>8, <2>9, <2>10 DEF Types, TimerTypes
<1>4. ASSUME EndScan
      PROVE  Types' /\ Timely
  <2>1. /\ phase' = <<"top", 0>> /\ behind' = 0
        /\ UNCHANGED <<vars, tableVars, sendVars, daemon, asleep, msg, astray>>
    BY <1>4 DEF EndScan
  <2>2. SyncTypes' /\ Timely /\ UNCHANGED call
    BY <1>1, <2>1, StillSync
  <2>3. TableTypes' /\ SendTypes' /\ SendersHaveCommands'
    BY <1>1, <2>1, <2>2 DEF TableTypes, Generated, SendTypes, SendersHaveCommands, sendVars,
                            tableVars
  <2>4. DaemonTypes'
    <3>1. phase' \in {"top", "drain", "scan"} \X (0 .. NTimers) /\ NotBehind' /\ behind' \in Nat
      BY <2>1, TimersAssumption DEF NotBehind
    <3> QED BY <1>1, <2>1, <3>1 DEF DaemonTypes
  <2> QED BY <2>2, <2>3, <2>4 DEF Types, TimerTypes
<1>5. ASSUME NEW d \in Delays, CallbackDelay(d)
      PROVE  Types' /\ Timely
  <2>1. /\ current \in Slots
        /\ IF d = 0 THEN UNCHANGED taskVars ELSE YieldTimed(current, d)
        /\ SwitchOut
        /\ UNCHANGED <<app, last, atZero, running, main, objVars, callVars, histVars,
                       timerVars>>
    BY <1>1, <1>5 DEF CallbackDelay, InCallback, DaemonTypes
  <2>2. d \in 0 .. MaxDelay
    BY TaskAssumption
  <2>3. TaskTable' /\ \A u \in Slots : state'[u] = "WAITING" \/ Steady(u)
    BY <1>1, <2>1, <2>2 DEF YieldTimed, TaskTable, taskVars, TaskStates, WakeReasons, Steady
  <2>4. LoopTypes' /\ current' = NoReady
    BY <1>1, <2>1 DEF SwitchOut, LoopTypes
  <2>5. RunningIsReady'
    BY <2>4 DEF RunningIsReady, NoReady, Slots
  <2>6. CallTypes' /\ Timely
    BY <1>1, <2>1, <2>3 DEF CallTypes, callVars, Timely, Steady
  <2>7. app' \in Apps /\ LineTypes' /\ GroupTypes' /\ RestTypes'
    <3>1. UNCHANGED <<app, objVars, holds, stray, lost>>
      BY <2>1 DEF histVars
    <3> QED BY <1>1, <3>1, RestStays
  <2>8. SyncTypes'
    BY <2>3, <2>4, <2>5, <2>6, <2>7, SyncPartsNext
  <2>9. TimerTypes'
    BY <1>1, <2>1 DEF TimerTypes, TableTypes, Generated, SendTypes, DaemonTypes, NotBehind,
                      SendersHaveCommands, timerVars, tableVars, sendVars, daemonVars, callVars
  <2> QED BY <2>6, <2>8, <2>9 DEF Types
<1> QED BY <1>3, <1>4, <1>5

\* the daemon
LEMMA DaemonStepOk ==
  ASSUME Types, DaemonStep
  PROVE  Types' /\ Timely
BY SleepTypes, ReceiveTypes, ScanTypes, FireTypes DEF DaemonStep

\* time passes
LEMMA TimersTickOk ==
  ASSUME Types, TimersTick
  PROVE  Types'
<1>1. SyncTypes /\ TableTypes /\ SendTypes /\ DaemonTypes /\ SendersHaveCommands
      /\ Table(timers)
  BY TableParts DEF Types, TimerTypes
<1>2. /\ Tick
      /\ timers' = [h \in Handles |->
           IF h \in Active THEN [timers[h] EXCEPT !.expiry = @ - Passed] ELSE timers[h]]
      /\ behind' = IF phase[1] = "scan" THEN behind + Passed ELSE 0
      /\ UNCHANGED <<gen, want, spoilt, sendVars, daemon, asleep, phase, msg, astray>>
  BY DEF TimersTick
<1>3. SyncTypes' /\ Passed \in 0 .. MaxDelay
  BY <1>1, <1>2, TickTypes
<1>4. call' = call
  BY <1>2 DEF Tick
<1> HIDE DEF Passed
<1>5. TableTypes'
  <2>1. \A h \in Handles : Sound([timers[h] EXCEPT !.expiry = @ - Passed])
    <3> SUFFICES ASSUME NEW h \in Handles
                 PROVE  Sound([timers[h] EXCEPT !.expiry = @ - Passed])
      OBVIOUS
    <3>1. Sound(timers[h])
      BY <1>1 DEF Table
    <3>2. timers[h].expiry \in Int /\ timers[h].expiry <= MaxDelay
      BY <3>1 DEF Sound, TimerRecords
    <3>3. timers[h].expiry - Passed \in Int /\ timers[h].expiry - Passed <= MaxDelay
      BY <1>3, <3>2
    <3> QED BY <3>1, <3>3, SoundTimers
  <2>2. Table(timers')
    BY <1>1, <1>2, <2>1 DEF Table, Sound
  <2> QED BY <1>1, <1>2, <2>2, TableParts, TablePartsNext
<1>6. SendTypes' /\ SendersHaveCommands'
  BY <1>1, <1>2, <1>4 DEF SendTypes, SendersHaveCommands, sendVars
<1>7. DaemonTypes'
  <2>1. behind \in Nat /\ NotBehind
    BY <1>1 DEF DaemonTypes
  <2>2. behind' \in Nat /\ NotBehind'
    BY <1>2, <1>3, <2>1 DEF NotBehind
  <2> QED BY <1>1, <1>2, <2>2 DEF DaemonTypes
<1> QED BY <1>3, <1>5, <1>6, <1>7 DEF Types, TimerTypes

\* the beginning
LEMMA TypesInit == TimersInit => Types
<1> SUFFICES ASSUME TimersInit
             PROVE  Types
  OBVIOUS
<1>1. Init
  BY DEF TimersInit
<1>2. TaskTable /\ LoopTypes /\ RunningIsReady
  <2>1. SchedInit
    BY <1>1 DEF Init
  <2>2. TaskTable
    BY <2>1 DEF SchedInit, TaskTable, TaskStates, WakeReasons
  <2>3. LoopTypes /\ RunningIsReady
    <3>1. /\ current = NoReady /\ last = NoReady /\ atZero \in BOOLEAN /\ running = FALSE
          /\ main = NoReady /\ ticks = 0 /\ NoReady \notin Slots /\ 0 \in 0 .. MaxTicks
      BY <2>1 DEF SchedInit, NoReady, Slots
    <3> QED BY <3>1 DEF LoopTypes, RunningIsReady
  <2> QED BY <2>2, <2>3
<1>3. GroupTypes /\ CallTypes /\ RestTypes /\ app \in Apps
  BY <1>1, LineIsSeq, SizeAssumption DEF Init, GroupTypes, CallTypes, RestTypes, Calls
<1>4. LineTypes
  <2>1. items = [q \in Queues |-> 0] /\ \A q \in Queues : Capacity[q] \in Nat
    BY <1>1, SizeAssumption DEF Init
  <2>2. /\ count = [s \in Sems |-> IF s \in Mutexes THEN 1 ELSE 0]
        /\ \A s \in Sems : MaxCount[s] \in Nat \ {0}
    BY <1>1, SizeAssumption DEF Init
  <2>3. line = [w \in WaitPoints |-> <<>>]
    BY <1>1 DEF Init
  <2> QED BY <2>1, <2>2, <2>3, LineIsSeq DEF LineTypes, Singly, Distinct
<1>5. SyncTypes
  BY <1>2, <1>3, <1>4, SyncParts
<1>6. TableTypes
  <2>1. timers = [h \in Handles |-> FreeTimer] /\ gen = 0 /\ want = [h \in Handles |-> FALSE]
        /\ spoilt = {}
    BY DEF TimersInit
  <2>2. Table(timers)
    BY <2>1, SoundTimers DEF Table, Sound
  <2> QED BY <2>1, <2>2, TableParts, TimersAssumption
<1>7. SendTypes
  BY TimersAssumption DEF TimersInit, SendTypes
<1>8. DaemonTypes
  <2>1. /\ daemon = NoReady /\ asleep = FALSE /\ phase = <<"top", 0>> /\ behind = 0
    BY DEF TimersInit
  <2>2. <<"top", 0>> \in {"top", "drain", "scan"} \X (0 .. NTimers)
    BY TimersAssumption
  <2> QED BY <2>1, <2>2 DEF DaemonTypes, NotBehind
<1>9. SendersHaveCommands
  BY <1>1 DEF Init, SendersHaveCommands, Idle
<1> QED BY <1>5, <1>6, <1>7, <1>8, <1>9 DEF Types, TimerTypes

\* nothing happens
LEMMA StutterOk == Types /\ UNCHANGED tvars => Types' /\ Timely
<1> SUFFICES ASSUME Types, UNCHANGED tvars
             PROVE  Types' /\ Timely
  OBVIOUS
<1>1. SyncTypes' /\ Timely /\ UNCHANGED call
  BY StillSync DEF Types, tvars
<1>2. TimerTypes'
  BY <1>1 DEF Types, TimerTypes, TableTypes, Generated, SendTypes, DaemonTypes, NotBehind,
              SendersHaveCommands, tvars, timerVars, tableVars, sendVars, daemonVars
<1> QED BY <1>1, <1>2 DEF Types

\* every step keeps the types, and all but the clock keep the deadlines
LEMMA TypesStep == Types /\ [TimersNext]_tvars => Types' /\ (Timely \/ TimersTick)
BY SyncStepOk, TimersTickOk, TimerStepOk, DaemonStepOk, StutterOk DEF TimersNext

\* Types is an invariant.
LEMMA TypesInvariant == TimersSpec => []Types
BY TypesInit, TypesStep, PTL DEF TimersSpec

\* Every variable of the ESP-IDF layer keeps its type: no queue exceeds its
\* length, no semaphore its count, no line its array, no timeout its bound.
THEOREM TypeCorrect == TimersSpec => []TimersTypeOK
BY TypesInvariant, TypesParts, PTL

-----------------------------------------------------------------------------
(* Timeouts.                                                               *)

\* the clock lowers a wake-up and what is left of the timeout alike
LEMMA DeadlineTick ==
  ASSUME Types, DeadlineKept, TimersTick
  PROVE  DeadlineKept'
<1>1. SyncTypes /\ Tick
  BY DEF Types, TimersTick
<1>2. TaskTable /\ CallTypes
  BY <1>1, SyncParts
<1>3. /\ Passed \in 0 .. MaxDelay /\ state' = Collected
      /\ due' = [t \in Slots |-> IF due[t] = Never THEN Never
                                 ELSE IF due[t] > Passed THEN due[t] - Passed ELSE 0]
  BY <1>1, TickTypes
<1>4. /\ left' = [t \in Slots |-> IF left[t] = Never THEN Never
                                  ELSE IF left[t] > Passed THEN left[t] - Passed ELSE 0]
      /\ call' = call
  BY <1>1 DEF Tick
<1> HIDE DEF Passed
<1> SUFFICES ASSUME NEW t \in Slots, state'[t] = "BLOCKED", call'[t] # Idle, due'[t] # Never
             PROVE  left'[t] # Never /\ due'[t] <= left'[t]
  BY DEF DeadlineKept
<1>5. state[t] = "BLOCKED" /\ call[t] # Idle /\ due[t] # Never
  BY <1>2, <1>3, <1>4 DEF Collected, TaskTable
<1>6. left[t] # Never /\ due[t] <= left[t]
  BY <1>5 DEF DeadlineKept
<1>7. due[t] \in 0 .. MaxDelay /\ left[t] \in 0 .. MaxDelay
  BY <1>2, <1>5, <1>6 DEF TaskTable, CallTypes
<1>8. /\ due'[t] = IF due[t] > Passed THEN due[t] - Passed ELSE 0
      /\ left'[t] = IF left[t] > Passed THEN left[t] - Passed ELSE 0
  BY <1>3, <1>4, <1>5, <1>6
<1> QED BY <1>3, <1>6, <1>7, <1>8 DEF Never

\* every step keeps the deadlines
LEMMA DeadlineStep ==
  Types /\ DeadlineKept /\ [TimersNext]_tvars => DeadlineKept'
<1> SUFFICES ASSUME Types, DeadlineKept, [TimersNext]_tvars
             PROVE  DeadlineKept'
  OBVIOUS
<1>1. Types' /\ (Timely \/ TimersTick)
  BY TypesStep
<1>2. CASE Timely
  <2> SUFFICES ASSUME NEW t \in Slots, state'[t] = "BLOCKED", call'[t] # Idle,
                      due'[t] # Never
               PROVE  left'[t] # Never /\ due'[t] <= left'[t]
    BY DEF DeadlineKept
  <2>1. due'[t] \in {Never} \cup 0 .. MaxDelay
    BY <1>1 DEF Types, SyncTypes, TypeOK, SchedTypeOK
  <2>2. CASE due'[t] = left'[t]
    <3>1. due'[t] \in Int
      BY <2>1
    <3> QED BY <2>2, <3>1
  <2>3. CASE due'[t] # left'[t]
    BY <1>2, <2>3 DEF Timely, Steady, DeadlineKept
  <2> QED BY <2>2, <2>3
<1> QED BY <1>1, <1>2, DeadlineTick

\* A call that waits is not held up longer than its timeout, in any application,
\* however often it is woken for nothing (the wait loops of freertos_queue.c and
\* freertos_semphr.c subtract what has elapsed), and whatever the others call.
THEOREM TimeoutsHold == TimersSpec => []DeadlineKept
<1>1. TimersInit => DeadlineKept
  BY DEF TimersInit, Init, SchedInit, DeadlineKept
<1> QED BY <1>1, DeadlineStep, TypesInvariant, PTL DEF TimersSpec

-----------------------------------------------------------------------------
(* Mutexes.                                                                *)

OnObject(t) == call[t][2] \in Objects

\* a call on an object that does not know that it was deleted is on one that exists
LiveCalls == \A t \in Slots : OnObject(t) /\ t \notin stale => call[t][2] \in used

\* calls on no object
LEMMA NotOnObjects ==
  /\ Idle[2] \notin Objects
  /\ \A t \in Slots : t \notin Objects
BY ObjectAssumption DEF Idle, Objects, Slots

\* the calls that stay, end or begin
LEMMA LiveCallOps ==
  ASSUME CallTypes, LiveCalls, used \subseteq used'
  PROVE  /\ UNCHANGED callVars => LiveCalls'
         /\ UNCHANGED <<call, stale>> => LiveCalls'
         /\ EndCall => LiveCalls'
         /\ \A c, d : StartCall(c, d) /\ (c[2] \in Objects => c[2] \in used) => LiveCalls'
<1>1. UNCHANGED <<call, stale>> => LiveCalls'
  BY DEF LiveCalls, OnObject, Objects
<1>2. UNCHANGED callVars => LiveCalls'
  BY <1>1 DEF callVars
<1>3. EndCall => LiveCalls'
  BY NotOnObjects DEF LiveCalls, OnObject, Objects, EndCall, CallTypes
<1>4. ASSUME NEW c, NEW d, StartCall(c, d), c[2] \in Objects => c[2] \in used
      PROVE  LiveCalls'
  BY <1>4 DEF LiveCalls, OnObject, Objects, StartCall, CallTypes
<1> QED BY <1>1, <1>2, <1>3, <1>4

\* every step of EspSync keeps that
LEMMA LiveCallsSync ==
  ASSUME SyncTypes, LiveCalls, SyncStep
  PROVE  LiveCalls'
<1>1. CallTypes
  BY SyncParts
<1>2. ASSUME LineStep
      PROVE  LiveCalls'
  <2>1. used' = used
    <3>1. \A l : \A c \in WaitCalls : Effect(c, l) => used' = used
      BY DEF Effect
    <3> QED BY <1>2, <3>1 DEF LineStep, Do, Succeed, GiveUp, Retry, Wait, Abort, Give,
                                GiveRefused, QueueReset, objVars
  <2>2. \/ UNCHANGED callVars \/ EndCall
        \/ \E c \in WaitCalls, d \in Timeouts : StartCall(c, d) /\ c[2] \in used
    BY <1>2 DEF LineStep, Do, Succeed, GiveUp, Retry, Wait, Abort, Give, GiveRefused,
                QueueReset
  <2> QED BY <1>1, <2>1, <2>2, LiveCallOps
<1>3. ASSUME GroupStep
      PROVE  LiveCalls'
  <2>1. used' = used
    <3>1. ASSUME NEW g \in Groups, NEW n \in Needs,
                 \/ BitsDo(g, n) \/ BitsReturn(g, n)
                 \/ \E d \in Timeouts : BitsWait(g, n, d)
          PROVE  used' = used
      BY <3>1 DEF BitsDo, BitsReturn, BitsWait
    <3>2. ASSUME NEW g \in Groups, NEW b \in Bits, SetBits(g, {b}) \/ ClearBits(g, {b})
          PROVE  used' = used
      BY <3>2 DEF SetBits, ClearBits
    <3> QED BY <1>3, <3>1, <3>2 DEF GroupStep
  <2>2. \/ UNCHANGED callVars \/ EndCall
        \/ \E g \in Groups, n \in Needs, d \in Timeouts :
             StartCall(<<"bits", g, n>>, d) /\ g \in used
    <3>1. ASSUME NEW g \in Groups, NEW n \in Needs, BitsDo(g, n) PROVE UNCHANGED callVars
      BY <3>1 DEF BitsDo
    <3>2. ASSUME NEW g \in Groups, NEW n \in Needs, BitsReturn(g, n) PROVE EndCall
      BY <3>2 DEF BitsReturn
    <3>3. ASSUME NEW g \in Groups, NEW n \in Needs, NEW d \in Timeouts, BitsWait(g, n, d)
          PROVE  StartCall(<<"bits", g, n>>, d) /\ g \in used
      BY <3>3 DEF BitsWait
    <3>4. ASSUME NEW g \in Groups, NEW b \in Bits, SetBits(g, {b}) \/ ClearBits(g, {b})
          PROVE  UNCHANGED callVars
      BY <3>4 DEF SetBits, ClearBits
    <3> QED BY <1>3, <3>1, <3>2, <3>3, <3>4 DEF GroupStep
  <2> QED BY <1>1, <2>1, <2>2, LiveCallOps
<1>4. ASSUME NotifyStep
      PROVE  LiveCalls'
  <2>1. used' = used
    BY <1>4 DEF NotifyStep, NotifyGive, NotifyDo, NotifyReturn, NotifyWait, objVars
  <2>2. \/ UNCHANGED callVars \/ EndCall
        \/ \E d \in Timeouts : StartCall(<<"notified", current>>, d) /\ current \in Slots
    BY <1>4 DEF NotifyStep, NotifyGive, NotifyDo, NotifyReturn, NotifyWait, InTask
  <2> QED BY <1>1, <2>1, <2>2, LiveCallOps, NotOnObjects
<1>5. ASSUME ObjectStep
      PROVE  LiveCalls'
  <2>1. ASSUME NEW o \in Objects, Destroy(o)
        PROVE  LiveCalls'
    <3>1. used' = used \ {o} /\ stale' = stale \cup CallersOf(o) /\ call' = call
      BY <2>1 DEF Destroy
    <3>2. \A t \in Slots : OnObject(t) => call[t] # Idle
      BY NotOnObjects DEF OnObject
    <3> QED BY <3>1, <3>2 DEF LiveCalls, OnObject, CallersOf, Objects
  <2>2. CASE \E o \in Objects : Destroy(o)
    BY <2>1, <2>2
  <2>3. CASE ~ \E o \in Objects : Destroy(o)
    <3>1. used \subseteq used' /\ UNCHANGED callVars
      BY <1>5, <2>3 DEF ObjectStep, QueueCreate, SemCreate, GroupCreate, Exist
    <3> QED BY <1>1, <3>1, LiveCallOps
  <2> QED BY <2>2, <2>3
<1>6. ASSUME TaskStep
      PROVE  LiveCalls'
  <2>1. used' = used
    BY <1>6 DEF TaskStep, TaskCreate, TaskDelete, Suspend, ResumeTask, Delay, objVars
  <2>2. ASSUME NEW t \in Slots, TaskDelete(t)
        PROVE  LiveCalls'
    BY <1>1, <2>1, <2>2, NotOnObjects
       DEF TaskDelete, LiveCalls, OnObject, Objects, CallTypes
  <2>3. \/ UNCHANGED callVars
        \/ \E t \in Slots : TaskDelete(t)
    BY <1>6 DEF TaskStep, TaskCreate, Suspend, ResumeTask, Delay
  <2> QED BY <1>1, <2>1, <2>2, <2>3, LiveCallOps
<1>7. ASSUME Dispatch
      PROVE  LiveCalls'
  BY <1>1, <1>7, LiveCallOps DEF Dispatch, objVars
<1> QED BY <1>2, <1>3, <1>4, <1>5, <1>6, <1>7 DEF SyncStep

\* what the steps of the timers and the clock change of all this: calls on
\* timers begin and end
TimerMove ==
  /\ UNCHANGED <<app, objVars, holds, stray>>
  /\ \/ UNCHANGED <<call, stale>>
     \/ current \in Slots /\ EndCall
     \/ \E t \in Slots : call' = [call EXCEPT ![t] = <<"timer", t>>] /\ UNCHANGED stale

\* every one of them is like that
LEMMA TimerMoves == ASSUME Types, TimerStep \/ DaemonStep \/ TimersTick
                    PROVE  TimerMove
<1>1. daemon \in Slots \cup {NoReady}
  BY DEF Types, TimerTypes, DaemonTypes
<1>2. StartDaemon => \/ UNCHANGED <<call, stale>>
                     \/ \E t \in Slots : call' = [call EXCEPT ![t] = <<"timer", t>>]
                                         /\ UNCHANGED stale
  BY DEF StartDaemon
<1>3. \A m : CallAccepted(m) => TimerMove
  BY <1>2 DEF CallAccepted, TimerMove, syncVars, callVars, histVars, Enqueue
<1>4. \A m : CallFromCallback(m) => TimerMove
  BY DEF CallFromCallback, TimerMove, vars, callVars, histVars
<1>5. \A m, d : CallWaits(m, d) => TimerMove
  BY DEF CallWaits, TimerMove, StartCall, InTask
<1>6. \A m : Call(m) => TimerMove
  BY <1>3, <1>4, <1>5 DEF Call
<1>7. \A h, p, auto : TimerCreate(h, p, auto) => TimerMove
  BY <1>2 DEF TimerCreate, TimerMove, syncVars, callVars, histVars
<1>8. \A h, auto : CancelWork(h) \/ SetReload(h, auto) => TimerMove
  BY DEF CancelWork, SetReload, TimerMove, vars, callVars, histVars
<1>9. SendAccepted \/ SendFails \/ SendWaitsAgain => TimerMove
  BY DEF SendAccepted, SendFails, SendWaitsAgain, EndSend, BackInSend, TimerMove, callVars
<1>10. TimerStep => TimerMove
  BY <1>6, <1>7, <1>8, <1>9 DEF TimerStep, TimerCall, PostWork
<1>11. Sleep => TimerMove
  <2>1. Sleep => /\ daemon \in Slots /\ UNCHANGED syncVars
                 /\ \E w : StartCall(<<"timer", daemon>>, w)
    BY <1>1 DEF Sleep, AtDaemon
  <2>2. Sleep => /\ daemon \in Slots /\ UNCHANGED syncVars
                 /\ call' = [call EXCEPT ![daemon] = <<"timer", daemon>>] /\ UNCHANGED stale
    <3>1. Sleep => daemon = current
      BY DEF Sleep, AtDaemon
    <3> QED BY <2>1, <3>1 DEF StartCall
  <2> QED BY <2>2 DEF TimerMove, syncVars, histVars
<1>12. Receive \/ StartScan => TimerMove
  BY DEF Receive, StartScan, Awake, TimerMove, syncVars, histVars
<1>13. (\E h \in Handles : Fire(h)) \/ EndScan => TimerMove
  BY DEF Fire, EndScan, TimerMove, vars, callVars, histVars
<1>14. (\E d \in Delays : CallbackDelay(d)) => TimerMove
  BY DEF CallbackDelay, TimerMove, callVars, histVars
<1>15. TimersTick => TimerMove
  BY DEF TimersTick, Tick, TimerMove, histVars
<1> QED BY <1>10, <1>11, <1>12, <1>13, <1>14, <1>15 DEF DaemonStep

\* and so does every step
LEMMA LiveCallsStep ==
  Types /\ LiveCalls /\ [TimersNext]_tvars => LiveCalls'
<1> SUFFICES ASSUME Types, LiveCalls, [TimersNext]_tvars
             PROVE  LiveCalls'
  OBVIOUS
<1>1. SyncTypes /\ CallTypes
  BY SyncParts DEF Types
<1>2. CASE SyncStep
  BY <1>1, <1>2, LiveCallsSync
<1>3. CASE TimerStep \/ DaemonStep \/ TimersTick
  <2>1. TimerMove /\ used' = used
    BY <1>3, TimerMoves DEF TimerMove, objVars
  <2>2. ASSUME NEW t \in Slots, call' = [call EXCEPT ![t] = <<"timer", t>>], UNCHANGED stale
        PROVE  LiveCalls'
    BY <1>1, <2>1, <2>2, NotOnObjects DEF LiveCalls, OnObject, Objects, CallTypes
  <2> QED BY <1>1, <2>1, <2>2, LiveCallOps DEF TimerMove
<1>4. CASE UNCHANGED tvars
  BY <1>1, <1>4, LiveCallOps DEF tvars, vars, objVars, callVars
<1> QED BY <1>2, <1>3, <1>4 DEF TimersNext

\* A mutex that is held exists; it is free or held once, and as often again as
\* somebody gave it who did not hold it.
MutexFine(s) ==
  /\ Holders(s) # {} => s \in used
  /\ s \in used => count[s] + Cardinality(Holders(s)) <= 1 + stray[s]

MutexOk == \A s \in Mutexes : MutexFine(s)

\* sets of tasks are finite
LEMMA FewSlots ==
  ASSUME NEW S \in SUBSET Slots
  PROVE  IsFiniteSet(S) /\ Cardinality(S) \in Nat
<1>1. IsFiniteSet(Slots)
  BY FS_Interval DEF Slots
<1> QED BY <1>1, FS_Subset, FS_CardinalityType

\* what is counted of a mutex
LEMMA MutexNumbers ==
  ASSUME SyncTypes, NEW s \in Mutexes
  PROVE  /\ s \in Sems /\ MaxCount[s] = 1 /\ count[s] \in Nat /\ stray[s] \in Nat
         /\ IsFiniteSet(Holders(s)) /\ Cardinality(Holders(s)) \in Nat
<1>1. s \in Sems /\ MaxCount[s] = 1 /\ MaxStray \in Nat
  BY ObjectAssumption, SizeAssumption
<1>2. count[s] \in Nat /\ stray[s] \in Nat
  BY <1>1, SyncParts DEF LineTypes, RestTypes
<1>3. Holders(s) \in SUBSET Slots
  BY DEF Holders
<1> QED BY <1>1, <1>2, <1>3, FewSlots

\* nothing is lost when a mutex is given up, or taken without holding it
LEMMA FewerHold ==
  ASSUME SyncTypes, MutexOk, NEW s \in Mutexes,
         \A t \in Slots : s \in holds'[t] => s \in holds[t] /\ s \in used',
         s \in used' => s \in used /\ count'[s] = count[s] /\ stray'[s] = stray[s]
  PROVE  MutexFine(s)'
<1>1. Holders(s)' \subseteq Holders(s)
  BY DEF Holders
<1>2. /\ IsFiniteSet(Holders(s)) /\ Cardinality(Holders(s)) \in Nat
      /\ count[s] \in Nat /\ stray[s] \in Nat
  BY MutexNumbers
<1>3. /\ Cardinality(Holders(s)') <= Cardinality(Holders(s))
      /\ Cardinality(Holders(s)') \in Nat
  <2>1. Holders(s)' \in SUBSET Slots
    BY DEF Holders
  <2> QED BY <1>1, <1>2, <2>1, FS_Subset, FewSlots
<1>4. Holders(s)' # {} => s \in used'
  BY DEF Holders
<1>5. ASSUME s \in used' PROVE count'[s] + Cardinality(Holders(s)') <= 1 + stray'[s]
  <2>1. count[s] + Cardinality(Holders(s)) <= 1 + stray[s]
    BY <1>5 DEF MutexOk, MutexFine
  <2> QED BY <1>2, <1>3, <1>5, <2>1
<1> QED BY <1>4, <1>5 DEF MutexFine

\* what does not concern mutexes
LEMMA MutexQuiet ==
  ASSUME MutexOk, UNCHANGED <<used, count, holds, stray>>
  PROVE  MutexOk'
BY DEF MutexOk, MutexFine, Holders

\* a take
LEMMA MutexEffect ==
  ASSUME SyncTypes, MutexOk, NEW c \in WaitCalls, NEW l, Room(c), c[2] \in used,
         Effect(c, l)
  PROVE  MutexOk'
<1>1. used' = used /\ stray' = stray /\ LineTypes /\ RestTypes
  BY SyncParts DEF Effect
<1>2. Mutexes \subseteq Sems
  BY ObjectAssumption
<1>3. CASE c[1] = "take" /\ c[2] \in Mutexes
  <2> DEFINE m == c[2]
  <2>1. /\ count' = [count EXCEPT ![m] = @ - 1] /\ count[m] > 0
        /\ holds' = [t \in Slots |-> IF t = current THEN holds[t] \cup {m} ELSE holds[t]]
    BY <1>3 DEF Effect, Room
  <2>2. /\ m \in Mutexes /\ m \in Sems /\ m \in used /\ count[m] \in Nat /\ stray[m] \in Nat
        /\ IsFiniteSet(Holders(m)) /\ Cardinality(Holders(m)) \in Nat
    BY <1>3, MutexNumbers
  <2> HIDE DEF m
  <2>3. count'[m] = count[m] - 1 /\ \A s \in Sems \ {m} : count'[s] = count[s]
    BY <1>1, <2>1, <2>2 DEF LineTypes
  <2>4. Holders(m)' = Holders(m) \/ Holders(m)' = Holders(m) \cup {current}
    BY <2>1 DEF Holders
  <2>5. /\ Cardinality(Holders(m)') <= Cardinality(Holders(m)) + 1
        /\ Cardinality(Holders(m)') \in Nat
    BY <2>2, <2>4, FS_AddElement
  <2>6. MutexFine(m)'
    <3>1. count[m] + Cardinality(Holders(m)) <= 1 + stray[m]
      BY <2>2 DEF MutexOk, MutexFine
    <3>2. count'[m] + Cardinality(Holders(m)') <= 1 + stray[m]
      BY <2>2, <2>3, <2>5, <3>1
    <3> QED BY <1>1, <2>2, <3>2 DEF MutexFine
  <2>7. ASSUME NEW s \in Mutexes \ {m} PROVE MutexFine(s)'
    <3>1. \A t \in Slots : s \in holds'[t] <=> s \in holds[t]
      BY <2>1
    <3>2. \A t \in Slots : s \in holds[t] => s \in used
      BY DEF MutexOk, MutexFine, Holders
    <3> QED BY <1>1, <1>2, <2>3, <3>1, <3>2, FewerHold
  <2> QED BY <2>6, <2>7 DEF MutexOk
<1>4. CASE ~(c[1] = "take" /\ c[2] \in Mutexes)
  <2>1. holds' = holds
    BY <1>4 DEF Effect
  <2>2. \A s \in Mutexes : count'[s] = count[s]
    BY <1>1, <1>2, <1>4 DEF Effect, LineTypes
  <2> QED BY <1>1, <2>1, <2>2 DEF MutexOk, MutexFine, Holders
<1> QED BY <1>3, <1>4

\* a give, by the holder or by somebody else
LEMMA MutexGive ==
  ASSUME SyncTypes, MutexOk, NEW s \in Sems, Give(s)
  PROVE  MutexOk'
<1>1. /\ count' = [count EXCEPT ![s] = @ + 1] /\ used' = used /\ s \in used
      /\ holds' = [t \in Slots |-> holds[t] \ (IF t = current THEN {s} ELSE {})]
      /\ stray' = IF Stray(s) THEN [stray EXCEPT ![s] = @ + 1] ELSE stray
  BY DEF Give, Release
<1>2. LineTypes /\ RestTypes
  BY SyncParts
<1>3. Mutexes \subseteq Sems
  BY ObjectAssumption
<1>4. ASSUME NEW u \in Mutexes \ {s} PROVE MutexFine(u)'
  <2>1. count'[u] = count[u] /\ stray'[u] = stray[u]
    BY <1>1, <1>2, <1>3 DEF LineTypes, RestTypes
  <2>2. \A t \in Slots : u \in holds'[t] => u \in holds[t]
    BY <1>1
  <2>3. \A t \in Slots : u \in holds[t] => u \in used
    BY DEF MutexOk, MutexFine, Holders
  <2> QED BY <1>1, <2>1, <2>2, <2>3, FewerHold
<1>5. ASSUME s \in Mutexes PROVE MutexFine(s)'
  <2>1. /\ count[s] \in Nat /\ stray[s] \in Nat
        /\ IsFiniteSet(Holders(s)) /\ Cardinality(Holders(s)) \in Nat
    BY <1>5, MutexNumbers
  <2>2. count'[s] = count[s] + 1
    BY <1>1, <1>2 DEF LineTypes
  <2>3. count[s] + Cardinality(Holders(s)) <= 1 + stray[s]
    BY <1>1, <1>5 DEF MutexOk, MutexFine
  <2>4. CASE Stray(s)
    <3>1. stray'[s] = stray[s] + 1
      BY <1>1, <1>2, <1>5, <2>4 DEF RestTypes
    <3>2. Holders(s)' = Holders(s)
      BY <1>1, <2>4 DEF Stray, Owns, Holders
    <3>3. count'[s] + Cardinality(Holders(s)') <= 1 + stray'[s]
      BY <2>1, <2>2, <2>3, <3>1, <3>2
    <3> QED BY <1>1, <3>3 DEF MutexFine
  <2>5. CASE ~Stray(s)
    <3>1. stray'[s] = stray[s]
      BY <1>1, <2>5
    <3>2. current \in Holders(s) /\ Holders(s)' = Holders(s) \ {current}
      BY <1>1, <1>5, <2>5 DEF Stray, Owns, Holders
    <3>3. Cardinality(Holders(s)') = Cardinality(Holders(s)) - 1
      <4>1. \A S, x : IsFiniteSet(S) /\ x \in S =>
              Cardinality(S \ {x}) = Cardinality(S) - 1
        BY FS_RemoveElement
      <4> QED BY <2>1, <3>2, <4>1
    <3>4. count'[s] + Cardinality(Holders(s)') <= 1 + stray'[s]
      BY <2>1, <2>2, <2>3, <3>1, <3>3
    <3> QED BY <1>1, <3>4 DEF MutexFine
  <2> QED BY <2>4, <2>5
<1> QED BY <1>4, <1>5 DEF MutexOk

\* no step of EspSync breaks it
LEMMA MutexSync ==
  ASSUME SyncTypes, LiveCalls, MutexOk, SyncStep
  PROVE  MutexOk'
<1>1. LineTypes /\ RestTypes
  BY SyncParts
<1>2. Mutexes \subseteq Sems /\ MaxStray \in Nat
  BY ObjectAssumption, SizeAssumption
<1>3. \A s \in Mutexes, t \in Slots : s \in holds[t] => s \in used
  BY DEF MutexOk, MutexFine, Holders
<1>4. ASSUME LineStep
      PROVE  MutexOk'
  <2>1. ASSUME NEW c \in WaitCalls, Do(c)
        PROVE  MutexOk'
    <3>1. c[2] \in used /\ Room(c) /\ Effect(c, line)
      BY <2>1 DEF Do
    <3> QED BY <3>1, MutexEffect
  <2>2. ASSUME NEW c \in WaitCalls, Succeed(c)
        PROVE  MutexOk'
    <3>1. current \in Slots /\ call[current] = c /\ current \notin stale
          /\ Room(c) /\ Effect(c, Left(c))
      BY <2>2 DEF Succeed, Back
    <3>2. c[2] \in Objects
      BY WaitCallKinds DEF Objects
    <3>3. c[2] \in used
      BY <3>1, <3>2 DEF LiveCalls, OnObject
    <3> QED BY <3>1, <3>3, MutexEffect
  <2>3. ASSUME NEW s \in Sems, GiveRefused(s)
        PROVE  MutexOk'
    <3>1. /\ holds' = [t \in Slots |-> holds[t] \ (IF t = current THEN {s} ELSE {})]
          /\ used' = used /\ count' = count /\ stray' = stray
      BY <2>3 DEF GiveRefused, Release, objVars, queueVars
    <3>2. \A u \in Mutexes, t \in Slots : u \in holds'[t] => u \in holds[t]
      BY <3>1
    <3> QED BY <1>3, <3>1, <3>2, FewerHold DEF MutexOk
  <2>4. \/ UNCHANGED <<used, count, holds, stray>>
        \/ \E c \in WaitCalls : Do(c) \/ Succeed(c)
        \/ \E s \in Sems : Give(s) \/ GiveRefused(s)
    BY <1>4 DEF LineStep, GiveUp, Retry, Wait, Abort, QueueReset, objVars, queueVars, histVars
  <2> QED BY <2>1, <2>2, <2>3, <2>4, MutexGive, MutexQuiet
<1>5. ASSUME GroupStep \/ NotifyStep \/ Dispatch
      PROVE  MutexOk'
  <2> USE DEF objVars, queueVars, histVars
  <2>1. ASSUME NEW g \in Groups, NEW n \in Needs,
               \/ BitsDo(g, n) \/ BitsReturn(g, n)
               \/ \E d \in Timeouts : BitsWait(g, n, d)
        PROVE  UNCHANGED <<used, count, holds, stray>>
    BY <2>1 DEF BitsDo, BitsReturn, BitsWait
  <2>2. ASSUME NEW g \in Groups, NEW b \in Bits, SetBits(g, {b}) \/ ClearBits(g, {b})
        PROVE  UNCHANGED <<used, count, holds, stray>>
    BY <2>2 DEF SetBits, ClearBits
  <2>3. GroupStep => UNCHANGED <<used, count, holds, stray>>
    BY <2>1, <2>2 DEF GroupStep
  <2>4. NotifyStep => UNCHANGED <<used, count, holds, stray>>
    BY DEF NotifyStep, NotifyGive, NotifyDo, NotifyReturn, NotifyWait
  <2>5. Dispatch => UNCHANGED <<used, count, holds, stray>>
    BY DEF Dispatch
  <2> QED BY <1>5, <2>3, <2>4, <2>5, MutexQuiet
<1>6. ASSUME ObjectStep
      PROVE  MutexOk'
  <2>1. ASSUME NEW s \in Sems, SemCreate(s)
        PROVE  MutexOk'
    <3>1. /\ s \notin used /\ used' = used \cup {s} /\ holds' = holds
          /\ count' = [count EXCEPT ![s] = IF s \in Mutexes THEN 1 ELSE 0]
          /\ stray' = IF s \in Mutexes THEN [stray EXCEPT ![s] = 0] ELSE stray
      BY <2>1 DEF SemCreate, Exist
    <3>2. ASSUME NEW u \in Mutexes \ {s} PROVE MutexFine(u)'
      <4>1. count'[u] = count[u] /\ stray'[u] = stray[u] /\ (u \in used' <=> u \in used)
        BY <1>1, <1>2, <3>1 DEF LineTypes, RestTypes
      <4> QED BY <1>3, <3>1, <4>1, FewerHold
    <3>3. ASSUME s \in Mutexes PROVE MutexFine(s)'
      <4>1. count'[s] = 1 /\ stray'[s] = 0
        BY <1>1, <3>1, <3>3 DEF LineTypes, RestTypes
      <4>2. Holders(s)' = {}
        BY <1>3, <3>1, <3>3 DEF Holders
      <4> QED BY <4>1, <4>2, FS_EmptySet DEF MutexFine
    <3> QED BY <3>2, <3>3 DEF MutexOk
  <2>2. ASSUME NEW o \in Objects, Destroy(o)
        PROVE  MutexOk'
    <3>1. /\ used' = used \ {o} /\ holds' = [t \in Slots |-> holds[t] \ {o}]
          /\ count' = count /\ stray' = stray
      BY <2>2 DEF Destroy, queueVars
    <3>2. ASSUME NEW u \in Mutexes PROVE MutexFine(u)'
      <4>1. \A t \in Slots : u \in holds'[t] => u \in holds[t] /\ u # o
        BY <3>1
      <4>2. \A t \in Slots : u \in holds'[t] => u \in holds[t] /\ u \in used'
        BY <1>3, <3>1, <4>1
      <4> QED BY <3>1, <4>2, FewerHold
    <3> QED BY <3>2 DEF MutexOk
  <2>3. ASSUME NEW o \in Queues \cup Groups,
               used' = used \cup {o}, UNCHANGED <<count, holds, stray>>
        PROVE  MutexOk'
    <3>1. o \notin Mutexes
      BY ObjectAssumption
    <3> QED BY <2>3, <3>1 DEF MutexOk, MutexFine, Holders
  <2>4. ASSUME NEW q \in Queues, QueueCreate(q)
        PROVE  MutexOk'
    BY <2>3, <2>4 DEF QueueCreate, Exist
  <2>5. ASSUME NEW g \in Groups, GroupCreate(g)
        PROVE  MutexOk'
    BY <2>3, <2>5 DEF GroupCreate, Exist, queueVars
  <2> QED BY <1>6, <2>1, <2>2, <2>4, <2>5 DEF ObjectStep
<1>7. ASSUME TaskStep
      PROVE  MutexOk'
  <2>1. ASSUME NEW t \in Slots, TaskDelete(t)
        PROVE  MutexOk'
    <3>1. UNCHANGED <<used, count, stray>> /\ holds' = [holds EXCEPT ![t] = {}]
      BY <2>1 DEF TaskDelete, objVars, queueVars
    <3>2. \A s \in Mutexes, u \in Slots : s \in holds'[u] => s \in holds[u]
      BY <1>1, <3>1 DEF RestTypes
    <3> QED BY <1>3, <3>1, <3>2, FewerHold DEF MutexOk
  <2>2. \/ UNCHANGED <<used, count, holds, stray>>
        \/ \E t \in Slots : TaskDelete(t)
    BY <1>7 DEF TaskStep, TaskCreate, Suspend, ResumeTask, Delay, objVars, queueVars, histVars
  <2> QED BY <2>1, <2>2, MutexQuiet
<1> QED BY <1>4, <1>5, <1>6, <1>7 DEF SyncStep

\* nor does any other
LEMMA MutexStep ==
  Types /\ LiveCalls /\ MutexOk /\ [TimersNext]_tvars => MutexOk'
<1> SUFFICES ASSUME Types, LiveCalls, MutexOk, [TimersNext]_tvars
             PROVE  MutexOk'
  OBVIOUS
<1>1. CASE SyncStep
  BY <1>1, MutexSync DEF Types
<1>2. CASE TimerStep \/ DaemonStep \/ TimersTick
  BY <1>2, TimerMoves, MutexQuiet DEF TimerMove, objVars, queueVars
<1>3. CASE UNCHANGED tvars
  BY <1>3, MutexQuiet DEF tvars, vars, objVars, queueVars, histVars
<1> QED BY <1>1, <1>2, <1>3 DEF TimersNext

\* every call is on an object that exists, or knows that it was deleted
LEMMA LiveCallsInvariant == TimersSpec => []LiveCalls
<1>1. TimersInit => LiveCalls
  BY NotOnObjects DEF TimersInit, Init, LiveCalls, OnObject
<1> QED BY <1>1, LiveCallsStep, TypesInvariant, PTL DEF TimersSpec

\* A mutex of the ESP-IDF layer is held by one task at most and never free while it is
\* held, as long as only its holders give it, and each give by somebody else, task or
\* interrupt handler, lets in one more task at most: in every application, whatever
\* timeouts, deletions of tasks and of the mutex itself come in between.
THEOREM MutexHasOneOwner == TimersSpec => []MutexIsExclusive
<1>1. TimersInit => MutexOk
  <2> SUFFICES ASSUME TimersInit, NEW s \in Mutexes
               PROVE  MutexFine(s)
    BY DEF MutexOk
  <2>1. Holders(s) = {} /\ count[s] = 1 /\ stray[s] = 0
    BY ObjectAssumption DEF TimersInit, Init, Holders
  <2> QED BY <2>1, FS_EmptySet DEF MutexFine
<1>2. Types /\ MutexOk => MutexIsExclusive
  <2> SUFFICES ASSUME Types, MutexOk, NEW s \in Mutexes \cap used
               PROVE  Cardinality(Holders(s)) <= (IF count[s] > 0 THEN 0 ELSE 1) + stray[s]
    BY DEF MutexIsExclusive
  <2>1. count[s] \in Nat /\ stray[s] \in Nat /\ Cardinality(Holders(s)) \in Nat
    BY MutexNumbers DEF Types
  <2>2. count[s] + Cardinality(Holders(s)) <= 1 + stray[s]
    BY DEF MutexOk, MutexFine
  <2> QED BY <2>1, <2>2
<1> QED BY <1>1, <1>2, MutexStep, LiveCallsInvariant, TypesInvariant, PTL DEF TimersSpec

-----------------------------------------------------------------------------
(* What a step does to the tasks that wait.                                *)

GroupCalls == {"bits"} \X Groups \X Needs
NoteCalls  == {"notified"} \X Slots
TimerCalls == {"timer"} \X Slots
Waits      == WaitCalls \cup GroupCalls \cup NoteCalls

\* the kinds of calls
LEMMA CallKinds ==
  /\ Calls = Waits \cup TimerCalls \cup {Idle}
  /\ \A c \in WaitCalls  : c \notin GroupCalls \cup NoteCalls \cup TimerCalls \cup {Idle}
  /\ \A c \in GroupCalls : c \notin WaitCalls \cup NoteCalls \cup TimerCalls \cup {Idle}
  /\ \A c \in NoteCalls  : c \notin WaitCalls \cup GroupCalls \cup TimerCalls \cup {Idle}
  /\ \A c \in TimerCalls : c \notin Waits /\ c # Idle
  /\ \A c \in GroupCalls : /\ c[1] = "bits" /\ c[2] \in Groups /\ c[3] \in Needs
                           /\ c = <<"bits", c[2], c[3]>>
<1>1. Calls = Waits \cup TimerCalls \cup {Idle}
  BY DEF Calls, Waits, WaitCalls, GroupCalls, NoteCalls, TimerCalls
<1>2. /\ \A c \in WaitCalls  : c[1] \in {"send", "recv", "peek", "take"}
      /\ \A c \in GroupCalls : c[1] = "bits"
      /\ \A c \in NoteCalls  : c[1] = "notified"
      /\ \A c \in TimerCalls : c[1] = "timer"
      /\ Idle[1] = "idle"
  BY WaitCallKinds DEF GroupCalls, NoteCalls, TimerCalls, Idle
<1>3. \A c \in GroupCalls : c[2] \in Groups /\ c[3] \in Needs /\ c = <<"bits", c[2], c[3]>>
  BY DEF GroupCalls
<1> QED BY <1>1, <1>2, <1>3 DEF Waits

\* the calls on objects, and the others
LEMMA ObjectCalls ==
  /\ \A c \in WaitCalls : c[2] \in Queues \cup Sems /\ c[2] \in Objects
  /\ \A c \in GroupCalls : c[2] \in Objects
  /\ \A c \in NoteCalls \cup TimerCalls \cup {Idle} : c[2] \notin Objects
<1>1. \A c \in WaitCalls : c[2] \in Queues \cup Sems /\ c[2] \in Objects
  BY WaitCallKinds DEF Objects
<1>2. \A c \in GroupCalls : c[2] \in Objects
  BY CallKinds DEF Objects
<1>3. \A c \in NoteCalls \cup TimerCalls : c[2] \in Slots
  BY DEF NoteCalls, TimerCalls
<1> QED BY <1>1, <1>2, <1>3, NotOnObjects

\* a task keeps its call, and is woken at most
Undisturbed(u) ==
  /\ call'[u] = call[u] /\ (u \in stale' <=> u \in stale)
  /\ state'[u] = "READY" \/ state'[u] = state[u]
  /\ u \in lost => u \in lost'

\* nobody else is disturbed
OthersStay == \A u \in Slots \ {current} : Undisturbed(u)

\* the caller enters or leaves a call of the kind K, or blocks in it once more
CallMove(K) ==
  /\ current \in Slots
  /\ call[current] \in K \cup {Idle} \/ current \in stale
  /\ call'[current] \in K \cup {Idle}
  /\ \/ call'[current] = Idle /\ stale' = stale \ {current} /\ state'[current] = "READY"
     \/ call'[current] \in K /\ stale' = stale /\ state'[current] = "BLOCKED"
        /\ (current \in stale => call[current] = Idle)

\* a step of the calls of kind K
CallsOf(K) == OthersStay /\ (current \in Slots => Undisturbed(current) \/ CallMove(K))

\* who is in another call is not disturbed by such a step
LEMMA OtherCalls ==
  ASSUME NEW K, CallsOf(K), NEW u \in Slots
  PROVE  /\ call[u] \notin K \cup {Idle} /\ u \notin stale => Undisturbed(u)
         /\ call'[u] \notin K \cup {Idle} => Undisturbed(u)
BY DEF CallsOf, OthersStay, CallMove

\* the ways to be disturbed or not
LEMMA CallSteps ==
  ASSUME CallTypes, RunningIsReady, Moves, NEW K, lost \subseteq lost'
  PROVE  /\ UNCHANGED callVars /\ Eased => CallsOf(K)
         /\ UNCHANGED callVars /\ current \in Slots /\ call[current] \in K
              /\ current \notin stale => CallsOf(K)
         /\ EndCall /\ current \in Slots /\ Eased
              /\ (call[current] \in K \/ current \in stale) => CallsOf(K)
         /\ \A c \in K : \A d :
              current \in Slots /\ call[current] = Idle /\ StartCall(c, d)
              /\ state'[current] = "BLOCKED" => CallsOf(K)
<1>1. \A u \in Slots : u # current => state'[u] = "READY" \/ state'[u] = state[u]
  BY DEF Moves, EasyStep, BlockingStep, Eased, Steady
<1>2. current \in Slots => state'[current] \in {"READY", "BLOCKED"} /\ state[current] = "READY"
  BY DEF Moves, EasyStep, BlockingStep, Eased, Steady, RunningIsReady
<1>3. ASSUME UNCHANGED callVars, Eased
      PROVE  CallsOf(K)
  BY <1>3 DEF callVars, CallsOf, OthersStay, Undisturbed, Eased, Steady
<1>4. ASSUME UNCHANGED callVars, current \in Slots, call[current] \in K, current \notin stale
      PROVE  CallsOf(K)
  <2>1. OthersStay
    BY <1>1, <1>4 DEF callVars, OthersStay, Undisturbed
  <2>2. CASE state'[current] = "READY"
    BY <1>4, <2>1, <2>2 DEF callVars, CallsOf, Undisturbed
  <2>3. CASE state'[current] = "BLOCKED"
    BY <1>4, <2>1, <2>3 DEF callVars, CallsOf, CallMove
  <2> QED BY <1>2, <1>4, <2>2, <2>3
<1>5. ASSUME EndCall, current \in Slots, Eased, call[current] \in K \/ current \in stale
      PROVE  CallsOf(K)
  <2>1. /\ call'[current] = Idle /\ stale' = stale \ {current}
        /\ \A u \in Slots : u # current => call'[u] = call[u]
    BY <1>5 DEF EndCall, CallTypes
  <2>2. OthersStay
    BY <1>1, <2>1 DEF OthersStay, Undisturbed
  <2>3. state'[current] = "READY"
    BY <1>2, <1>5 DEF Eased, Steady
  <2> QED BY <1>5, <2>1, <2>2, <2>3 DEF CallsOf, CallMove
<1>6. ASSUME NEW c \in K, NEW d, current \in Slots, call[current] = Idle, StartCall(c, d),
             state'[current] = "BLOCKED"
      PROVE  CallsOf(K)
  <2>1. /\ call'[current] = c /\ stale' = stale
        /\ \A u \in Slots : u # current => call'[u] = call[u]
    BY <1>6 DEF StartCall, CallTypes
  <2>2. OthersStay
    BY <1>1, <2>1 DEF OthersStay, Undisturbed
  <2> QED BY <1>6, <2>1, <2>2 DEF CallsOf, CallMove
<1> QED BY <1>3, <1>4, <1>5, <1>6

\* a caller that goes on has not blocked
LEMMA GoesOn ==
  ASSUME Moves, current' = current
  PROVE  Eased
BY DEF Moves, EasyStep, BlockingStep, NoReady, Slots

\* queues and semaphores
LEMMA LineStepCalls ==
  ASSUME SyncTypes, LineStep
  PROVE  CallsOf(WaitCalls) /\ lost \subseteq lost'
<1>1. TaskTable /\ CallTypes /\ RunningIsReady /\ Moves
  BY SyncParts, LineStepTypes
<1>2. ASSUME \/ \E c \in WaitCalls : Do(c)
             \/ \E s \in Sems : Give(s) \/ GiveRefused(s)
             \/ \E q \in Queues : QueueReset(q)
      PROVE  CallsOf(WaitCalls) /\ lost \subseteq lost'
  <2>1. UNCHANGED callVars /\ lost \subseteq lost' /\ current' = current
    BY <1>2 DEF Do, Effect, Give, GiveRefused, QueueReset, otherVars, schedVars
  <2> QED BY <1>1, <2>1, GoesOn, CallSteps
<1>3. ASSUME NEW c \in WaitCalls, Succeed(c) \/ GiveUp(c)
      PROVE  CallsOf(WaitCalls) /\ lost \subseteq lost'
  <2>1. /\ EndCall /\ current \in Slots /\ call[current] \in WaitCalls
        /\ lost \subseteq lost' /\ current' = current
    BY <1>3 DEF Succeed, GiveUp, Back, Effect, otherVars, schedVars, histVars
  <2> QED BY <1>1, <2>1, GoesOn, CallSteps
<1>4. ASSUME Abort
      PROVE  CallsOf(WaitCalls) /\ lost \subseteq lost'
  <2>1. /\ EndCall /\ current \in Slots /\ current \in stale
        /\ lost \subseteq lost' /\ current' = current
    BY <1>4 DEF Abort, schedVars, histVars
  <2> QED BY <1>1, <2>1, GoesOn, CallSteps
<1>5. ASSUME NEW c \in WaitCalls, Retry(c)
      PROVE  CallsOf(WaitCalls) /\ lost \subseteq lost'
  <2>1. /\ UNCHANGED callVars /\ current \in Slots /\ call[current] \in WaitCalls
        /\ current \notin stale /\ lost \subseteq lost'
    BY <1>5 DEF Retry, Back, histVars
  <2> QED BY <1>1, <2>1, CallSteps
<1>6. ASSUME NEW c \in WaitCalls, NEW d \in Timeouts, Wait(c, d)
      PROVE  CallsOf(WaitCalls) /\ lost \subseteq lost'
  <2>1. /\ current \in Slots /\ call[current] = Idle /\ StartCall(c, d) /\ SyncBlock(d)
        /\ lost \subseteq lost'
    BY <1>6 DEF Wait, InTask, histVars
  <2>2. state'[current] = "BLOCKED"
    BY <1>1, <2>1 DEF SyncBlock, Block, TaskTable
  <2> QED BY <1>1, <2>1, <2>2, CallSteps
<1> QED BY <1>2, <1>3, <1>4, <1>5, <1>6 DEF LineStep

\* event groups
LEMMA GroupStepCalls ==
  ASSUME SyncTypes, GroupStep
  PROVE  CallsOf(GroupCalls) /\ lost \subseteq lost'
<1>1. TaskTable /\ CallTypes /\ RunningIsReady /\ Moves
  BY SyncParts, GroupStepTypes
<1>2. PICK g \in Groups :
        \/ \E n \in Needs : \/ BitsDo(g, n) \/ BitsReturn(g, n)
                            \/ \E d \in Timeouts : BitsWait(g, n, d)
        \/ \E b \in Bits : SetBits(g, {b}) \/ ClearBits(g, {b})
  BY DEF GroupStep
<1>3. ASSUME (\E n \in Needs : BitsDo(g, n)) \/ (\E b \in Bits : SetBits(g, {b}) \/ ClearBits(g, {b}))
      PROVE  CallsOf(GroupCalls) /\ lost \subseteq lost'
  <2>1. UNCHANGED callVars /\ lost \subseteq lost' /\ current' = current
    BY <1>3 DEF BitsDo, SetBits, ClearBits, otherVars, schedVars, histVars
  <2> QED BY <1>1, <2>1, GoesOn, CallSteps
<1>4. ASSUME NEW n \in Needs, BitsReturn(g, n)
      PROVE  CallsOf(GroupCalls) /\ lost \subseteq lost'
  <2>1. /\ EndCall /\ current \in Slots /\ call[current] \in GroupCalls
        /\ lost \subseteq lost' /\ current' = current
    BY <1>4 DEF BitsReturn, Back, schedVars, histVars, GroupCalls
  <2> QED BY <1>1, <2>1, GoesOn, CallSteps
<1>5. ASSUME NEW n \in Needs, NEW d \in Timeouts, BitsWait(g, n, d)
      PROVE  CallsOf(GroupCalls) /\ lost \subseteq lost'
  <2>1. /\ current \in Slots /\ call[current] = Idle /\ StartCall(<<"bits", g, n>>, d)
        /\ SyncBlock(d) /\ lost \subseteq lost' /\ <<"bits", g, n>> \in GroupCalls
    BY <1>5 DEF BitsWait, InTask, GroupCalls
  <2>2. state'[current] = "BLOCKED"
    BY <1>1, <2>1 DEF SyncBlock, Block, TaskTable
  <2> QED BY <1>1, <2>1, <2>2, CallSteps
<1> QED BY <1>2, <1>3, <1>4, <1>5

\* notifications
LEMMA NotifyStepCalls ==
  ASSUME SyncTypes, NotifyStep
  PROVE  CallsOf(NoteCalls) /\ lost \subseteq lost'
<1>1. TaskTable /\ CallTypes /\ RunningIsReady /\ Moves
  BY SyncParts, NotifyStepTypes
<1>2. ASSUME (\E t \in Slots : NotifyGive(t)) \/ (\E clear \in BOOLEAN : NotifyDo(clear))
      PROVE  CallsOf(NoteCalls) /\ lost \subseteq lost'
  <2>1. UNCHANGED callVars /\ lost \subseteq lost' /\ current' = current
    BY <1>2 DEF NotifyGive, NotifyDo, otherVars, schedVars, histVars
  <2> QED BY <1>1, <2>1, GoesOn, CallSteps
<1>3. ASSUME NEW clear \in BOOLEAN, NotifyReturn(clear)
      PROVE  CallsOf(NoteCalls) /\ lost \subseteq lost'
  <2>1. /\ EndCall /\ current \in Slots /\ call[current] \in NoteCalls
        /\ lost \subseteq lost' /\ current' = current
    BY <1>3 DEF NotifyReturn, Back, schedVars, histVars, NoteCalls
  <2> QED BY <1>1, <2>1, GoesOn, CallSteps
<1>4. ASSUME NEW d \in Timeouts, NotifyWait(d)
      PROVE  CallsOf(NoteCalls) /\ lost \subseteq lost'
  <2>1. /\ current \in Slots /\ call[current] = Idle /\ StartCall(<<"notified", current>>, d)
        /\ SyncBlock(d) /\ lost \subseteq lost' /\ <<"notified", current>> \in NoteCalls
    BY <1>4 DEF NotifyWait, InTask, NoteCalls, histVars
  <2>2. state'[current] = "BLOCKED"
    BY <1>1, <2>1 DEF SyncBlock, Block, TaskTable
  <2> QED BY <1>1, <2>1, <2>2, CallSteps
<1> QED BY <1>2, <1>3, <1>4 DEF NotifyStep

-----------------------------------------------------------------------------
(* Who waits is ready or blocked, who has a deleted object is in a call on  *)
(* one, and the daemon is the daemon.                                       *)

LiveStates ==
  \A t \in Slots :
    /\ call[t] # Idle => state[t] \in {"READY", "BLOCKED", "WAITING"}
    /\ call[t] \in Waits => state[t] # "WAITING"

StaleCalls == \A t \in stale : OnObject(t)

DaemonCall == daemon \in Slots => call[daemon] = <<"timer", daemon>>

Standing == LiveStates /\ StaleCalls /\ DaemonCall

\* the daemon is not stale, nor in any call of the others
LEMMA DaemonApart ==
  ASSUME Standing, daemon \in Slots
  PROVE  /\ call[daemon] \notin Waits \cup {Idle}
         /\ call[daemon] \in TimerCalls /\ daemon \notin stale
<1>1. call[daemon] \in TimerCalls
  BY DEF Standing, DaemonCall, TimerCalls
<1>2. call[daemon][2] \notin Objects /\ call[daemon] \notin Waits \cup {Idle}
  BY <1>1, CallKinds, ObjectCalls
<1> QED BY <1>1, <1>2 DEF Standing, StaleCalls, OnObject

\* the steps of the calls keep that
LEMMA CallsStand ==
  ASSUME CallTypes, CallTypes', Standing, daemon' = daemon, NEW K, K \subseteq Waits, CallsOf(K)
  PROVE  Standing'
<1>1. DaemonCall'
  <2>1. daemon \in Slots => Undisturbed(daemon)
    BY DaemonApart, OtherCalls
  <2> QED BY <2>1 DEF Standing, DaemonCall, Undisturbed
<1>2. ASSUME NEW t \in Slots
      PROVE  Undisturbed(t) \/ (t = current /\ CallMove(K))
  BY <1>2 DEF CallsOf, OthersStay
<1>3. LiveStates'
  <2>1. ASSUME NEW t \in Slots
        PROVE  /\ call'[t] # Idle => state'[t] \in {"READY", "BLOCKED", "WAITING"}
               /\ call'[t] \in Waits => state'[t] # "WAITING"
    <3>1. CASE Undisturbed(t)
      BY <3>1 DEF Undisturbed, Standing, LiveStates
    <3>2. CASE t = current /\ CallMove(K)
      BY <3>2 DEF CallMove
    <3> QED BY <1>2, <3>1, <3>2
  <2> QED BY <2>1 DEF LiveStates, Waits, WaitCalls, WaitPoints, GroupCalls, NoteCalls, Idle
<1>4. StaleCalls'
  <2>1. ASSUME NEW t \in stale'
        PROVE  call'[t][2] \in Objects
    <3>1. t \in Slots
      BY <2>1 DEF CallTypes
    <3>2. CASE Undisturbed(t)
      BY <2>1, <3>2 DEF Undisturbed, Standing, StaleCalls, OnObject
    <3>3. CASE t = current /\ CallMove(K)
      BY <2>1, <3>3, NotOnObjects DEF CallMove, Standing, StaleCalls, OnObject
    <3> QED BY <1>2, <3>1, <3>2, <3>3
  <2> QED BY <2>1 DEF StaleCalls, OnObject, Objects
<1> QED BY <1>1, <1>3, <1>4 DEF Standing

-----------------------------------------------------------------------------
(* The steps of other components: tasks, loop, clock, timers.              *)

\* sleepers in calls of kind L stay as they are
Aside(L) ==
  \A u \in Slots : call'[u] \in L /\ u \notin lost' /\ state'[u] = "BLOCKED" => Undisturbed(u)

\* so do the calls of kind L, but for objects that go or lose a wake-up
Kept(L) ==
  \A u \in Slots : call[u] \in L /\ u \notin stale /\ call[u][2] \in used' \ lost'
                     => Undisturbed(u)

\* a step that leaves the objects and who waits for them alone
Apart == /\ UNCHANGED objVars /\ lost \cap Objects \subseteq lost'
         /\ Aside(Waits) /\ Kept(WaitCalls \cup GroupCalls)

\* a step of one kind of calls is aside of the others
LEMMA CallsAside ==
  ASSUME NEW K, CallsOf(K), NEW L, L \cap (K \cup {Idle}) = {}
  PROVE  Aside(L) /\ Kept(L)
<1>1. ASSUME NEW u \in Slots, call'[u] \in L
      PROVE  Undisturbed(u)
  BY <1>1, OtherCalls
<1>2. ASSUME NEW u \in Slots, call[u] \in L, u \notin stale
      PROVE  Undisturbed(u)
  BY <1>2, OtherCalls
<1> QED BY <1>1, <1>2 DEF Aside, Kept

\* a step that leaves the calls alone
LEMMA ApartOps ==
  ASSUME UNCHANGED <<call, stale>>, lost \subseteq lost', UNCHANGED objVars,
         \A u \in Slots : call[u] \in Waits => state'[u] = "READY" \/ state'[u] = state[u]
  PROVE  Apart
BY DEF Apart, Aside, Kept, Undisturbed, Waits

\* the same for what stands
LEMMA StandOps ==
  ASSUME Standing, UNCHANGED <<call, stale, daemon>>,
         \A u \in Slots : call[u] # Idle => \/ state'[u] = "READY" \/ state'[u] = state[u]
                                            \/ state'[u] = "BLOCKED"
                                            \/ state'[u] = "WAITING" /\ call[u] \notin Waits
  PROVE  Standing'
<1>1. \A u \in Slots : call[u] \in Waits => call[u] # Idle
  BY CallKinds DEF Waits
<1>2. LiveStates'
  BY <1>1 DEF Standing, LiveStates, Waits, WaitCalls, WaitPoints, GroupCalls, NoteCalls, Idle
<1> QED BY <1>2 DEF Standing, StaleCalls, DaemonCall, OnObject, Objects

\* what tasks do to tasks
LEMMA TaskStepApart ==
  ASSUME SyncTypes, Standing, TaskStep, DaemonLeftAlone, daemon' = daemon
  PROVE  Apart /\ Standing'
<1>1. TaskTable /\ CallTypes
  BY SyncParts
<1>2. ASSUME NEW t \in Slots, TaskCreate(t) \/ ResumeTask(t)
      PROVE  Apart /\ Standing'
  <2>1. UNCHANGED <<call, stale, daemon>> /\ lost' = lost /\ UNCHANGED objVars
    BY <1>2 DEF TaskCreate, ResumeTask, callVars, histVars
  <2>2. \A u \in Slots : state'[u] = "READY" \/ state'[u] = state[u]
    BY <1>1, <1>2 DEF TaskCreate, ResumeTask, Register, Resume, TaskTable, taskVars
  <2> QED BY <2>1, <2>2, ApartOps, StandOps
<1>3. ASSUME NEW d \in Delays, Delay(d)
      PROVE  Apart /\ Standing'
  <2>1. /\ UNCHANGED <<call, stale, daemon>> /\ lost' = lost /\ UNCHANGED objVars
        /\ call[current] = Idle
    BY <1>3 DEF Delay, InTask, callVars, histVars
  <2>2. \A u \in Slots : u # current => state'[u] = state[u]
    BY <1>1, <1>3 DEF Delay, YieldTimed, TaskTable, taskVars
  <2>3. \A u \in Slots : call[u] \in Waits => u # current
    BY <2>1, CallKinds DEF Waits
  <2>4. Apart
    BY <2>1, <2>2, <2>3, ApartOps
  <2>5. Standing'
    BY <2>1, <2>2, StandOps
  <2> QED BY <2>4, <2>5
<1>4. ASSUME NEW t \in Slots, TaskDelete(t)
      PROVE  Apart /\ Standing'
  <2>0. t # daemon
    BY <1>4 DEF DaemonLeftAlone, NoReady, Slots
  <2>1. /\ t # daemon
        /\ call' = [call EXCEPT ![t] = Idle] /\ stale' = stale \ {t}
        /\ lost' = (lost \cup Burden(t)) \ {t} /\ UNCHANGED objVars
        /\ MarkZombie(t)
    BY <1>4, <2>0 DEF TaskDelete
  <2>2. /\ call'[t] = Idle
        /\ \A u \in Slots \ {t} : state'[u] = state[u] /\ Undisturbed(u)
    BY <1>1, <2>1 DEF CallTypes, TaskTable, MarkZombie, Undisturbed
  <2>3. lost \cap Objects \subseteq lost'
    BY <2>1, NotOnObjects
  <2>4. Aside(Waits)
    BY <2>2, CallKinds DEF Aside, Waits
  <2>5. Kept(WaitCalls \cup GroupCalls)
    <3>1. ASSUME call[t] \in WaitCalls \cup GroupCalls
          PROVE  call[t][2] \in lost'
      <4>1. call[t] # Idle /\ call[t][2] \in Objects
        BY <3>1, CallKinds, ObjectCalls
      <4> QED BY <2>1, <4>1, NotOnObjects DEF Burden
    <3> QED BY <2>2, <3>1 DEF Kept
  <2>6. LiveStates' /\ DaemonCall'
    <3>1. Idle \notin Waits
      BY CallKinds DEF Waits
    <3> QED BY <2>1, <2>2, <3>1 DEF Standing, LiveStates, DaemonCall, Undisturbed, Waits,
                                    WaitCalls, WaitPoints, GroupCalls, NoteCalls, Idle
  <2>7. StaleCalls'
    BY <1>1, <2>1, <2>2 DEF Standing, StaleCalls, OnObject, Objects, CallTypes
  <2> QED BY <2>1, <2>3, <2>4, <2>5, <2>6, <2>7 DEF Apart, Standing
<1>5. ASSUME NEW t \in Slots, Suspend(t)
      PROVE  Apart /\ Standing'
  <2>1. /\ UNCHANGED <<call, stale>> /\ UNCHANGED objVars
        /\ lost' = lost \cup Burden(t) \cup {t} /\ Block(t, 0)
    BY <1>5 DEF Suspend, callVars
  <2>2. /\ state'[t] = "BLOCKED" /\ t \in lost'
        /\ \A u \in Slots \ {t} : state'[u] = state[u] /\ Undisturbed(u)
    BY <1>1, <2>1 DEF TaskTable, Block, Undisturbed
  <2>3. Aside(Waits)
    BY <2>2 DEF Aside
  <2>4. Kept(WaitCalls \cup GroupCalls)
    <3>1. ASSUME call[t] \in WaitCalls \cup GroupCalls
          PROVE  call[t][2] \in lost'
      <4>1. call[t] # Idle
        BY <3>1, CallKinds
      <4> QED BY <2>1, <4>1 DEF Burden
    <3> QED BY <2>2, <3>1 DEF Kept
  <2>5. Standing'
    BY <2>1, <2>2, StandOps
  <2> QED BY <2>1, <2>3, <2>4, <2>5 DEF Apart
<1> QED BY <1>2, <1>3, <1>4, <1>5 DEF TaskStep

\* the loop and the clock
LEMMA LoopApart ==
  ASSUME SyncTypes, Standing, Dispatch \/ Tick, daemon' = daemon
  PROVE  Apart /\ Standing'
<1>1. TaskTable
  BY SyncParts
<1>2. UNCHANGED <<call, stale, daemon>> /\ lost' = lost /\ UNCHANGED objVars
  BY DEF Dispatch, Tick, callVars, histVars
<1>3. state' = Collected \/ Woken
  BY DEF Dispatch, Tick, LoopStops, SwitchIn, IdleStops, IdleAdvance
<1>4. \A u \in Slots : call[u] # Idle => state'[u] = "READY" \/ state'[u] = state[u]
  BY <1>1, <1>3 DEF Collected, Woken, Standing, LiveStates
<1>5. \A u \in Slots : call[u] \in Waits => call[u] # Idle
  BY CallKinds DEF Waits
<1> QED BY <1>2, <1>4, <1>5, ApartOps, StandOps

\* only callers of timers and the daemon change what they do
TimerShift ==
  /\ UNCHANGED objVars /\ lost \cap Objects \subseteq lost'
  /\ \A u \in Slots :
       \/ Undisturbed(u)
       \/ /\ call[u] \notin Waits /\ u \notin stale /\ u \notin stale'
          /\ \/ call'[u] = Idle
             \/ call'[u] = <<"timer", u>> /\ state'[u] \in {"READY", "BLOCKED", "WAITING"}
  /\ daemon' \in Slots => call'[daemon'] = <<"timer", daemon'>>

\* calls on timers
LEMMA OnTimers ==
  \A t \in Slots : \A c : c = Idle \/ c = <<"timer", t>> =>
    c \notin Waits /\ c[2] \notin Objects
<1>1. \A t \in Slots : <<"timer", t>> \in TimerCalls /\ <<"timer", t>> \notin Waits
  BY CallKinds DEF TimerCalls
<1>2. Idle \notin Waits
  BY CallKinds DEF Waits
<1> QED BY <1>1, <1>2, NotOnObjects

\* such a step is apart
LEMMA ShiftApart ==
  ASSUME CallTypes', Standing, TimerShift
  PROVE  Apart /\ Standing'
<1>1. Aside(Waits) /\ Kept(WaitCalls \cup GroupCalls)
  BY OnTimers DEF Aside, Kept, TimerShift, Waits
<1>2. LiveStates'
  <2>1. ASSUME NEW t \in Slots
        PROVE  /\ call'[t] # Idle => state'[t] \in {"READY", "BLOCKED", "WAITING"}
               /\ call'[t] \in Waits => state'[t] # "WAITING"
    <3>1. CASE Undisturbed(t)
      BY <3>1 DEF Undisturbed, Standing, LiveStates
    <3>2. CASE call'[t] = Idle \/ (call'[t] = <<"timer", t>> /\ state'[t] \in {"READY", "BLOCKED", "WAITING"})
      BY <3>2, OnTimers
    <3> QED BY <3>1, <3>2 DEF TimerShift
  <2> QED BY <2>1 DEF LiveStates, Waits, WaitCalls, WaitPoints, GroupCalls, NoteCalls, Idle
<1>3. StaleCalls'
  <2>1. ASSUME NEW t \in stale'
        PROVE  call'[t][2] \in Objects
    BY <2>1 DEF CallTypes, TimerShift, Undisturbed, Standing, StaleCalls, OnObject
  <2> QED BY <2>1 DEF StaleCalls, OnObject, Objects
<1> QED BY <1>1, <1>2, <1>3 DEF Apart, Standing, TimerShift, DaemonCall

\* the ways there are
LEMMA ShiftOps ==
  ASSUME SyncTypes, Standing, UNCHANGED objVars, lost \cap Objects \subseteq lost',
         \A u \in Slots \ {current} : u \in lost => u \in lost',
         \A u \in Slots \ {current} : state'[u] = "READY" \/ state'[u] = state[u]
  PROVE  /\ /\ UNCHANGED <<call, stale>> /\ daemon' = daemon
            /\ current \in Slots => /\ state'[current] = "READY" \/ state'[current] = state[current]
                                    /\ current \in lost => current \in lost'
            => TimerShift
         /\ /\ current \in Slots /\ daemon' = daemon
            /\ call[current] = Idle \/ call[current] = <<"timer", current>>
            /\ \/ EndCall /\ current # daemon
               \/ /\ \/ \E d : StartCall(<<"timer", current>>, d)
                     \/ UNCHANGED <<call, stale>> /\ call[current] = <<"timer", current>>
                  /\ state'[current] \in {"READY", "BLOCKED", "WAITING"}
            => TimerShift
<1>1. CallTypes
  BY SyncParts
<1>2. ASSUME UNCHANGED <<call, stale>>, daemon' = daemon,
             current \in Slots => /\ state'[current] = "READY" \/ state'[current] = state[current]
                                  /\ current \in lost => current \in lost'
      PROVE  TimerShift
  BY <1>2 DEF TimerShift, Undisturbed, Standing, DaemonCall
<1>3. ASSUME current \in Slots, daemon' = daemon,
             call[current] = Idle \/ call[current] = <<"timer", current>>,
             \/ EndCall /\ current # daemon
             \/ /\ \/ \E d : StartCall(<<"timer", current>>, d)
                   \/ UNCHANGED <<call, stale>> /\ call[current] = <<"timer", current>>
                /\ state'[current] \in {"READY", "BLOCKED", "WAITING"}
      PROVE  TimerShift
  <2>1. call[current] \notin Waits /\ current \notin stale
    BY <1>3, OnTimers DEF Standing, StaleCalls, OnObject
  <2>2. /\ \A u \in Slots : u # current => call'[u] = call[u]
        /\ stale' = stale \ {current}
        /\ \/ call'[current] = Idle /\ current # daemon
           \/ call'[current] = <<"timer", current>>
              /\ state'[current] \in {"READY", "BLOCKED", "WAITING"}
    BY <1>1, <1>3, <2>1 DEF EndCall, StartCall, CallTypes
  <2>3. daemon' \in Slots => call'[daemon'] = <<"timer", daemon'>>
    BY <1>3, <2>2 DEF Standing, DaemonCall
  <2>4. \A u \in Slots \ {current} : Undisturbed(u)
    BY <2>2 DEF Undisturbed
  <2> QED BY <1>3, <2>1, <2>2, <2>3, <2>4 DEF TimerShift
<1> QED BY <1>2, <1>3

\* the daemon gets a slot that no call uses
LEMMA ShiftStart ==
  ASSUME SyncTypes, Standing, StartDaemon, daemon = NoReady, UNCHANGED objVars, lost' = lost
  PROVE  TimerShift
<1>1. TaskTable /\ CallTypes
  BY SyncParts
<1>2. ASSUME NEW t \in Slots, FirstFree(t), Register(t), daemon' = t,
             call' = [call EXCEPT ![t] = <<"timer", t>>], stale' = stale
      PROVE  TimerShift
  <2>1. call[t] = Idle
    BY <1>2 DEF FirstFree, Free, Standing, LiveStates
  <2>2. t \notin stale /\ call[t] \notin Waits
    BY <2>1, OnTimers DEF Standing, StaleCalls, OnObject
  <2>3. /\ call'[t] = <<"timer", t>> /\ state'[t] = "READY"
        /\ \A u \in Slots \ {t} : call'[u] = call[u] /\ state'[u] = state[u]
    BY <1>1, <1>2 DEF CallTypes, TaskTable, Register
  <2>4. \A u \in Slots \ {t} : Undisturbed(u)
    BY <1>2, <2>3 DEF Undisturbed
  <2> QED BY <1>2, <2>2, <2>3, <2>4 DEF TimerShift
<1>3. ASSUME UNCHANGED <<taskVars, daemon, call>>, stale' = stale
      PROVE  TimerShift
  <2>1. \A u \in Slots : Undisturbed(u)
    BY <1>3 DEF Undisturbed, taskVars
  <2> QED BY <1>3, <2>1 DEF TimerShift, NoReady, Slots
<1> QED BY <1>2, <1>3 DEF StartDaemon

\* calls on timers
LEMMA CallShift ==
  ASSUME Types, Standing, NEW m, Call(m)
  PROVE  TimerShift
<1>1. SyncTypes /\ TaskTable /\ CallTypes /\ RunningIsReady /\ daemon \in Slots \cup {NoReady}
  BY SyncParts DEF Types, TimerTypes, DaemonTypes
<1>2. ASSUME CallFromCallback(m)
      PROVE  TimerShift
  <2>1. UNCHANGED <<call, stale, daemon, lost, state>> /\ UNCHANGED objVars
    BY <1>2 DEF CallFromCallback, vars, callVars, histVars, daemonVars, schedVars, taskVars
  <2> QED BY <1>1, <2>1, ShiftOps
<1>3. ASSUME CallAccepted(m), daemon = NoReady
      PROVE  TimerShift
  <2>1. StartDaemon /\ UNCHANGED objVars /\ lost' = lost
    BY <1>3 DEF CallAccepted, syncVars, histVars
  <2> QED BY <1>1, <1>3, <2>1, ShiftStart
<1>4. ASSUME CallAccepted(m), daemon # NoReady
      PROVE  TimerShift
  <2>1. /\ UNCHANGED <<call, stale, daemon, lost>> /\ UNCHANGED objVars
        /\ Enqueue(m)
    BY <1>4 DEF CallAccepted, syncVars, histVars, callVars, daemonVars
  <2>2. Eased
    BY <1>1, <1>4, <2>1, EnqueueTypes DEF Types, TimerTypes
  <2> QED BY <1>1, <2>1, <2>2, ShiftOps DEF Eased, Steady
<1>5. ASSUME NEW d \in Timeouts, CallWaits(m, d)
      PROVE  TimerShift
  <2>1. /\ current \in Slots /\ call[current] = Idle /\ StartCall(<<"timer", current>>, d)
        /\ lost \subseteq lost' /\ Block(current, d) /\ UNCHANGED objVars /\ daemon' = daemon
    BY <1>5 DEF CallWaits, InTask, WaitForRoom, SyncBlock, daemonVars
  <2>2. /\ state'[current] = "BLOCKED"
        /\ \A u \in Slots \ {current} : state'[u] = state[u]
    BY <1>1, <2>1 DEF Block, TaskTable
  <2>3. lost \cap Objects \subseteq lost' /\ \A u \in Slots \ {current} : u \in lost => u \in lost'
    BY <2>1
  <2> QED BY <1>1, <2>1, <2>2, <2>3, ShiftOps
<1> QED BY <1>2, <1>3, <1>4, <1>5 DEF Call

\* the task that waits for room goes on, gives up or waits again
LEMMA SendShift ==
  ASSUME Types, Standing, SendAccepted \/ SendFails \/ SendWaitsAgain
  PROVE  TimerShift
<1>1. /\ SyncTypes /\ TaskTable /\ CallTypes /\ RunningIsReady /\ SendTypes /\ DaemonTypes
      /\ daemon \in Slots \cup {NoReady}
  BY SyncParts DEF Types, TimerTypes, DaemonTypes
<1>2. current \in Slots /\ current # daemon /\ call[current] = <<"timer", current>>
  BY DEF SendAccepted, SendFails, SendWaitsAgain, BackInSend
<1>3. ASSUME EndSend, \A u \in Slots \ {current} : state'[u] = "READY" \/ state'[u] = state[u]
      PROVE  TimerShift
  <2>1. /\ EndCall /\ UNCHANGED objVars /\ daemon' = daemon /\ lost' = lost \ {current}
    BY <1>3 DEF EndSend, daemonVars
  <2>2. lost \cap Objects \subseteq lost' /\ \A u \in Slots \ {current} : u \in lost => u \in lost'
    BY <1>2, <2>1, NotOnObjects
  <2> QED BY <1>1, <1>2, <1>3, <2>1, <2>2, ShiftOps
<1>4. ASSUME SendAccepted
      PROVE  TimerShift
  <2>1. EndSend /\ Enqueue(msg[current])
    BY <1>4 DEF SendAccepted
  <2>2. ASSUME NEW u \in Slots
        PROVE  state'[u] = "READY" \/ state'[u] = state[u]
    <3>1. CASE asleep
      <4>1. Resume(daemon, Reason)
        BY <2>1, <3>1 DEF Enqueue
      <4> QED BY <1>1, <4>1 DEF Resume, TaskTable, taskVars
    <3>2. CASE ~asleep
      BY <2>1, <3>2 DEF Enqueue, taskVars
    <3> QED BY <3>1, <3>2
  <2> QED BY <1>3, <2>1, <2>2
<1>5. ASSUME SendFails
      PROVE  TimerShift
  BY <1>3, <1>5 DEF SendFails, taskVars
<1>6. ASSUME SendWaitsAgain
      PROVE  TimerShift
  <2>1. /\ UNCHANGED <<call, stale, daemon>> /\ UNCHANGED objVars /\ lost \subseteq lost'
        /\ \E d : Block(current, d)
    BY <1>6 DEF SendWaitsAgain, WaitForRoom, SyncBlock, callVars, daemonVars
  <2>2. /\ state'[current] = "BLOCKED"
        /\ \A u \in Slots \ {current} : state'[u] = state[u]
    BY <1>1, <1>2, <2>1 DEF Block, TaskTable
  <2>3. lost \cap Objects \subseteq lost' /\ \A u \in Slots \ {current} : u \in lost => u \in lost'
    BY <2>1
  <2> QED BY <1>1, <1>2, <2>1, <2>2, <2>3, ShiftOps
<1> QED BY <1>4, <1>5, <1>6

\* the steps of the callers of timers
LEMMA TimerStepApart ==
  ASSUME Types, Standing, TimerStep
  PROVE  TimerShift
<1>1. SyncTypes /\ daemon \in Slots \cup {NoReady}
  BY DEF Types, TimerTypes, DaemonTypes
<1>2. ASSUME NEW h \in Handles, NEW p, NEW auto, TimerCreate(h, p, auto)
      PROVE  TimerShift
  <2>1. lost' = lost /\ UNCHANGED objVars
    BY <1>2 DEF TimerCreate, syncVars, histVars
  <2>2. CASE daemon = NoReady
    <3>1. StartDaemon
      BY <1>2, <2>2 DEF TimerCreate
    <3> QED BY <1>1, <2>1, <2>2, <3>1, ShiftStart
  <2>3. CASE daemon # NoReady
    <3>1. UNCHANGED <<call, stale, daemon, state>>
      BY <1>2, <2>3 DEF TimerCreate, callVars, daemonVars, taskVars
    <3> QED BY <1>1, <2>1, <3>1, ShiftOps
  <2> QED BY <2>2, <2>3
<1>3. ASSUME NEW h \in Handles, NEW auto, CancelWork(h) \/ SetReload(h, auto)
      PROVE  TimerShift
  <2>1. UNCHANGED <<call, stale, daemon, lost, state>> /\ UNCHANGED objVars
    BY <1>3 DEF CancelWork, SetReload, vars, callVars, histVars, daemonVars, schedVars, taskVars
  <2> QED BY <1>1, <2>1, ShiftOps
<1>4. ASSUME NEW h \in Handles, NEW op, NEW arg, TimerCall(op, h, arg) \/ PostWork(h, arg)
      PROVE  TimerShift
  BY <1>4, CallShift DEF TimerCall, PostWork
<1> QED BY <1>2, <1>3, <1>4, SendShift DEF TimerStep

\* those of the daemon
LEMMA DaemonStepApart ==
  ASSUME Types, Standing, DaemonStep
  PROVE  TimerShift
<1>1. /\ SyncTypes /\ TaskTable /\ CallTypes /\ SendTypes /\ daemon \in Slots \cup {NoReady}
  BY SyncParts DEF Types, TimerTypes, DaemonTypes
<1>2. /\ daemon \in Slots /\ current = daemon
      /\ call[current] = <<"timer", current>>
  <2>1. daemon # NoReady /\ current = daemon
    BY DEF DaemonStep, Sleep, Receive, StartScan, Fire, EndScan, CallbackDelay, AtDaemon, InCallback
  <2> QED BY <1>1, <2>1 DEF Standing, DaemonCall
<1>3. ASSUME Sleep
      PROVE  TimerShift
  <2>1. /\ UNCHANGED objVars /\ lost' = lost /\ daemon' = daemon
        /\ \E d : Block(current, d) /\ StartCall(<<"timer", daemon>>, d)
    BY <1>3 DEF Sleep, SyncBlock, syncVars, histVars
  <2>2. /\ state'[current] = "BLOCKED"
        /\ \A u \in Slots \ {current} : state'[u] = state[u]
    BY <1>1, <1>2, <2>1 DEF Block, TaskTable
  <2> QED BY <1>1, <1>2, <2>1, <2>2, ShiftOps
<1>4. ASSUME Receive \/ StartScan
      PROVE  TimerShift
  <2>1. UNCHANGED <<call, stale, daemon, lost>> /\ UNCHANGED objVars
    BY <1>4 DEF Receive, StartScan, Awake, syncVars, histVars
  <2>2. \/ UNCHANGED taskVars
        \/ txWaiter # NoReady /\ Resume(txWaiter, Reason)
    <3>1. Receive => IF txWaiter = NoReady THEN UNCHANGED taskVars
                     ELSE Resume(txWaiter, Reason)
      BY DEF Receive
    <3>2. StartScan => UNCHANGED taskVars
      BY DEF StartScan, schedVars, taskVars
    <3> QED BY <1>4, <3>1, <3>2
  <2>3. \A u \in Slots : state'[u] = "READY" \/ state'[u] = state[u]
    BY <1>1, <2>2 DEF Resume, TaskTable, taskVars
  <2> QED BY <1>1, <2>1, <2>3, ShiftOps
<1>5. ASSUME (\E h \in Handles : Fire(h)) \/ EndScan
      PROVE  TimerShift
  <2>1. UNCHANGED <<call, stale, daemon, lost, state>> /\ UNCHANGED objVars
    BY <1>5 DEF Fire, EndScan, vars, callVars, histVars, schedVars, taskVars
  <2> QED BY <1>1, <2>1, ShiftOps
<1>6. ASSUME NEW d \in Delays, CallbackDelay(d)
      PROVE  TimerShift
  <2>1. /\ UNCHANGED <<call, stale, daemon, lost>> /\ UNCHANGED objVars
        /\ UNCHANGED taskVars \/ YieldTimed(current, d)
    BY <1>6 DEF CallbackDelay, callVars, histVars, timerVars, daemonVars
  <2>2. /\ state'[current] = state[current] \/ state'[current] = "WAITING"
        /\ \A u \in Slots \ {current} : state'[u] = state[u]
    BY <1>1, <1>2, <2>1 DEF YieldTimed, TaskTable, taskVars
  <2>3. CASE state'[current] = state[current]
    BY <1>1, <2>1, <2>2, <2>3, ShiftOps
  <2>4. CASE state'[current] = "WAITING"
    BY <1>1, <1>2, <2>1, <2>2, <2>4, ShiftOps
  <2> QED BY <2>2, <2>3, <2>4
<1> QED BY <1>3, <1>4, <1>5, <1>6 DEF DaemonStep

\* the timers, the daemon and the clock
LEMMA TimersApart ==
  ASSUME Types, Standing, TimerStep \/ DaemonStep \/ TimersTick
  PROVE  Apart /\ Standing'
<1>1. SyncTypes
  BY DEF Types
<1>2. ASSUME TimersTick
      PROVE  Apart /\ Standing'
  <2>1. Tick /\ daemon' = daemon
    BY <1>2 DEF TimersTick
  <2> QED BY <1>1, <2>1, LoopApart
<1>3. ASSUME TimerStep \/ DaemonStep
      PROVE  Apart /\ Standing'
  <2>1. CallTypes'
    BY <1>3, TimerStepOk, DaemonStepOk, SyncPartsNext DEF Types
  <2>2. TimerShift
    BY <1>3, TimerStepApart, DaemonStepApart
  <2> QED BY <2>1, <2>2, ShiftApart
<1> QED BY <1>2, <1>3

-----------------------------------------------------------------------------
(* Lines of waiters: what is there to have, and who was called to have it.  *)

\* how many calls at a wait point could proceed
Stock(w) == CASE w[1] = "send" -> Capacity[w[2]] - items[w[2]]
              [] w[1] = "take" -> count[w[2]]
              [] OTHER         -> items[w[2]]

\* who was taken from the line, is awake and will look again
Called(w) ==
  {t \in Slots : /\ state[t] = "READY" /\ LineOf(call[t]) = w /\ t \notin stale
                 /\ ~In(t, line[w])}

\* only callers that wait there are in a line
Filed(w) == \A t \in Slots : In(t, line[w]) => LineOf(call[t]) = w /\ t \notin stale

\* as long as somebody sleeps there, somebody else was called for everything
\* that is there to have
Served(w) == line[w] # <<>> => Stock(w) <= Cardinality(Called(w))

LineOk(w) == w[2] \in used \ lost => Filed(w) /\ Served(w)

LinesOk == \A w \in WaitPoints : LineOk(w)

\* wait points are calls of their own
LEMMA PointKinds ==
  \A w \in WaitPoints :
    /\ w = <<w[1], w[2]>> /\ w[1] \in {"send", "recv", "take"} /\ LineOf(w) = w
    /\ w[1] = "take" => w[2] \in Sems
    /\ w[1] # "take" => w[2] \in Queues
BY DEF WaitPoints, LineOf

\* who calls at a wait point
LEMMA LineCallers ==
  ASSUME NEW c \in Calls, NEW w \in WaitPoints, LineOf(c) = w
  PROVE  c \in WaitCalls /\ c[2] = w[2] /\ c # Idle
<1>1. w \in WaitCalls
  BY WaitCallKinds
<1>2. c \in WaitCalls
  <2>1. CASE c[1] = "peek"
    <3>1. c \notin GroupCalls \cup NoteCalls \cup TimerCalls \cup {Idle}
      BY <2>1 DEF GroupCalls, NoteCalls, TimerCalls, Idle
    <3> QED BY <3>1, CallKinds DEF Waits
  <2>2. CASE c[1] # "peek"
    BY <1>1, <2>2 DEF LineOf
  <2> QED BY <2>1, <2>2
<1>3. c # Idle
  BY <1>2, CallKinds
<1>4. c[2] = w[2]
  BY DEF LineOf
<1> QED BY <1>2, <1>3, <1>4

\* a call can proceed if something is there
LEMMA RoomStock ==
  ASSUME LineTypes
  PROVE  /\ \A w \in WaitPoints : Stock(w) \in Nat
         /\ \A c \in WaitCalls : Room(c) <=> Stock(LineOf(c)) > 0
<1>1. /\ items \in [Queues -> Nat] /\ \A q \in Queues : items[q] <= Capacity[q]
      /\ count \in [Sems -> Nat] /\ Capacity \in [Queues -> Nat]
  BY SizeAssumption DEF LineTypes
<1>2. ASSUME NEW w \in WaitPoints
      PROVE  Stock(w) \in Nat
  <2>1. CASE w[1] = "send"
    <3>1. w[2] \in Queues
      BY <2>1, PointKinds
    <3>2. Stock(w) = Capacity[w[2]] - items[w[2]]
      BY <2>1 DEF Stock
    <3> QED BY <1>1, <3>1, <3>2
  <2>2. CASE w[1] = "take"
    <3>1. w[2] \in Sems /\ Stock(w) = count[w[2]]
      BY <2>2, PointKinds DEF Stock
    <3> QED BY <1>1, <3>1
  <2>3. CASE w[1] = "recv"
    <3>1. w[2] \in Queues /\ Stock(w) = items[w[2]]
      BY <2>3, PointKinds DEF Stock
    <3> QED BY <1>1, <3>1
  <2> QED BY <2>1, <2>2, <2>3, PointKinds
<1>3. ASSUME NEW c \in WaitCalls
      PROVE  Room(c) <=> Stock(LineOf(c)) > 0
  <2>1. CASE c[1] = "send"
    <3>1. c[2] \in Queues /\ LineOf(c)[1] = "send" /\ LineOf(c)[2] = c[2]
      BY <2>1, WaitCallKinds
    <3>2. Stock(LineOf(c)) = Capacity[c[2]] - items[c[2]]
      BY <3>1 DEF Stock
    <3>3. Room(c) <=> items[c[2]] < Capacity[c[2]]
      BY <2>1 DEF Room
    <3> QED BY <1>1, <3>1, <3>2, <3>3
  <2>2. CASE c[1] = "take"
    <3>1. LineOf(c) = c
      BY <2>2, WaitCallKinds
    <3> QED BY <2>2, <3>1 DEF Stock, Room
  <2>3. CASE c[1] \in {"recv", "peek"}
    <3>1. LineOf(c) = <<"recv", c[2]>>
      BY <2>3, WaitCallKinds
    <3>2. Stock(LineOf(c)) = items[c[2]]
      BY <3>1 DEF Stock
    <3>3. Room(c) <=> items[c[2]] > 0
      BY <2>3 DEF Room
    <3> QED BY <3>2, <3>3
  <2> QED BY <2>1, <2>2, <2>3, WaitCallKinds
<1> QED BY <1>2, <1>3

\* and after a step
LEMMA StockNext ==
  ASSUME LineTypes'
  PROVE  \A w \in WaitPoints : Stock(w)' \in Nat
<1>1. /\ items' \in [Queues -> Nat] /\ \A q \in Queues : items'[q] <= Capacity[q]
      /\ count' \in [Sems -> Nat] /\ Capacity \in [Queues -> Nat]
  BY SizeAssumption DEF LineTypes
<1> SUFFICES ASSUME NEW w \in WaitPoints
             PROVE  Stock(w)' \in Nat
  OBVIOUS
<1>2. CASE w[1] = "send"
  <2>1. w[2] \in Queues /\ Stock(w)' = Capacity[w[2]] - items'[w[2]]
    BY <1>2, PointKinds DEF Stock
  <2> QED BY <1>1, <2>1
<1>3. CASE w[1] = "take"
  <2>1. w[2] \in Sems /\ Stock(w)' = count'[w[2]]
    BY <1>3, PointKinds DEF Stock
  <2> QED BY <1>1, <2>1
<1>4. CASE w[1] = "recv"
  <2>1. w[2] \in Queues /\ Stock(w)' = items'[w[2]]
    BY <1>4, PointKinds DEF Stock
  <2> QED BY <1>1, <2>1
<1> QED BY <1>2, <1>3, <1>4, PointKinds

\* counting tasks
LEMMA Counting ==
  /\ \A A, B : B \subseteq Slots /\ A \subseteq B =>
       /\ Cardinality(A) \in Nat /\ Cardinality(B) \in Nat
       /\ Cardinality(A) <= Cardinality(B)
  /\ \A A, B : \A x : A \subseteq Slots /\ B \subseteq Slots =>
       /\ x \notin A /\ x \in B /\ A \subseteq B => Cardinality(A) + 1 <= Cardinality(B)
       /\ A \ {x} \subseteq B => Cardinality(A) <= Cardinality(B) + 1
<1>1. IsFiniteSet(Slots)
  BY FS_Interval DEF Slots
<1>2. \A A : A \subseteq Slots => IsFiniteSet(A) /\ Cardinality(A) \in Nat
  BY <1>1, FS_Subset, FS_CardinalityType
<1>3. \A A, B : B \subseteq Slots /\ A \subseteq B => Cardinality(A) <= Cardinality(B)
  BY <1>2, FS_Subset
<1>4. ASSUME NEW A, NEW B, NEW x, A \subseteq Slots, B \subseteq Slots,
             x \notin A, x \in B, A \subseteq B
      PROVE  Cardinality(A) + 1 <= Cardinality(B)
  <2>1. Cardinality(A \cup {x}) = Cardinality(A) + 1
    BY <1>2, <1>4, FS_AddElement
  <2>2. A \cup {x} \subseteq B
    BY <1>4
  <2> QED BY <1>3, <1>4, <2>1, <2>2
<1>5. ASSUME NEW A, NEW B, NEW x, A \subseteq Slots, B \subseteq Slots, A \ {x} \subseteq B
      PROVE  Cardinality(A) <= Cardinality(B) + 1
  <2>1. Cardinality(A) <= Cardinality(A \ {x}) + 1
    <3>1. Cardinality(A \ {x}) = IF x \in A THEN Cardinality(A) - 1 ELSE Cardinality(A)
      BY <1>2, <1>5, FS_RemoveElement
    <3>2. Cardinality(A) \in Nat
      BY <1>2, <1>5
    <3> QED BY <3>1, <3>2
  <2>2. Cardinality(A \ {x}) <= Cardinality(B)
    BY <1>3, <1>5
  <2>3. Cardinality(A) \in Nat /\ Cardinality(A \ {x}) \in Nat /\ Cardinality(B) \in Nat
    BY <1>2, <1>5
  <2> QED BY <2>1, <2>2, <2>3
<1>6. \A A, B : B \subseteq Slots /\ A \subseteq B => Cardinality(A) \in Nat /\ Cardinality(B) \in Nat
  BY <1>2
<1> QED BY <1>3, <1>4, <1>5, <1>6

-----------------------------------------------------------------------------
(* What a step does to one line.                                           *)

\* who calls at wait point w and knows the object to be there, except one
AtLine(w, t) == \A u \in Slots \ {t} :
                  LineOf(call[u]) = w /\ u \notin stale => Undisturbed(u)

\* it was alright before
StillOk(w) == w[2] \in used' \ lost' => w[2] \in used \ lost

\* nothing happens there, or something goes
LEMMA LineQuiet ==
  ASSUME LineTypes, LineTypes', NEW w \in WaitPoints, LineOk(w), StillOk(w),
         w[2] \in used' \ lost' => AtLine(w, NoReady),
         line'[w] = line[w], Stock(w)' <= Stock(w)
  PROVE  LineOk(w)'
<1> SUFFICES ASSUME w[2] \in used' \ lost'
             PROVE  Filed(w)' /\ Served(w)'
  BY DEF LineOk
<1>1. Filed(w) /\ Served(w)
  BY DEF LineOk, StillOk
<1>2. \A u \in Slots : LineOf(call[u]) = w /\ u \notin stale => Undisturbed(u)
  BY DEF AtLine, NoReady, Slots
<1>3. Filed(w)'
  BY <1>1, <1>2 DEF Filed, Undisturbed
<1>4. Called(w) \subseteq Called(w)'
  BY <1>2 DEF Called, Undisturbed
<1>5. Called(w)' \subseteq Slots
  BY DEF Called
<1>6. Cardinality(Called(w)) \in Nat /\ Cardinality(Called(w)') \in Nat
      /\ Cardinality(Called(w)) <= Cardinality(Called(w)')
  BY <1>4, <1>5, Counting
<1>7. Stock(w) \in Nat /\ Stock(w)' \in Nat
  BY RoomStock, StockNext
<1>8. Served(w)'
  BY <1>1, <1>6, <1>7 DEF Served
<1> QED BY <1>3, <1>8

\* something comes, and the first of the line is called
LEMMA LinePops ==
  ASSUME TaskTable, CallTypes, LineTypes, LineTypes', Standing,
         NEW w \in WaitPoints, LineOk(w), StillOk(w), AtLine(w, NoReady),
         line'[w] = Popped(w), Wake(w), Stock(w)' <= Stock(w) + 1
  PROVE  LineOk(w)'
<1> SUFFICES ASSUME w[2] \in used' \ lost'
             PROVE  Filed(w)' /\ Served(w)'
  BY DEF LineOk
<1>1. Filed(w) /\ Served(w)
  BY DEF LineOk, StillOk
<1>2. \A u \in Slots : LineOf(call[u]) = w /\ u \notin stale => Undisturbed(u)
  BY DEF AtLine, NoReady, Slots
<1>3. /\ Popped(w) \in Lines
      /\ \A t : In(t, Popped(w)) => In(t, line[w]) /\ (line[w] # <<>> => t # line[w][First(w)])
      /\ line[w] \in Lines
  BY PoppedLine DEF LineTypes, Singly
<1>4. Filed(w)'
  BY <1>1, <1>2, <1>3 DEF Filed, Undisturbed
<1>5. CASE line[w] = <<>>
  <2>1. line'[w] = <<>>
    BY <1>5 DEF Popped
  <2> QED BY <1>4, <2>1 DEF Served
<1>6. CASE line[w] # <<>>
  <2> DEFINE first == line[w][First(w)]
  <2>1. first \in Slots /\ In(first, line[w])
    BY <1>3, <1>6, FirstIn DEF In
  <2> HIDE DEF first
  <2>2. LineOf(call[first]) = w /\ first \notin stale
    BY <1>1, <2>1 DEF Filed
  <2>3. state[first] \in {"READY", "BLOCKED"}
    <3>1. call[first] \in Calls
      BY <2>1 DEF CallTypes
    <3>2. call[first] \in WaitCalls /\ call[first] # Idle
      BY <2>2, <3>1, LineCallers
    <3> QED BY <2>1, <3>2 DEF Standing, LiveStates, Waits
  <2>4. state'[first] = "READY"
    <3>1. Resume(first, Reason)
      BY <1>6 DEF Wake, first
    <3> QED BY <2>1, <2>3, <3>1 DEF Resume, TaskTable, taskVars
  <2>5. first \in Called(w)' /\ first \notin Called(w)
    <3>1. ~In(first, line'[w])
      BY <1>3, <1>6 DEF first
    <3> QED BY <1>2, <2>1, <2>2, <2>4, <3>1 DEF Called, Undisturbed
  <2>6. Called(w) \subseteq Called(w)'
    BY <1>2, <1>3 DEF Called, Undisturbed
  <2>7. Called(w)' \subseteq Slots /\ Called(w) \subseteq Slots
    BY DEF Called
  <2>8. Cardinality(Called(w)) \in Nat /\ Cardinality(Called(w)') \in Nat
        /\ Cardinality(Called(w)) + 1 <= Cardinality(Called(w)')
    BY <2>5, <2>6, <2>7, Counting
  <2>9. Stock(w) <= Cardinality(Called(w))
    BY <1>1, <1>6 DEF Served
  <2>10. Stock(w) \in Nat /\ Stock(w)' \in Nat
    BY RoomStock, StockNext
  <2>11. Stock(w)' <= Cardinality(Called(w)')
    BY <2>8, <2>9, <2>10
  <2> QED BY <1>4, <2>11 DEF Served
<1> QED BY <1>5, <1>6

\* the caller takes something and leaves, or goes without
LEMMA LineLeaves ==
  ASSUME LineTypes, LineTypes', NEW w \in WaitPoints, LineOk(w), StillOk(w), AtLine(w, current),
         line'[w] = Without(line[w], current), Stock(w)' + 1 <= Stock(w) \/ Stock(w)' = 0
  PROVE  LineOk(w)'
<1> SUFFICES ASSUME w[2] \in used' \ lost'
             PROVE  Filed(w)' /\ Served(w)'
  BY DEF LineOk
<1>1. Filed(w) /\ Served(w)
  BY DEF LineOk, StillOk
<1>2. line[w] \in Lines /\ Distinct(line[w])
  BY DEF LineTypes, Singly
<1>3. \A u : In(u, line'[w]) <=> In(u, line[w]) /\ u # current
  BY <1>2, WithoutLine
<1>4. Filed(w)'
  BY <1>1, <1>3 DEF Filed, Undisturbed, AtLine
<1>5. Called(w) \ {current} \subseteq Called(w)'
  BY <1>3 DEF Called, Undisturbed, AtLine
<1>6. Called(w)' \subseteq Slots /\ Called(w) \subseteq Slots
  BY DEF Called
<1>7. Cardinality(Called(w)) \in Nat /\ Cardinality(Called(w)') \in Nat
      /\ Cardinality(Called(w)) <= Cardinality(Called(w)') + 1
  BY <1>5, <1>6, Counting
<1>8. Stock(w) \in Nat /\ Stock(w)' \in Nat
  BY RoomStock, StockNext
<1>9. line'[w] # <<>> => line[w] # <<>>
  <2>1. line[w] = <<>> => ~In(current, line[w])
    BY EmptySeq DEF In
  <2> QED BY <2>1 DEF Without
<1>10. Served(w)'
  BY <1>1, <1>7, <1>8, <1>9 DEF Served
<1> QED BY <1>4, <1>10

\* the caller finds nothing and stands in line
LEMMA LineJoins ==
  ASSUME LineTypes, LineTypes', NEW w \in WaitPoints, LineOk(w), StillOk(w), AtLine(w, current),
         \A u : In(u, line'[w]) => In(u, line[w]) \/ u = current,
         LineOf(call'[current]) = w, current \notin stale', Stock(w)' = 0
  PROVE  LineOk(w)'
<1> SUFFICES ASSUME w[2] \in used' \ lost'
             PROVE  Filed(w)' /\ Served(w)'
  BY DEF LineOk
<1>1. Filed(w)
  BY DEF LineOk, StillOk
<1>2. Filed(w)'
  BY <1>1 DEF Filed, Undisturbed, AtLine
<1>3. Called(w)' \subseteq Slots
  BY DEF Called
<1>4. Cardinality(Called(w)') \in Nat
  BY <1>3, Counting
<1> QED BY <1>2, <1>4 DEF Served

\* a step of one kind of calls leaves the callers in other lines alone
LEMMA CallersStay ==
  ASSUME NEW K, CallsOf(K), NEW w
  PROVE  /\ AtLine(w, current)
         /\ current \in Slots =>
              (LineOf(call[current]) # w \/ current \in stale \/ Undisturbed(current)
                 => AtLine(w, NoReady))
         /\ current \notin Slots => AtLine(w, NoReady)
BY DEF CallsOf, OthersStay, AtLine, NoReady

\* the line that is told of the call c
Other(c) == <<IF c[1] = "send" THEN "recv" ELSE "send", c[2]>>

\* what a call that proceeds changes there
LEMMA EffectStock ==
  ASSUME LineTypes, NEW c \in WaitCalls, Room(c), NEW l, Effect(c, l), NEW w \in WaitPoints
  PROVE  /\ w # Other(c) \/ c[1] \notin {"send", "recv"} => Stock(w)' <= Stock(w)
         /\ w = LineOf(c) /\ c[1] # "peek" => Stock(w)' + 1 <= Stock(w)
         /\ Stock(w)' <= Stock(w) + 1
<1>1. /\ items \in [Queues -> Nat] /\ count \in [Sems -> Nat] /\ Capacity \in [Queues -> Nat]
  BY SizeAssumption DEF LineTypes
<1>2. /\ c = <<c[1], c[2]>> /\ c[1] \in {"send", "recv", "peek", "take"}
      /\ c[1] = "take" => c[2] \in Sems /\ LineOf(c) = c
      /\ c[1] # "take" => c[2] \in Queues
      /\ c[1] = "send" => LineOf(c) = <<"send", c[2]>>
      /\ c[1] \in {"recv", "peek"} => LineOf(c) = <<"recv", c[2]>>
  BY WaitCallKinds
<1>3. /\ w = <<w[1], w[2]>> /\ w[1] \in {"send", "recv", "take"}
      /\ w[1] = "take" => w[2] \in Sems
      /\ w[1] # "take" => w[2] \in Queues
  BY PointKinds
<1>4. /\ w[1] = "send" => /\ Stock(w) = Capacity[w[2]] - items[w[2]]
                          /\ Stock(w)' = Capacity[w[2]] - items'[w[2]]
      /\ w[1] = "recv" => Stock(w) = items[w[2]] /\ Stock(w)' = items'[w[2]]
      /\ w[1] = "take" => Stock(w) = count[w[2]] /\ Stock(w)' = count'[w[2]]
  BY DEF Stock
<1>5. CASE c[1] = "send"
  <2>1. /\ items' = [items EXCEPT ![c[2]] = @ + 1] /\ count' = count
        /\ Other(c) = <<"recv", c[2]>>
    BY <1>5 DEF Effect, Other
  <2>2. /\ w[1] = "take" => Stock(w)' = Stock(w)
        /\ w[1] = "send" => IF w[2] = c[2] THEN Stock(w)' = Stock(w) - 1 ELSE Stock(w)' = Stock(w)
        /\ w[1] = "recv" => IF w[2] = c[2] THEN Stock(w)' = Stock(w) + 1 ELSE Stock(w)' = Stock(w)
    BY <1>1, <1>2, <1>3, <1>4, <1>5, <2>1
  <2>3. Stock(w) \in Nat
    BY RoomStock
  <2> QED BY <1>2, <1>3, <1>5, <2>1, <2>2, <2>3
<1>6. CASE c[1] = "recv"
  <2>1. /\ items' = [items EXCEPT ![c[2]] = @ - 1] /\ count' = count
        /\ Other(c) = <<"send", c[2]>>
    BY <1>6 DEF Effect, Other
  <2>2. /\ w[1] = "take" => Stock(w)' = Stock(w)
        /\ w[1] = "recv" => IF w[2] = c[2] THEN Stock(w)' = Stock(w) - 1 ELSE Stock(w)' = Stock(w)
        /\ w[1] = "send" => IF w[2] = c[2] THEN Stock(w)' = Stock(w) + 1 ELSE Stock(w)' = Stock(w)
    BY <1>1, <1>2, <1>3, <1>4, <1>6, <2>1
  <2>3. Stock(w) \in Nat
    BY RoomStock
  <2> QED BY <1>2, <1>3, <1>6, <2>1, <2>2, <2>3
<1>7. CASE c[1] = "peek"
  <2>1. items' = items /\ count' = count
    BY <1>7 DEF Effect
  <2>2. Stock(w)' = Stock(w)
    BY <2>1 DEF Stock
  <2>3. Stock(w) \in Nat
    BY RoomStock
  <2> QED BY <1>7, <2>2, <2>3
<1>8. CASE c[1] = "take"
  <2>1. items' = items /\ count' = [count EXCEPT ![c[2]] = @ - 1]
    BY <1>8 DEF Effect
  <2>2. /\ w[1] # "take" => Stock(w)' = Stock(w)
        /\ w[1] = "take" => IF w[2] = c[2] THEN Stock(w)' = Stock(w) - 1 ELSE Stock(w)' = Stock(w)
    BY <1>1, <1>2, <1>3, <1>4, <1>8, <2>1
  <2>3. Stock(w) \in Nat
    BY RoomStock
  <2> QED BY <1>2, <1>3, <1>8, <2>2, <2>3
<1> QED BY <1>2, <1>5, <1>6, <1>7, <1>8

\* who is taken from a line does not sleep on
LEMMA PopDropsNone ==
  ASSUME TaskTable, LineTypes, NEW w \in WaitPoints, Wake(w),
         NEW u \in Slots, In(u, line[w]), state'[u] = "BLOCKED"
  PROVE  In(u, Popped(w))
<1>1. line[w] # <<>> /\ (In(u, Popped(w)) \/ u = line[w][First(w)])
  BY PoppedLine DEF LineTypes, Singly
<1>2. ASSUME u = line[w][First(w)]
      PROVE  FALSE
  <2>1. Resume(u, Reason)
    BY <1>1, <1>2 DEF Wake
  <2> QED BY <2>1 DEF Resume, TaskTable, taskVars
<1> QED BY <1>1, <1>2

\* what it does to the lines
LEMMA EffectLines ==
  ASSUME SyncTypes, NEW c \in WaitCalls, NEW l, Effect(c, l), l \in [WaitPoints -> Lines]
  PROVE  /\ \A w \in WaitPoints :
              IF w = Other(c) /\ c[1] \in {"send", "recv"}
              THEN line'[w] = Popped(w) /\ Wake(w) ELSE line'[w] = l[w]
         /\ LineOf(c) \in WaitPoints
         /\ c[1] # "peek" => LineOf(c) # Other(c)
         /\ c[1] # "take" => Other(c)[2] = c[2] /\ Other(c) \in WaitPoints
<1>1. /\ c[1] \in {"send", "recv", "peek", "take"} /\ LineOf(c) \in WaitPoints
      /\ c[1] = "take" => LineOf(c) = c
      /\ c[1] # "take" => <<"send", c[2]>> \in WaitPoints /\ <<"recv", c[2]>> \in WaitPoints
      /\ c[1] = "send" => LineOf(c) = <<"send", c[2]>>
      /\ c[1] \in {"recv", "peek"} => LineOf(c) = <<"recv", c[2]>>
  BY WaitCallKinds
<1>2. c[1] # "take" => Other(c)[2] = c[2] /\ Other(c) \in WaitPoints
  BY <1>1 DEF Other
<1>3. c[1] # "peek" => LineOf(c) # Other(c)
  BY <1>1 DEF Other
<1>4. CASE c[1] \in {"send", "recv"}
  <2>1. line' = [l EXCEPT ![Other(c)] = Popped(Other(c))] /\ Wake(Other(c))
    BY <1>4 DEF Effect, Other
  <2>2. Other(c) \in WaitPoints
    BY <1>2, <1>4
  <2> HIDE DEF Other
  <2> QED BY <1>1, <1>2, <1>3, <1>4, <2>1, <2>2
<1>5. CASE c[1] \notin {"send", "recv"}
  <2>1. line' = l
    BY <1>5 DEF Effect
  <2> QED BY <1>1, <1>2, <1>3, <1>5, <2>1
<1> QED BY <1>4, <1>5

-----------------------------------------------------------------------------
(* Who sleeps in a line is in it.                                          *)

\* t is where the next call finds it
InLine(t) == t \notin stale /\ call[t][2] \in used /\ In(t, line[LineOf(call[t])])

LineSleepers ==
  \A t \in Slots :
    state[t] = "BLOCKED" /\ t \notin lost /\ call[t] \in WaitCalls => InLine(t)

\* a step takes nobody out of line who sleeps on
NoneDropped ==
  \A w \in WaitPoints : \A u \in Slots \ {current} :
    In(u, line[w]) /\ state'[u] = "BLOCKED" => In(u, line'[w])

\* such a step keeps the sleepers, if the caller stands in line when it blocks
LEMMA SleepersStay ==
  ASSUME SyncTypes, LineSleepers, OthersStay, used \subseteq used', NoneDropped,
         \A u \in Slots : u = current /\ state'[u] = "BLOCKED" /\ call'[u] \in WaitCalls
                            => InLine(u)'
  PROVE  LineSleepers'
<1> SUFFICES ASSUME NEW t \in Slots, state'[t] = "BLOCKED", t \notin lost',
                    call'[t] \in WaitCalls
             PROVE  InLine(t)'
  BY DEF LineSleepers, WaitCalls, WaitPoints
<1>1. CASE t # current
  <2>1. Undisturbed(t)
    BY <1>1 DEF OthersStay
  <2>2. InLine(t) /\ call'[t] = call[t] /\ (t \in stale' <=> t \in stale)
    BY <2>1 DEF Undisturbed, LineSleepers
  <2>3. LineOf(call[t]) \in WaitPoints
    BY <2>2, WaitCallKinds
  <2>4. In(t, line'[LineOf(call[t])])
    BY <1>1, <2>2, <2>3 DEF InLine, NoneDropped
  <2> QED BY <2>2, <2>4 DEF InLine
<1>2. CASE t = current
  BY <1>2
<1> QED BY <1>1, <1>2

\* what the calls do to the objects' names
LEMMA LineStepUsed ==
  ASSUME LineStep
  PROVE  used' = used
<1>1. \A c, l : Effect(c, l) => used' = used
  BY DEF Effect
<1>2. \A c : Do(c) \/ Succeed(c) => used' = used
  BY <1>1 DEF Do, Succeed
<1>3. \A c : GiveUp(c) \/ Retry(c) => used' = used
  BY DEF GiveUp, Retry
<1>4. \A c, d : Wait(c, d) => used' = used
  BY DEF Wait
<1>5. Abort => used' = used
  BY DEF Abort, objVars
<1>6. \A s : Give(s) \/ GiveRefused(s) => used' = used
  BY DEF Give, GiveRefused, objVars
<1>7. \A q : QueueReset(q) => used' = used
  BY DEF QueueReset
<1> QED BY <1>2, <1>3, <1>4, <1>5, <1>6, <1>7 DEF LineStep

\* calls that proceed at once
LEMMA DoLines ==
  ASSUME SyncTypes, Standing, LinesOk, LineSleepers, NEW c \in WaitCalls, Do(c)
  PROVE  LinesOk' /\ LineSleepers'
<1>1. LineStep
  BY DEF LineStep
<1>2. /\ TaskTable /\ CallTypes /\ LineTypes /\ LineTypes' /\ RunningIsReady /\ Moves
      /\ CallsOf(WaitCalls) /\ used' = used
  BY <1>1, SyncParts, SyncPartsNext, LineStepTypes, LineStepCalls, LineStepUsed
<1>3. /\ Effect(c, line) /\ Room(c) /\ UNCHANGED callVars /\ lost' = lost /\ current' = current
  BY DEF Do, Effect, otherVars
<1>4. \A u \in Slots : Undisturbed(u)
  <2>1. Eased
    BY <1>2, <1>3, GoesOn
  <2> QED BY <1>3, <2>1 DEF callVars, Undisturbed, Eased, Steady
<1>5. \A w \in WaitPoints : /\ IF w = Other(c) /\ c[1] \in {"send", "recv"}
                               THEN line'[w] = Popped(w) /\ Wake(w) ELSE line'[w] = line[w]
  BY <1>2, <1>3, EffectLines DEF LineTypes
<1>6. LinesOk'
  <2>1. ASSUME NEW w \in WaitPoints
        PROVE  LineOk(w)'
    <3>1. LineOk(w) /\ StillOk(w) /\ AtLine(w, NoReady)
      BY <1>2, <1>3, <1>4 DEF LinesOk, StillOk, AtLine
    <3>2. /\ w # Other(c) \/ c[1] \notin {"send", "recv"} => Stock(w)' <= Stock(w)
          /\ Stock(w)' <= Stock(w) + 1
      BY <1>2, <1>3, EffectStock
    <3>3. CASE w = Other(c) /\ c[1] \in {"send", "recv"}
      BY <1>2, <1>5, <3>1, <3>2, <3>3, LinePops
    <3>4. CASE ~(w = Other(c) /\ c[1] \in {"send", "recv"})
      BY <1>2, <1>5, <3>1, <3>2, <3>4, LineQuiet
    <3> QED BY <3>3, <3>4
  <2> QED BY <2>1 DEF LinesOk
<1>7. NoneDropped
  BY <1>2, <1>5, PopDropsNone DEF NoneDropped
<1>8. current \in Slots => state'[current] # "BLOCKED"
  BY <1>2, <1>4 DEF Undisturbed, RunningIsReady
<1> QED BY <1>2, <1>6, <1>7, <1>8, SleepersStay DEF CallsOf

\* calls that come back with success
LEMMA SucceedLines ==
  ASSUME SyncTypes, Standing, LinesOk, LineSleepers, NEW c \in WaitCalls, Succeed(c)
  PROVE  LinesOk' /\ LineSleepers'
<1>1. LineStep
  BY DEF LineStep
<1>2. /\ TaskTable /\ CallTypes /\ LineTypes /\ LineTypes' /\ RunningIsReady /\ Moves
      /\ CallsOf(WaitCalls) /\ used' = used
  BY <1>1, SyncParts, SyncPartsNext, LineStepTypes, LineStepCalls, LineStepUsed
<1>3. /\ Effect(c, Left(c)) /\ Room(c) /\ EndCall /\ current \in Slots /\ call[current] = c
      /\ lost' = IF c[1] = "peek" THEN lost \cup {c[2]} ELSE lost
  BY DEF Succeed, Back
<1>4. call'[current] = Idle
  BY <1>2, <1>3 DEF EndCall, CallTypes
<1>5. /\ Left(c) \in [WaitPoints -> Lines]
      /\ \A w \in WaitPoints : w # LineOf(c) => Left(c)[w] = line[w]
      /\ Left(c)[LineOf(c)] = Without(line[LineOf(c)], current)
  BY <1>2, LeftLine
<1>6. /\ \A w \in WaitPoints : /\ IF w = Other(c) /\ c[1] \in {"send", "recv"}
                                  THEN line'[w] = Popped(w) /\ Wake(w) ELSE line'[w] = Left(c)[w]
      /\ LineOf(c) \in WaitPoints /\ LineOf(c)[2] = c[2]
      /\ c[1] # "peek" => LineOf(c) # Other(c)
  BY <1>2, <1>3, <1>5, EffectLines DEF LineOf
<1>7. LinesOk'
  <2>1. ASSUME NEW w \in WaitPoints
        PROVE  LineOk(w)'
    <3>1. LineOk(w) /\ StillOk(w) /\ AtLine(w, current) /\ (w # LineOf(c) => AtLine(w, NoReady))
      BY <1>2, <1>3, CallersStay DEF LinesOk, StillOk
    <3>2. /\ w # Other(c) \/ c[1] \notin {"send", "recv"} => Stock(w)' <= Stock(w)
          /\ w = LineOf(c) /\ c[1] # "peek" => Stock(w)' + 1 <= Stock(w)
          /\ Stock(w)' <= Stock(w) + 1
      BY <1>2, <1>3, EffectStock
    <3>3. CASE w = LineOf(c) /\ c[1] = "peek"
      BY <1>3, <1>6, <3>3 DEF LineOk
    <3>4. CASE w = LineOf(c) /\ c[1] # "peek"
      BY <1>2, <1>5, <1>6, <3>1, <3>2, <3>4, LineLeaves
    <3>5. CASE w # LineOf(c) /\ w = Other(c) /\ c[1] \in {"send", "recv"}
      BY <1>2, <1>6, <3>1, <3>2, <3>5, LinePops
    <3>6. CASE w # LineOf(c) /\ ~(w = Other(c) /\ c[1] \in {"send", "recv"})
      BY <1>2, <1>5, <1>6, <3>1, <3>2, <3>6, LineQuiet
    <3> QED BY <3>3, <3>4, <3>5, <3>6
  <2> QED BY <2>1 DEF LinesOk
<1>8. NoneDropped
  <2>1. ASSUME NEW w \in WaitPoints, NEW u \in Slots \ {current}, In(u, line[w]),
               state'[u] = "BLOCKED"
        PROVE  In(u, line'[w])
    <3>1. In(u, Left(c)[w])
      BY <1>2, <1>5, <2>1, WithoutLine DEF LineTypes, Singly
    <3> QED BY <1>2, <1>6, <2>1, <3>1, PopDropsNone
  <2> QED BY <2>1 DEF NoneDropped
<1>9. call'[current] \notin WaitCalls
  BY <1>4, CallKinds
<1> QED BY <1>2, <1>7, <1>8, <1>9, SleepersStay DEF CallsOf

\* lines in which nothing happens
LEMMA QuietLines ==
  ASSUME LineTypes, LineTypes', LinesOk, NEW p, CallsOf(WaitCalls), used' = used, lost \subseteq lost',
         UNCHANGED <<items, count>>,
         \A w \in WaitPoints : w # p => line'[w] = line[w] /\ AtLine(w, NoReady)
  PROVE  \A w \in WaitPoints : w # p => LineOk(w)'
<1> SUFFICES ASSUME NEW w \in WaitPoints, w # p
             PROVE  LineOk(w)'
  OBVIOUS
<1>1. LineOk(w) /\ StillOk(w)
  BY DEF LinesOk, StillOk
<1>2. Stock(w)' = Stock(w) /\ Stock(w) \in Nat
  BY RoomStock DEF Stock
<1>3. Stock(w)' <= Stock(w)
  BY <1>2
<1> QED BY <1>1, <1>3, LineQuiet

\* calls that come back without
LEMMA GiveUpLines ==
  ASSUME SyncTypes, Standing, LinesOk, LineSleepers, NEW c \in WaitCalls, GiveUp(c)
  PROVE  LinesOk' /\ LineSleepers'
<1>1. LineStep
  BY DEF LineStep
<1>2. /\ CallTypes /\ LineTypes /\ LineTypes' /\ CallsOf(WaitCalls) /\ used' = used
  BY <1>1, SyncParts, SyncPartsNext, LineStepTypes, LineStepCalls, LineStepUsed
<1>3. /\ line' = Left(c) /\ ~Room(c) /\ EndCall /\ current \in Slots /\ call[current] = c
      /\ lost' = lost /\ UNCHANGED <<items, count>>
  BY DEF GiveUp, Back, histVars
<1>4. call'[current] \notin WaitCalls
  BY <1>2, <1>3, CallKinds DEF EndCall, CallTypes
<1>5. /\ \A w \in WaitPoints : w # LineOf(c) => Left(c)[w] = line[w]
      /\ Left(c)[LineOf(c)] = Without(line[LineOf(c)], current)
      /\ LineOf(c) \in WaitPoints
  BY <1>2, LeftLine, WaitCallKinds
<1>6. \A w \in WaitPoints : w # LineOf(c) => line'[w] = line[w] /\ AtLine(w, NoReady)
  BY <1>2, <1>3, <1>5, CallersStay
<1>7. LineOk(LineOf(c))'
  <2> DEFINE w == LineOf(c)
  <2>1. w \in WaitPoints /\ line'[w] = Without(line[w], current)
    BY <1>3, <1>5
  <2>2. Stock(w)' = 0
    <3>1. Stock(w)' = Stock(w)
      BY <1>3 DEF Stock
    <3>2. Stock(w) \in Nat /\ ~(Stock(w) > 0)
      BY <1>2, <1>3, <1>5, RoomStock
    <3> QED BY <3>1, <3>2
  <2> HIDE DEF w
  <2>3. LineOk(w) /\ StillOk(w) /\ AtLine(w, current)
    BY <1>2, <1>3, <2>1, CallersStay DEF LinesOk, StillOk
  <2>4. LineOk(w)'
    BY <1>2, <2>1, <2>2, <2>3, LineLeaves
  <2> QED BY <2>4 DEF w
<1>8. LinesOk'
  <2>1. \A w \in WaitPoints : w # LineOf(c) => LineOk(w)'
    BY <1>2, <1>3, <1>6, QuietLines
  <2> QED BY <1>7, <2>1 DEF LinesOk
<1>9. NoneDropped
  BY <1>2, <1>3, <1>5, WithoutLine DEF NoneDropped, LineTypes, Singly
<1> QED BY <1>2, <1>4, <1>8, <1>9, SleepersStay DEF CallsOf

\* calls that wait, or wait once more
LEMMA WaitLines ==
  ASSUME SyncTypes, Standing, LiveCalls, LinesOk, LineSleepers, NEW c \in WaitCalls,
         Retry(c) \/ \E d \in Timeouts : Wait(c, d)
  PROVE  LinesOk' /\ LineSleepers'
<1>1. LineStep
  BY DEF LineStep
<1>2. /\ TaskTable /\ CallTypes /\ LineTypes /\ LineTypes' /\ CallsOf(WaitCalls) /\ used' = used
  BY <1>1, SyncParts, SyncPartsNext, LineStepTypes, LineStepCalls, LineStepUsed
<1> DEFINE p == LineOf(c)
           l == line[p]
<1>3. /\ p \in WaitPoints /\ p[2] = c[2] /\ c[2] \in Objects
  BY WaitCallKinds, ObjectCalls DEF LineOf
<1>4. l \in Lines /\ Distinct(l)
  BY <1>2, <1>3 DEF LineTypes, Singly
<1> DEFINE Waited ==
             /\ ~Room(c) /\ current \in Slots /\ lost' = lost /\ UNCHANGED <<items, count>>
             /\ call'[current] = c /\ current \notin stale' /\ c[2] \in used
             /\ call[current] = c \/ call[current] = Idle
             /\ \/ line' = [line EXCEPT ![p] = Join(l, current)]
                \/ line' = [line EXCEPT ![p] = Join(Without(l, current), current)]
<1>5. Waited
  <2>1. ASSUME Retry(c)
        PROVE  Waited
    <3>1. /\ UNCHANGED callVars /\ call[current] = c /\ current \in Slots /\ current \notin stale
          /\ ~Room(c) /\ lost' = lost /\ UNCHANGED <<items, count>>
          /\ line' = [line EXCEPT ![p] = Join(Without(l, current), current)]
      BY <2>1 DEF Retry, Back, histVars
    <3>2. c[2] \in used
      BY <1>3, <3>1 DEF LiveCalls, OnObject
    <3> QED BY <3>1, <3>2 DEF callVars
  <2>2. ASSUME NEW d \in Timeouts, Wait(c, d)
        PROVE  Waited
    <3>1. /\ StartCall(c, d) /\ call[current] = Idle /\ current \in Slots
          /\ ~Room(c) /\ lost' = lost /\ UNCHANGED <<items, count>> /\ c[2] \in used
          /\ line' = [line EXCEPT ![p] = Join(l, current)]
      BY <2>2 DEF Wait, InTask, histVars
    <3>2. current \notin stale
      BY <3>1, NotOnObjects DEF Standing, StaleCalls, OnObject
    <3>3. call'[current] = c /\ stale' = stale
      BY <1>2, <3>1 DEF StartCall, CallTypes
    <3> QED BY <3>1, <3>2, <3>3
  <2> QED BY <2>1, <2>2
<1>6. /\ \A w \in WaitPoints : w # p => line'[w] = line[w]
      /\ \A u : In(u, line'[p]) <=> In(u, l) \/ u = current
  <2>1. \A u : In(u, Join(l, current)) <=> In(u, l) \/ u = current
    BY <1>4, <1>5, JoinLine
  <2>2. \A u : In(u, Join(Without(l, current), current)) <=> In(u, l) \/ u = current
    <3>1. /\ Without(l, current) \in Lines /\ Distinct(Without(l, current))
          /\ \A u : In(u, Without(l, current)) <=> In(u, l) /\ u # current
      BY <1>4, WithoutLine
    <3> HIDE DEF l
    <3>2. \A u : In(u, Join(Without(l, current), current))
                   <=> In(u, Without(l, current)) \/ u = current
      BY <1>5, <3>1, JoinLine
    <3> QED BY <3>1, <3>2
  <2>3. line \in [WaitPoints -> Lines]
    BY <1>2 DEF LineTypes
  <2>4. \A w \in WaitPoints : w # p => line'[w] = line[w]
    BY <1>5, <2>3
  <2>5. line'[p] = Join(l, current) \/ line'[p] = Join(Without(l, current), current)
    BY <1>3, <1>5, <2>3
  <2> QED BY <2>1, <2>2, <2>4, <2>5
<1> HIDE DEF p, l
<1>7. \A w \in WaitPoints : w # p => line'[w] = line[w] /\ AtLine(w, NoReady)
  <2>1. \A w \in WaitPoints : LineOf(Idle) # w
    BY LineCallers DEF Calls
  <2> QED BY <1>2, <1>5, <1>6, <2>1, CallersStay DEF p
<1>8. LineOk(p)'
  <2>1. Stock(p)' = 0
    <3>1. Stock(p)' = Stock(p)
      BY <1>5 DEF Stock, p
    <3>2. Stock(p) \in Nat /\ ~(Stock(p) > 0)
      BY <1>2, <1>3, <1>5, RoomStock DEF p
    <3> QED BY <3>1, <3>2
  <2>2. LineOk(p) /\ StillOk(p) /\ AtLine(p, current)
    BY <1>2, <1>3, <1>5, CallersStay DEF LinesOk, StillOk
  <2>3. LineOf(call'[current]) = p
    BY <1>5 DEF p
  <2> QED BY <1>2, <1>3, <1>5, <1>6, <2>1, <2>2, <2>3, LineJoins DEF l
<1>9. LinesOk'
  <2>1. lost \subseteq lost'
    BY <1>5
  <2>2. \A w \in WaitPoints : w # p => LineOk(w)'
    BY <1>2, <1>5, <1>7, <2>1, QuietLines
  <2> QED BY <1>8, <2>2 DEF LinesOk
<1>10. NoneDropped
  BY <1>6 DEF NoneDropped, l
<1>11. \A u \in Slots : u = current => InLine(u)'
  BY <1>2, <1>3, <1>5, <1>6 DEF InLine, p
<1> QED BY <1>2, <1>9, <1>10, <1>11, SleepersStay DEF CallsOf

\* the other steps of queues and semaphores
LEMMA LineStepLines ==
  ASSUME SyncTypes, Standing, LiveCalls, LinesOk, LineSleepers, LineStep
  PROVE  LinesOk' /\ LineSleepers'
<1>1. /\ TaskTable /\ CallTypes /\ LineTypes /\ LineTypes' /\ RunningIsReady /\ Moves
      /\ CallsOf(WaitCalls) /\ used' = used /\ lost \subseteq lost'
  BY SyncParts, SyncPartsNext, LineStepTypes, LineStepCalls, LineStepUsed
<1>2. ASSUME Abort
      PROVE  LinesOk' /\ LineSleepers'
  <2>1. /\ EndCall /\ current \in Slots /\ current \in stale /\ UNCHANGED <<items, count, line>>
    BY <1>2 DEF Abort, objVars, queueVars
  <2>2. \A w \in WaitPoints : w # Idle => line'[w] = line[w] /\ AtLine(w, NoReady)
    BY <1>1, <2>1, CallersStay
  <2>3. \A w \in WaitPoints : w # Idle
    BY CallKinds, WaitCallKinds
  <2>4. LinesOk'
    <3>1. \A w \in WaitPoints : w # Idle => LineOk(w)'
      BY <1>1, <2>1, <2>2, QuietLines
    <3> QED BY <2>3, <3>1 DEF LinesOk
  <2>5. NoneDropped
    BY <2>1 DEF NoneDropped
  <2>6. call'[current] \notin WaitCalls
    BY <1>1, <2>1, CallKinds DEF EndCall, CallTypes
  <2> QED BY <1>1, <2>4, <2>5, <2>6, SleepersStay DEF CallsOf
<1>3. ASSUME UNCHANGED callVars, current' = current
      PROVE  /\ \A u \in Slots : Undisturbed(u) /\ (u = current => state'[u] # "BLOCKED")
             /\ \A w \in WaitPoints : AtLine(w, NoReady)
  <2>1. Eased
    BY <1>1, <1>3, GoesOn
  <2>2. \A u \in Slots : Undisturbed(u)
    BY <1>1, <1>3, <2>1 DEF callVars, Undisturbed, Eased, Steady
  <2> QED BY <1>1, <2>2 DEF Undisturbed, RunningIsReady, AtLine
<1>4. ASSUME NEW s \in Sems, Give(s)
      PROVE  LinesOk' /\ LineSleepers'
  <2> DEFINE p == <<"take", s>>
  <2>1. /\ UNCHANGED callVars /\ current' = current /\ lost' = lost /\ items' = items
        /\ count' = [count EXCEPT ![s] = @ + 1]
        /\ line' = [line EXCEPT ![p] = Popped(p)] /\ Wake(p)
    BY <1>4 DEF Give, otherVars
  <2>2. p \in WaitPoints /\ p[1] = "take" /\ p[2] = s
    BY DEF WaitPoints
  <2> HIDE DEF p
  <2>3. /\ \A w \in WaitPoints : w # p => line'[w] = line[w]
        /\ line'[p] = Popped(p)
    BY <1>1, <2>1, <2>2 DEF LineTypes
  <2>4. /\ \A w \in WaitPoints : w # p => Stock(w)' <= Stock(w)
        /\ Stock(p)' <= Stock(p) + 1
    <3>1. count \in [Sems -> Nat]
      BY <1>1 DEF LineTypes
    <3>2. Stock(p) = count[s] /\ Stock(p)' = count'[s]
      BY <2>2 DEF Stock
    <3>3. ASSUME NEW w \in WaitPoints, w # p
          PROVE  Stock(w)' = Stock(w)
      <4>1. w[1] = "take" => w[2] # s
        BY <3>3, PointKinds DEF p
      <4> QED BY <2>1, <3>1, <4>1 DEF Stock
    <3>4. \A w \in WaitPoints : Stock(w) \in Nat
      BY <1>1, RoomStock
    <3> QED BY <2>1, <3>1, <3>2, <3>3, <3>4
  <2>5. ASSUME NEW w \in WaitPoints
        PROVE  LineOk(w)'
    <3>1. LineOk(w) /\ StillOk(w) /\ AtLine(w, NoReady)
      BY <1>1, <1>3, <2>1 DEF LinesOk, StillOk
    <3>2. CASE w = p
      BY <1>1, <2>1, <2>2, <2>3, <2>4, <3>1, <3>2, LinePops
    <3>3. CASE w # p
      BY <1>1, <2>3, <2>4, <3>1, <3>3, LineQuiet
    <3> QED BY <3>2, <3>3
  <2>6. NoneDropped
    BY <1>1, <2>1, <2>2, <2>3, PopDropsNone DEF NoneDropped
  <2>7. LinesOk'
    BY <2>5 DEF LinesOk
  <2> QED BY <1>1, <1>3, <2>1, <2>6, <2>7, SleepersStay DEF CallsOf
<1>5. ASSUME NEW q \in Queues, QueueReset(q)
      PROVE  LinesOk' /\ LineSleepers'
  <2>1. /\ UNCHANGED callVars /\ current' = current /\ lost' = lost \cup {q} /\ line' = line
        /\ items' = [items EXCEPT ![q] = 0] /\ count' = count
    BY <1>5 DEF QueueReset, schedVars
  <2>2. ASSUME NEW w \in WaitPoints
        PROVE  LineOk(w)'
    <3>1. CASE w[2] = q
      BY <2>1, <3>1 DEF LineOk
    <3>2. CASE w[2] # q
      <4>1. LineOk(w) /\ StillOk(w) /\ AtLine(w, NoReady)
        BY <1>1, <1>3, <2>1 DEF LinesOk, StillOk
      <4>2. Stock(w)' = Stock(w) /\ Stock(w) \in Nat
        <5>1. items \in [Queues -> Nat] /\ Stock(w) \in Nat
          BY <1>1, RoomStock DEF LineTypes
        <5>2. w[1] # "take" => items'[w[2]] = items[w[2]]
          BY <2>1, <3>2, <5>1, PointKinds
        <5> QED BY <2>1, <5>1, <5>2 DEF Stock
      <4>3. Stock(w)' <= Stock(w)
        BY <4>2
      <4> QED BY <1>1, <2>1, <4>1, <4>3, LineQuiet
    <3> QED BY <3>1, <3>2
  <2>3. NoneDropped
    BY <2>1 DEF NoneDropped
  <2>4. LinesOk'
    BY <2>2 DEF LinesOk
  <2> QED BY <1>1, <1>3, <2>1, <2>3, <2>4, SleepersStay DEF CallsOf
<1>6. ASSUME NEW s \in Sems, GiveRefused(s)
      PROVE  LinesOk' /\ LineSleepers'
  <2>1. /\ UNCHANGED callVars /\ current' = current /\ lost' = lost
        /\ UNCHANGED <<items, count, line>>
    BY <1>6 DEF GiveRefused, schedVars, objVars, queueVars
  <2>2. \A w \in WaitPoints : w # Idle => LineOk(w)'
    BY <1>1, <1>3, <2>1, QuietLines
  <2>3. LinesOk'
    BY <2>2, CallKinds, WaitCallKinds DEF LinesOk
  <2>4. NoneDropped
    BY <2>1 DEF NoneDropped
  <2> QED BY <1>1, <1>3, <2>1, <2>3, <2>4, SleepersStay DEF CallsOf
<1> QED BY <1>2, <1>4, <1>5, <1>6, DoLines, SucceedLines, GiveUpLines, WaitLines
        DEF LineStep

\* the steps of the other calls leave lines alone
LEMMA OtherLines ==
  ASSUME CallTypes, LineTypes, LineTypes', LinesOk, LineSleepers,
         Aside(WaitCalls), Kept(WaitCalls), UNCHANGED queueVars, used' = used,
         lost \cap Objects \subseteq lost'
  PROVE  LinesOk' /\ LineSleepers'
<1>1. UNCHANGED <<items, count, line>>
  BY DEF queueVars
<1>2. ASSUME NEW w \in WaitPoints
      PROVE  LineOk(w)'
  <2>1. w[2] \in Objects
    BY PointKinds DEF Objects
  <2>2. LineOk(w) /\ StillOk(w)
    BY <2>1 DEF LinesOk, StillOk
  <2>3. w[2] \in used' \ lost' => AtLine(w, NoReady)
    <3>1. ASSUME NEW u \in Slots, LineOf(call[u]) = w, u \notin stale, w[2] \in used' \ lost'
          PROVE  Undisturbed(u)
      <4>1. call[u] \in WaitCalls /\ call[u][2] = w[2]
        BY <3>1, LineCallers DEF CallTypes
      <4> QED BY <3>1, <4>1 DEF Kept
    <3> QED BY <3>1 DEF AtLine
  <2>4. Stock(w)' = Stock(w) /\ Stock(w) \in Nat
    BY <1>1, RoomStock DEF Stock
  <2>5. Stock(w)' <= Stock(w)
    BY <2>4
  <2> QED BY <1>1, <2>2, <2>3, <2>5, LineQuiet
<1>3. LineSleepers'
  <2>1. ASSUME NEW t \in Slots, state'[t] = "BLOCKED", t \notin lost', call'[t] \in WaitCalls
        PROVE  InLine(t)'
    <3>1. Undisturbed(t)
      BY <2>1 DEF Aside
    <3> QED BY <1>1, <2>1, <3>1 DEF Undisturbed, LineSleepers, InLine
  <2> QED BY <2>1 DEF LineSleepers, WaitCalls, WaitPoints
<1> QED BY <1>2, <1>3 DEF LinesOk

-----------------------------------------------------------------------------
(* Objects come and go.                                                    *)

\* object o is created or deleted
ObjectChange(o) ==
  /\ used' \ {o} = used \ {o} /\ lost' \ {o} = lost \ {o}
  /\ UNCHANGED <<call, notify>>
  /\ \A u \in Slots : /\ state'[u] = "READY" \/ state'[u] = state[u]
                      /\ call[u][2] # o => Undisturbed(u)
  /\ \A w \in WaitPoints : w[2] # o => line'[w] = line[w] /\ Stock(w)' = Stock(w)
  /\ \A g \in Groups : g # o => gwait'[g] = gwait[g] /\ bits'[g] = bits[g]
  /\ \/ o \notin used' /\ lost' = lost /\ \A u \in ListedOn(o) : state'[u] # "BLOCKED"
     \/ /\ o \notin used
        /\ \A w \in WaitPoints : w[2] = o => line'[w] = <<>>
        /\ o \in Groups => gwait'[o] = <<>>

\* every such step is one of one object
LEMMA ObjectChanges ==
  ASSUME SyncTypes, ObjectStep
  PROVE  \E o \in Objects : ObjectChange(o)
<1>1. TaskTable /\ CallTypes /\ LineTypes /\ GroupTypes
  BY SyncParts
<1>2. ASSUME NEW o \in Objects, Exist(o), UNCHANGED <<schedVars, callVars, notify>>
      PROVE  /\ used' \ {o} = used \ {o} /\ lost' \ {o} = lost \ {o}
             /\ UNCHANGED <<call, notify>> /\ o \notin used
             /\ \A u \in Slots : state'[u] = state[u] /\ Undisturbed(u)
  <2>1. used' = used \cup {o} /\ lost' = lost \ {o} /\ o \notin used
    BY <1>2 DEF Exist
  <2>2. UNCHANGED <<call, stale, state>>
    BY <1>2 DEF callVars, schedVars
  <2>3. \A u \in Slots : u \in lost => u \in lost'
    BY <2>1, NotOnObjects
  <2> QED BY <1>2, <2>1, <2>2, <2>3 DEF Undisturbed
<1>3. ASSUME NEW q \in Queues, QueueCreate(q)
      PROVE  ObjectChange(q)
  <2>1. /\ Exist(q) /\ UNCHANGED <<schedVars, callVars, notify>> /\ UNCHANGED groupVars
        /\ items' = [items EXCEPT ![q] = 0] /\ count' = count
        /\ line' = [w \in WaitPoints |-> IF w[2] = q THEN <<>> ELSE line[w]]
    BY <1>3 DEF QueueCreate
  <2>2. \A w \in WaitPoints : w[2] # q => Stock(w)' = Stock(w)
    <3>1. ASSUME NEW w \in WaitPoints, w[2] # q
          PROVE  Stock(w)' = Stock(w)
      <4>1. w[1] # "take" => items'[w[2]] = items[w[2]]
        BY <1>1, <2>1, <3>1, PointKinds DEF LineTypes
      <4> QED BY <2>1, <4>1 DEF Stock
    <3> QED BY <3>1
  <2>3. q \in Objects /\ q \notin Groups
    BY ObjectAssumption DEF Objects
  <2> QED BY <1>2, <2>1, <2>2, <2>3 DEF ObjectChange, groupVars
<1>4. ASSUME NEW s \in Sems, SemCreate(s)
      PROVE  ObjectChange(s)
  <2>1. /\ Exist(s) /\ UNCHANGED <<schedVars, callVars, notify>> /\ UNCHANGED groupVars
        /\ count' = [count EXCEPT ![s] = IF s \in Mutexes THEN 1 ELSE 0] /\ items' = items
        /\ line' = [line EXCEPT ![<<"take", s>>] = <<>>]
    BY <1>4 DEF SemCreate
  <2>2. ASSUME NEW w \in WaitPoints
        PROVE  IF w[2] = s THEN line'[w] = <<>> ELSE line'[w] = line[w] /\ Stock(w)' = Stock(w)
    <3>1. line \in [WaitPoints -> Lines] /\ count \in [Sems -> Nat]
      BY <1>1 DEF LineTypes
    <3>2. CASE w[2] = s
      <4>1. w = <<"take", s>>
        BY <3>2, PointKinds, ObjectAssumption
      <4> QED BY <2>1, <3>1, <3>2, <4>1
    <3>3. CASE w[2] # s
      <4>1. w # <<"take", s>> /\ (w[1] = "take" => count'[w[2]] = count[w[2]])
        BY <2>1, <3>1, <3>3, PointKinds
      <4> QED BY <2>1, <3>1, <3>3, <4>1 DEF Stock
    <3> QED BY <3>2, <3>3
  <2>3. s \in Objects /\ s \notin Groups
    BY ObjectAssumption DEF Objects
  <2> QED BY <1>2, <2>1, <2>2, <2>3 DEF ObjectChange, groupVars
<1>5. ASSUME NEW g \in Groups, GroupCreate(g)
      PROVE  ObjectChange(g)
  <2>1. /\ Exist(g) /\ UNCHANGED <<schedVars, callVars, notify>> /\ UNCHANGED queueVars
        /\ bits' = [bits EXCEPT ![g] = {}] /\ gwait' = [gwait EXCEPT ![g] = <<>>]
    BY <1>5 DEF GroupCreate
  <2>2. \A w \in WaitPoints : w[2] # g /\ line'[w] = line[w] /\ Stock(w)' = Stock(w)
    BY <2>1, PointKinds, ObjectAssumption DEF Stock, queueVars
  <2>3. \A h \in Groups : IF h = g THEN gwait'[h] = <<>>
                          ELSE gwait'[h] = gwait[h] /\ bits'[h] = bits[h]
    BY <1>1, <2>1 DEF GroupTypes
  <2>4. g \in Objects
    BY DEF Objects
  <2> QED BY <1>2, <2>1, <2>2, <2>3, <2>4 DEF ObjectChange
<1>6. ASSUME NEW o \in Objects, Destroy(o)
      PROVE  ObjectChange(o)
  <2>1. /\ used' = used \ {o} /\ lost' = lost /\ UNCHANGED <<call, notify>>
        /\ stale' = stale \cup CallersOf(o) /\ ResumeAll(ListedOn(o))
        /\ UNCHANGED queueVars /\ UNCHANGED groupVars
    BY <1>6 DEF Destroy
  <2>2. \A u \in Slots : /\ state'[u] = "READY" \/ state'[u] = state[u]
                         /\ u \in ListedOn(o) => state'[u] # "BLOCKED"
    BY <2>1 DEF ResumeAll
  <2>3. \A u \in Slots : call[u][2] # o => (u \in stale' <=> u \in stale)
    BY <2>1 DEF CallersOf
  <2>4. \A w \in WaitPoints : line'[w] = line[w] /\ Stock(w)' = Stock(w)
    BY <2>1 DEF Stock, queueVars
  <2>5. ListedOn(o) \subseteq Slots
    BY DEF ListedOn
  <2> QED BY <2>1, <2>2, <2>3, <2>4, <2>5 DEF ObjectChange, Undisturbed, groupVars
<1> QED BY <1>3, <1>4, <1>5, <1>6 DEF ObjectStep, Objects

\* that leaves the other lines alone
LEMMA ObjectLines ==
  ASSUME CallTypes, LineTypes, LineTypes', LinesOk, LineSleepers,
         NEW o \in Objects, ObjectChange(o)
  PROVE  LinesOk' /\ LineSleepers'
<1>1. ASSUME NEW w \in WaitPoints, w[2] # o
      PROVE  LineOk(w)'
  <2>1. LineOk(w) /\ StillOk(w)
    BY <1>1 DEF LinesOk, StillOk, ObjectChange
  <2>2. AtLine(w, NoReady)
    <3>1. ASSUME NEW u \in Slots, LineOf(call[u]) = w
          PROVE  Undisturbed(u)
      <4>1. call[u][2] = w[2]
        BY <3>1, LineCallers DEF CallTypes
      <4> QED BY <1>1, <4>1 DEF ObjectChange
    <3> QED BY <3>1 DEF AtLine
  <2>3. Stock(w)' = Stock(w) /\ Stock(w) \in Nat /\ line'[w] = line[w]
    BY <1>1, RoomStock DEF ObjectChange
  <2>4. Stock(w)' <= Stock(w)
    BY <2>3
  <2> QED BY <2>1, <2>2, <2>3, <2>4, LineQuiet
<1>2. ASSUME NEW w \in WaitPoints, w[2] = o
      PROVE  LineOk(w)'
  <2>1. CASE o \notin used'
    BY <1>2, <2>1 DEF LineOk
  <2>2. CASE line'[w] = <<>>
    BY <2>2, EmptySeq DEF LineOk, Filed, Served, In
  <2> QED BY <1>2, <2>1, <2>2 DEF ObjectChange
<1>3. LineSleepers'
  <2>1. ASSUME NEW t \in Slots, state'[t] = "BLOCKED", t \notin lost', call'[t] \in WaitCalls
        PROVE  InLine(t)'
    <3>1. state[t] = "BLOCKED" /\ t \notin lost /\ call'[t] = call[t]
      BY <2>1, NotOnObjects DEF ObjectChange
    <3>2. InLine(t)
      BY <2>1, <3>1 DEF LineSleepers
    <3>3. LineOf(call[t]) \in WaitPoints /\ LineOf(call[t])[2] = call[t][2]
      BY <2>1, <3>1, WaitCallKinds DEF LineOf
    <3>4. call[t][2] # o
      <4>1. call[t][2] = o => o \in used /\ t \in ListedOn(o)
        BY <3>2, <3>3 DEF InLine, ListedOn
      <4> QED BY <2>1, <4>1 DEF ObjectChange
    <3>5. Undisturbed(t) /\ line'[LineOf(call[t])] = line[LineOf(call[t])]
          /\ (call[t][2] \in used' <=> call[t][2] \in used)
      BY <3>3, <3>4 DEF ObjectChange
    <3> QED BY <3>2, <3>5 DEF InLine, Undisturbed
  <2> QED BY <2>1 DEF LineSleepers, WaitCalls, WaitPoints
<1> QED BY <1>1, <1>2, <1>3 DEF LinesOk

\* and who stands there
LEMMA ObjectStands ==
  ASSUME CallTypes, CallTypes', Standing, daemon' = daemon, NEW o \in Objects, ObjectChange(o)
  PROVE  Standing'
<1>1. LiveStates'
  BY DEF Standing, LiveStates, ObjectChange, Waits, WaitCalls, WaitPoints, GroupCalls, NoteCalls, Idle
<1>2. StaleCalls'
  <2>1. ASSUME NEW t \in stale'
        PROVE  call'[t][2] \in Objects
    BY <2>1 DEF CallTypes, ObjectChange, Undisturbed, Standing, StaleCalls, OnObject
  <2> QED BY <2>1 DEF StaleCalls, OnObject, Objects
<1> QED BY <1>1, <1>2 DEF Standing, DaemonCall, ObjectChange

-----------------------------------------------------------------------------
(* Event groups: who is listed, and why it sleeps.                         *)

\* nobody is listed twice
NoTwins(l) == \A i, j \in DOMAIN l : l[i].task = l[j].task => i = j

\* an entry belongs to a caller that waits for just that; if it sleeps, rightly
EntryOk(g, e) ==
  /\ call[e.task] = <<"bits", g, e.need>> /\ e.task \notin stale
  /\ state[e.task] = "BLOCKED" /\ e.task \notin lost => ~e.woken /\ ~Met(bits[g], e.need)

GroupOk(g) ==
  g \in used \ lost =>
    NoTwins(gwait[g]) /\ \A i \in DOMAIN gwait[g] : EntryOk(g, gwait[g][i])

GroupsOk == \A g \in Groups : GroupOk(g)

Listed(t, l) == \E i \in DOMAIN l : l[i].task = t

\* t is where the next xEventGroupSetBits finds it
InGroup(t) == t \notin stale /\ call[t][2] \in used /\ Listed(t, gwait[call[t][2]])

GroupSleepers ==
  \A t \in Slots :
    state[t] = "BLOCKED" /\ t \notin lost /\ call[t] \in GroupCalls => InGroup(t)

\* who waits for group g and knows it to be there, except one
AtGroup(g, t) == \A u \in Slots \ {t} :
                   call[u] \in GroupCalls /\ call[u][2] = g /\ u \notin stale => Undisturbed(u)

\* fewer bits satisfy fewer
LEMMA FewerBits ==
  ASSUME NEW a, NEW b, a \subseteq b, NEW n, Met(a, n)
  PROVE  Met(b, n)
BY DEF Met

\* the entries are of tasks
LEMMA EntryTypes ==
  ASSUME GroupTypes, NEW g \in Groups
  PROVE  /\ gwait[g] \in WaiterLists
         /\ \A i \in DOMAIN gwait[g] : gwait[g][i].task \in Slots /\ gwait[g][i].need \in Needs
         /\ \A n \in Needs : <<"bits", g, n>> \in GroupCalls /\ <<"bits", g, n>>[2] = g
<1>1. gwait[g] \in WaiterLists
  BY DEF GroupTypes
<1>2. \A i \in DOMAIN gwait[g] : gwait[g][i] \in Waiters
  BY <1>1, LineIsSeq
<1> QED BY <1>1, <1>2 DEF Waiters, GroupCalls

\* an entry stays right as long as its task is left alone and no bit is set
LEMMA EntryStays ==
  ASSUME NEW g \in Groups, NEW e, EntryOk(g, e), Undisturbed(e.task), bits'[g] \subseteq bits[g]
  PROVE  EntryOk(g, e)'
BY FewerBits DEF EntryOk, Undisturbed

\* nothing happens in a group, or bits are cleared
LEMMA GroupQuiet ==
  ASSUME GroupTypes, NEW g \in Groups, GroupOk(g), g \in used' \ lost' => g \in used \ lost,
         g \in used' \ lost' => AtGroup(g, NoReady), gwait'[g] = gwait[g], bits'[g] \subseteq bits[g]
  PROVE  GroupOk(g)'
<1> SUFFICES ASSUME g \in used' \ lost'
             PROVE  NoTwins(gwait'[g]) /\ \A i \in DOMAIN gwait'[g] : EntryOk(g, gwait[g][i])'
  BY DEF GroupOk, EntryOk
<1>1. NoTwins(gwait[g]) /\ \A i \in DOMAIN gwait[g] : EntryOk(g, gwait[g][i])
  BY DEF GroupOk
<1>2. ASSUME NEW e, EntryOk(g, e), e.task \in Slots, e.need \in Needs
      PROVE  EntryOk(g, e)'
  <2>1. Undisturbed(e.task)
    <3>1. AtGroup(g, NoReady)
      OBVIOUS
    <3>2. /\ call[e.task] \in GroupCalls /\ call[e.task][2] = g /\ e.task \notin stale
          /\ e.task # NoReady
      BY <1>2, EntryTypes DEF EntryOk, NoReady, Slots
    <3> QED BY <1>2, <3>1, <3>2 DEF AtGroup
  <2> QED BY <1>2, <2>1, EntryStays
<1>3. \A i \in DOMAIN gwait[g] : EntryOk(g, gwait[g][i])'
  BY <1>1, <1>2, EntryTypes DEF EntryOk
<1> QED BY <1>1, <1>3

\* an entry that is taken out of a list
LEMMA EntryRemoved ==
  ASSUME NEW l \in WaiterLists, NEW k \in DOMAIN l
  PROVE  /\ \A j \in DOMAIN RemoveAt(l, k) : \E i \in DOMAIN l : i # k /\ RemoveAt(l, k)[j] = l[i]
         /\ \A t : Listed(t, l) /\ t # l[k].task => Listed(t, RemoveAt(l, k))
         /\ NoTwins(l) => NoTwins(RemoveAt(l, k))
<1>1. /\ l \in Seq(Waiters) /\ Len(l) \in Nat /\ DOMAIN l = 1 .. Len(l) /\ k \in 1 .. Len(l)
  BY LineIsSeq
<1> DEFINE r == RemoveAt(l, k)
<1>2. /\ r \in Seq(Waiters) /\ Len(r) = Len(l) - 1
      /\ \A j \in 1 .. Len(l) - 1 : r[j] = IF j < k THEN l[j] ELSE l[j + 1]
  BY <1>1, Removed
<1>3. DOMAIN r = 1 .. Len(l) - 1
  BY <1>2, LenProperties
<1> HIDE DEF r
<1>4. \A j \in DOMAIN r : /\ j < k => j \in DOMAIN l /\ j # k /\ r[j] = l[j]
                          /\ ~(j < k) => j + 1 \in DOMAIN l /\ j + 1 # k /\ r[j] = l[j + 1]
  BY <1>1, <1>2, <1>3
<1>5. \A j \in DOMAIN r : \E i \in DOMAIN l : i # k /\ r[j] = l[i]
  BY <1>4
<1>6. ASSUME NEW i \in DOMAIN l, i # k
      PROVE  \E j \in DOMAIN r : r[j] = l[i]
  <2>1. CASE i < k
    <3>1. i \in DOMAIN r
      BY <1>1, <1>3, <2>1
    <3> QED BY <1>4, <2>1, <3>1
  <2>2. CASE ~(i < k)
    <3>1. i - 1 \in DOMAIN r /\ ~(i - 1 < k) /\ (i - 1) + 1 = i
      BY <1>1, <1>3, <1>6, <2>2
    <3> QED BY <1>4, <3>1
  <2> QED BY <2>1, <2>2
<1>7. \A t : Listed(t, l) /\ t # l[k].task => Listed(t, r)
  BY <1>6 DEF Listed
<1>8. ASSUME NoTwins(l)
      PROVE  NoTwins(r)
  <2> SUFFICES ASSUME NEW i \in DOMAIN r, NEW j \in DOMAIN r, r[i].task = r[j].task
               PROVE  i = j
    BY DEF NoTwins
  <2>1. i \in Int /\ j \in Int /\ k \in Int
    BY <1>1, <1>3
  <2>2. CASE i < k /\ j < k
    BY <1>4, <1>8, <2>2 DEF NoTwins
  <2>3. CASE ~(i < k) /\ ~(j < k)
    <3>1. i + 1 = j + 1
      BY <1>4, <1>8, <2>3 DEF NoTwins
    <3> QED BY <2>1, <3>1
  <2>4. CASE i < k /\ ~(j < k)
    <3>1. i = j + 1
      BY <1>4, <1>8, <2>4 DEF NoTwins
    <3> QED BY <2>1, <2>4, <3>1
  <2>5. CASE ~(i < k) /\ j < k
    <3>1. i + 1 = j
      BY <1>4, <1>8, <2>5 DEF NoTwins
    <3> QED BY <2>1, <2>5, <3>1
  <2> QED BY <2>2, <2>3, <2>4, <2>5
<1> QED BY <1>5, <1>7, <1>8 DEF r

\* the calls of other kinds leave groups alone
LEMMA OtherGroups ==
  ASSUME CallTypes, GroupTypes, GroupsOk, GroupSleepers,
         Aside(GroupCalls), Kept(GroupCalls), UNCHANGED groupVars, used' = used,
         lost \cap Objects \subseteq lost'
  PROVE  GroupsOk' /\ GroupSleepers'
<1>1. UNCHANGED <<bits, gwait>>
  BY DEF groupVars
<1>2. ASSUME NEW g \in Groups
      PROVE  GroupOk(g)'
  <2>1. GroupOk(g) /\ (g \in used' \ lost' => g \in used \ lost)
    BY DEF GroupsOk, Objects
  <2>2. g \in used' \ lost' => AtGroup(g, NoReady)
    BY DEF AtGroup, Kept
  <2> QED BY <1>1, <2>1, <2>2, GroupQuiet
<1>3. GroupSleepers'
  <2>1. ASSUME NEW t \in Slots, state'[t] = "BLOCKED", t \notin lost', call'[t] \in GroupCalls
        PROVE  InGroup(t)'
    <3>1. Undisturbed(t)
      BY <2>1 DEF Aside
    <3> QED BY <1>1, <2>1, <3>1 DEF Undisturbed, GroupSleepers, InGroup
  <2> QED BY <2>1 DEF GroupSleepers, GroupCalls
<1> QED BY <1>2, <1>3 DEF GroupsOk

\* objects come and go
LEMMA ObjectGroups ==
  ASSUME CallTypes, GroupTypes, GroupsOk, GroupSleepers, NEW o \in Objects, ObjectChange(o)
  PROVE  GroupsOk' /\ GroupSleepers'
<1>1. ASSUME NEW g \in Groups, g # o
      PROVE  GroupOk(g)'
  <2>1. GroupOk(g) /\ (g \in used' \ lost' => g \in used \ lost)
    BY <1>1 DEF GroupsOk, ObjectChange
  <2>2. AtGroup(g, NoReady) /\ gwait'[g] = gwait[g] /\ bits'[g] = bits[g]
    BY <1>1 DEF AtGroup, ObjectChange
  <2> QED BY <2>1, <2>2, GroupQuiet
<1>2. ASSUME o \in Groups
      PROVE  GroupOk(o)'
  <2>1. CASE o \notin used'
    BY <2>1 DEF GroupOk
  <2>2. CASE gwait'[o] = <<>>
    BY <2>2, EmptySeq DEF GroupOk, NoTwins
  <2> QED BY <1>2, <2>1, <2>2 DEF ObjectChange
<1>3. GroupSleepers'
  <2>1. ASSUME NEW t \in Slots, state'[t] = "BLOCKED", t \notin lost', call'[t] \in GroupCalls
        PROVE  InGroup(t)'
    <3>1. state[t] = "BLOCKED" /\ t \notin lost /\ call'[t] = call[t]
      BY <2>1, NotOnObjects DEF ObjectChange
    <3>2. InGroup(t)
      BY <2>1, <3>1 DEF GroupSleepers
    <3>3. call[t][2] \in Groups
      BY <2>1, <3>1, CallKinds
    <3>4. call[t][2] # o
      <4>1. call[t][2] = o => o \in used /\ t \in ListedOn(o)
        BY <3>2, <3>3 DEF InGroup, Listed, ListedOn
      <4> QED BY <2>1, <4>1 DEF ObjectChange
    <3>5. Undisturbed(t) /\ gwait'[call[t][2]] = gwait[call[t][2]]
          /\ (call[t][2] \in used' <=> call[t][2] \in used)
      BY <3>3, <3>4 DEF ObjectChange
    <3> QED BY <3>2, <3>5 DEF InGroup, Undisturbed
  <2> QED BY <2>1 DEF GroupSleepers, GroupCalls
<1> QED BY <1>1, <1>2, <1>3 DEF GroupsOk

-----------------------------------------------------------------------------
(* The steps of event groups.                                              *)

\* a group in which nothing happens
LEMMA QuietGroups ==
  ASSUME GroupTypes, GroupsOk, NEW p, used' = used, lost \subseteq lost',
         \A g \in Groups : g # p => /\ gwait'[g] = gwait[g] /\ bits'[g] = bits[g]
                                    /\ AtGroup(g, NoReady)
  PROVE  \A g \in Groups : g # p => GroupOk(g)'
<1> SUFFICES ASSUME NEW g \in Groups, g # p
             PROVE  GroupOk(g)'
  OBVIOUS
<1>1. GroupOk(g) /\ (g \in used' \ lost' => g \in used \ lost)
  BY DEF GroupsOk
<1> QED BY <1>1, GroupQuiet

\* such a step keeps the sleepers, if the caller is listed when it blocks
LEMMA ListedStay ==
  ASSUME SyncTypes, GroupSleepers, OthersStay, used' = used,
         \A g \in Groups : \A u \in Slots \ {current} :
           Listed(u, gwait[g]) => Listed(u, gwait'[g]),
         \A u \in Slots : u = current /\ state'[u] = "BLOCKED" /\ u \notin lost'
                            /\ call'[u] \in GroupCalls => InGroup(u)'
  PROVE  GroupSleepers'
<1> SUFFICES ASSUME NEW t \in Slots, state'[t] = "BLOCKED", t \notin lost',
                    call'[t] \in GroupCalls
             PROVE  InGroup(t)'
  BY DEF GroupSleepers, GroupCalls
<1>1. CASE t # current
  <2>1. Undisturbed(t)
    BY <1>1 DEF OthersStay
  <2>2. InGroup(t) /\ call'[t] = call[t] /\ (t \in stale' <=> t \in stale)
    BY <2>1 DEF Undisturbed, GroupSleepers
  <2>3. call[t][2] \in Groups
    BY <2>2, CallKinds
  <2> QED BY <1>1, <2>2, <2>3 DEF InGroup
<1>2. CASE t = current
  BY <1>2
<1> QED BY <1>1, <1>2

\* the caller goes on at once, and takes its bits or clears some
LEMMA BitsClear ==
  ASSUME SyncTypes, GroupsOk, GroupSleepers, NEW g \in Groups,
         (\E n \in Needs : BitsDo(g, n)) \/ (\E b \in Bits : ClearBits(g, {b}))
  PROVE  GroupsOk' /\ GroupSleepers'
<1>1. GroupTypes /\ RunningIsReady
  BY SyncParts
<1>2. /\ UNCHANGED schedVars /\ UNCHANGED callVars /\ lost' = lost /\ used' = used /\ gwait' = gwait
      /\ \E b : bits' = [bits EXCEPT ![g] = b] /\ b \subseteq bits[g]
  BY DEF BitsDo, ClearBits, Taken, histVars
<1>3. \A u \in Slots : Undisturbed(u) /\ state'[u] = state[u]
  BY <1>2 DEF schedVars, callVars, Undisturbed
<1>4. ASSUME NEW h \in Groups
      PROVE  GroupOk(h)'
  <2>1. GroupOk(h) /\ (h \in used' \ lost' => h \in used \ lost) /\ AtGroup(h, NoReady)
    BY <1>2, <1>3 DEF GroupsOk, AtGroup
  <2>2. bits'[h] \subseteq bits[h]
    BY <1>1, <1>2 DEF GroupTypes
  <2> QED BY <1>1, <1>2, <2>1, <2>2, GroupQuiet
<1>5. GroupSleepers'
  BY <1>1, <1>2, <1>3, ListedStay DEF OthersStay, RunningIsReady
<1> QED BY <1>4, <1>5 DEF GroupsOk

\* the caller returns and takes its entry along
LEMMA BitsBack ==
  ASSUME SyncTypes, GroupsOk, GroupSleepers, NEW g \in Groups, NEW n \in Needs, BitsReturn(g, n)
  PROVE  GroupsOk' /\ GroupSleepers'
<1>1. GroupTypes /\ CallTypes /\ RunningIsReady
  BY SyncParts
<1>2. CallsOf(GroupCalls)
  BY GroupStepCalls DEF GroupStep
<1> DEFINE k == CHOOSE i \in FirstOfMine(g) : TRUE
           l == gwait[g]
           new == IF MineIn(g) = {} THEN l ELSE RemoveAt(l, k)
<1>3. /\ EndCall /\ current \in Slots /\ call[current] = <<"bits", g, n>>
      /\ used' = used /\ lost' = lost
  BY DEF BitsReturn, Back, histVars
<1>4. gwait' = [gwait EXCEPT ![g] = new]
  BY DEF BitsReturn, FirstOfMine, MineIn
<1>5. \E b : bits' = [bits EXCEPT ![g] = b] /\ b \subseteq bits[g]
  BY DEF BitsReturn, Taken
<1>6. l \in WaiterLists
  BY <1>1 DEF GroupTypes
<1>7. MineIn(g) # {} => k \in DOMAIN l /\ l[k].task = current
  <2>1. MineIn(g) # {} => k \in MineIn(g)
    BY <1>6, FirstMine
  <2> QED BY <2>1 DEF MineIn
<1>8. MineIn(g) = {} => \A i \in DOMAIN l : l[i].task # current
  BY DEF MineIn
<1> HIDE DEF k, l
<1>9. /\ NoTwins(l) => /\ NoTwins(new)
                       /\ \A j \in DOMAIN new : new[j].task # current
      /\ \A j \in DOMAIN new : \E i \in DOMAIN l : new[j] = l[i]
      /\ \A u \in Slots \ {current} : Listed(u, l) => Listed(u, new)
  <2>1. CASE MineIn(g) = {}
    BY <1>8, <2>1
  <2>2. CASE MineIn(g) # {}
    <3>1. k \in DOMAIN l /\ l[k].task = current /\ new = RemoveAt(l, k)
      BY <1>7, <2>2
    <3> HIDE DEF new
    <3>2. /\ \A j \in DOMAIN new : \E i \in DOMAIN l : i # k /\ new[j] = l[i]
          /\ \A t : Listed(t, l) /\ t # l[k].task => Listed(t, new)
          /\ NoTwins(l) => NoTwins(new)
      BY <1>6, <3>1, EntryRemoved
    <3>3. NoTwins(l) => \A i \in DOMAIN l : i # k => l[i].task # current
      BY <3>1 DEF NoTwins
    <3> QED BY <3>1, <3>2, <3>3
  <2> QED BY <2>1, <2>2
<1> HIDE DEF new
<1>10. /\ gwait'[g] = new /\ bits'[g] \subseteq bits[g]
       /\ \A h \in Groups : h # g => gwait'[h] = gwait[h] /\ bits'[h] = bits[h]
  BY <1>1, <1>4, <1>5 DEF GroupTypes
<1>11. \A h \in Groups : h # g => AtGroup(h, NoReady)
  <2>1. call[current][2] = g
    BY <1>3
  <2> QED BY <1>2, <2>1 DEF CallsOf, OthersStay, AtGroup
<1>12. GroupOk(g)'
  <2> SUFFICES ASSUME g \in used' \ lost'
               PROVE  NoTwins(gwait'[g]) /\ \A i \in DOMAIN gwait'[g] : EntryOk(g, gwait[g][i])'
    BY DEF GroupOk, EntryOk
  <2>1. NoTwins(l) /\ \A i \in DOMAIN l : EntryOk(g, l[i])
    BY <1>3 DEF GroupsOk, GroupOk, l
  <2>2. ASSUME NEW e, EntryOk(g, e), e.task \in Slots, e.task # current
        PROVE  EntryOk(g, e)'
    <3>1. Undisturbed(e.task)
      BY <1>2, <2>2 DEF CallsOf, OthersStay
    <3> QED BY <1>10, <2>2, <3>1, EntryStays
  <2>3. \A j \in DOMAIN new : EntryOk(g, new[j]) /\ new[j].task \in Slots /\ new[j].task # current
    <3>1. \A i \in DOMAIN l : l[i].task \in Slots
      BY <1>1, EntryTypes DEF l
    <3> QED BY <1>9, <2>1, <3>1
  <2>4. \A j \in DOMAIN new : EntryOk(g, gwait[g][j])'
    BY <1>10, <2>2, <2>3 DEF EntryOk
  <2> QED BY <1>9, <1>10, <2>1, <2>4
<1>13. GroupsOk'
  <2>1. \A h \in Groups : h # g => GroupOk(h)'
    BY <1>1, <1>3, <1>10, <1>11, QuietGroups
  <2> QED BY <1>12, <2>1 DEF GroupsOk
<1>14. call'[current] \notin GroupCalls
  BY <1>1, <1>3, CallKinds DEF EndCall, CallTypes
<1>15. \A h \in Groups : \A u \in Slots \ {current} : Listed(u, gwait[h]) => Listed(u, gwait'[h])
  BY <1>9, <1>10 DEF l
<1>16. GroupSleepers'
  BY <1>2, <1>3, <1>14, <1>15, ListedStay DEF CallsOf
<1> QED BY <1>13, <1>16

\* the caller has to wait, and is listed if there is room
LEMMA BitsBlock ==
  ASSUME SyncTypes, Standing, GroupsOk, GroupSleepers, NEW g \in Groups, NEW n \in Needs,
         NEW d \in Timeouts, BitsWait(g, n, d)
  PROVE  GroupsOk' /\ GroupSleepers'
<1>1. GroupTypes /\ CallTypes /\ RunningIsReady
  BY SyncParts
<1>2. CallsOf(GroupCalls) /\ lost \subseteq lost'
  BY GroupStepCalls DEF GroupStep
<1> DEFINE l == gwait[g]
           e == [task |-> current, need |-> n, woken |-> FALSE]
           new == IF Len(l) >= N THEN l ELSE Append(l, e)
<1>3. /\ current \in Slots /\ call[current] = Idle /\ StartCall(<<"bits", g, n>>, d)
      /\ g \in used /\ used' = used /\ bits' = bits /\ ~Met(bits[g], n)
      /\ lost' = IF Len(l) >= N THEN lost \cup {current} ELSE lost
      /\ gwait' = [gwait EXCEPT ![g] = new]
  BY DEF BitsWait, InTask
<1>4. /\ call'[current] = <<"bits", g, n>> /\ stale' = stale
      /\ \A u \in Slots : u # current => call'[u] = call[u]
  BY <1>1, <1>3 DEF StartCall, CallTypes
<1>5. current \notin stale
  BY <1>3, NotOnObjects DEF Standing, StaleCalls, OnObject
<1>6. l \in Seq(Waiters) /\ Len(l) \in Nat /\ DOMAIN l = 1 .. Len(l) /\ e \in Waiters
  BY <1>1, <1>3, LineIsSeq DEF GroupTypes, Waiters
<1>7. /\ e.task = current /\ e.need = n /\ ~e.woken
  OBVIOUS
<1> DEFINE k == Len(l)
<1> HIDE DEF e, l
<1>0. k \in Nat /\ N \in Nat /\ (k >= N <=> ~(k < N))
  <2>1. k \in Nat
    BY <1>6
  <2> HIDE DEF k
  <2> QED BY <2>1
<1>8. Len(l) < N => /\ new = Append(l, e) /\ DOMAIN new = 1 .. Len(l) + 1
                    /\ \A i \in DOMAIN l : i \in DOMAIN new /\ new[i] = l[i]
                    /\ Len(l) + 1 \in DOMAIN new /\ new[Len(l) + 1] = e
                    /\ \A i \in DOMAIN new : i \in DOMAIN l \/ i = Len(l) + 1
  <2> SUFFICES ASSUME Len(l) < N
               PROVE  /\ new = Append(l, e) /\ DOMAIN new = 1 .. Len(l) + 1
                      /\ \A i \in DOMAIN l : i \in DOMAIN new /\ new[i] = l[i]
                      /\ Len(l) + 1 \in DOMAIN new /\ new[Len(l) + 1] = e
                      /\ \A i \in DOMAIN new : i \in DOMAIN l \/ i = Len(l) + 1
    OBVIOUS
  <2>1. new = Append(l, e)
    BY <1>0
  <2>2. Append(l, e) \in Seq(Waiters) /\ Len(Append(l, e)) = Len(l) + 1
        /\ (\A i \in 1 .. Len(l) : Append(l, e)[i] = l[i]) /\ Append(l, e)[Len(l) + 1] = e
    BY <1>6, AppendProperties
  <2>3. DOMAIN Append(l, e) = 1 .. Len(l) + 1
    BY <2>2, LenProperties
  <2>4. /\ Len(l) + 1 \in 1 .. Len(l) + 1
        /\ \A i \in 1 .. Len(l) : i \in 1 .. Len(l) + 1
        /\ \A i \in 1 .. Len(l) + 1 : i \in 1 .. Len(l) \/ i = Len(l) + 1
    <3> HIDE DEF k
    <3>1. /\ k + 1 \in 1 .. k + 1
          /\ \A i \in 1 .. k : i \in 1 .. k + 1
          /\ \A i \in 1 .. k + 1 : i \in 1 .. k \/ i = k + 1
      BY <1>0
    <3> QED BY <3>1 DEF k
  <2>5. DOMAIN l = 1 .. Len(l)
    BY <1>6
  <2> HIDE DEF new
  <2>6. DOMAIN new = 1 .. Len(l) + 1
    BY <2>1, <2>3
  <2> QED BY <2>1, <2>2, <2>4, <2>5, <2>6
<1>9. ~(Len(l) < N) => new = l /\ current \in lost'
  BY <1>0, <1>3
<1> HIDE DEF new
<1>10. /\ gwait'[g] = new
       /\ \A h \in Groups : h # g => gwait'[h] = gwait[h]
  BY <1>1, <1>3 DEF GroupTypes
<1>11. \A h \in Groups : AtGroup(h, NoReady)
  <2>1. call[current] \notin GroupCalls
    BY <1>3, CallKinds
  <2> QED BY <1>2, <2>1 DEF CallsOf, OthersStay, AtGroup
<1>12. GroupOk(g)'
  <2>1. GroupOk(g) /\ (g \in used' \ lost' => g \in used \ lost)
    BY <1>2, <1>3 DEF GroupsOk
  <2>2. CASE ~(Len(l) < N)
    BY <1>1, <1>3, <1>9, <1>10, <1>11, <2>1, <2>2, GroupQuiet DEF l
  <2>3. CASE Len(l) < N
    <3> SUFFICES ASSUME g \in used' \ lost'
                 PROVE  NoTwins(gwait'[g]) /\ \A i \in DOMAIN gwait'[g] : EntryOk(g, gwait[g][i])'
      BY DEF GroupOk, EntryOk
    <3>1. NoTwins(l) /\ \A i \in DOMAIN l : EntryOk(g, l[i])
      BY <2>1 DEF GroupOk, l
    <3>2. \A i \in DOMAIN l : l[i].task # current /\ l[i].task \in Slots /\ l[i].need \in Needs
      <4>1. \A i \in DOMAIN l : l[i].task \in Slots /\ l[i].need \in Needs
        BY <1>1, EntryTypes DEF l
      <4>2. ASSUME NEW i \in DOMAIN l
            PROVE  call[l[i].task] # Idle
        <5>1. call[l[i].task] = <<"bits", g, l[i].need>> /\ l[i].need \in Needs
          BY <3>1, <4>1, <4>2 DEF EntryOk
        <5>2. call[l[i].task] \in GroupCalls
          BY <5>1 DEF GroupCalls
        <5> QED BY <5>2, CallKinds
      <4> QED BY <1>3, <4>1, <4>2
    <3>3. ASSUME NEW x, EntryOk(g, x), x.task \in Slots, x.task # current
          PROVE  EntryOk(g, x)'
      <4>1. Undisturbed(x.task)
        BY <1>2, <3>3 DEF CallsOf, OthersStay
      <4> QED BY <1>3, <3>3, <4>1, EntryStays
    <3>4. ASSUME NEW x, x.task = current, x.need = n, ~x.woken
          PROVE  EntryOk(g, x)'
      BY <1>3, <1>4, <1>5, <3>4 DEF EntryOk
    <3>5. \A i \in DOMAIN new : EntryOk(g, gwait[g][i])'
      <4>1. ASSUME NEW i \in DOMAIN new
            PROVE  \/ EntryOk(g, new[i]) /\ new[i].task \in Slots /\ new[i].task # current
                   \/ new[i].task = current /\ new[i].need = n /\ ~new[i].woken
        BY <1>7, <1>8, <2>3, <3>1, <3>2
      <4> QED BY <1>10, <3>3, <3>4, <4>1 DEF EntryOk
    <3>6. NoTwins(new)
      <4>1. \A i \in DOMAIN l : i # Len(l) + 1
        BY <1>6
      <4> QED BY <1>7, <1>8, <2>3, <3>1, <3>2, <4>1 DEF NoTwins
    <3> QED BY <1>10, <3>5, <3>6
  <2> QED BY <2>2, <2>3
<1>13. GroupsOk'
  <2>1. \A h \in Groups : h # g => GroupOk(h)'
    BY <1>1, <1>2, <1>3, <1>10, <1>11, QuietGroups
  <2> QED BY <1>12, <2>1 DEF GroupsOk
<1>14. \A h \in Groups : \A u \in Slots \ {current} : Listed(u, gwait[h]) => Listed(u, gwait'[h])
  BY <1>8, <1>9, <1>10 DEF Listed, l
<1>15. \A u \in Slots : u = current /\ u \notin lost' => InGroup(u)'
  <2>1. ASSUME NEW u \in Slots, u = current, u \notin lost'
        PROVE  InGroup(u)'
    <3>1. call'[u] = <<"bits", g, n>> /\ u \notin stale' /\ g \in used'
      BY <1>3, <1>4, <1>5, <2>1
    <3>2. Len(l) < N
      BY <1>9, <2>1
    <3>3. Listed(u, gwait'[g])
      BY <1>7, <1>8, <1>10, <2>1, <3>2 DEF Listed
    <3> QED BY <3>1, <3>3 DEF InGroup
  <2> QED BY <2>1
<1>16. GroupSleepers'
  BY <1>2, <1>3, <1>14, <1>15, ListedStay DEF CallsOf
<1> QED BY <1>13, <1>16

\* bits are set: who sleeps on has not got enough yet
LEMMA BitsSet ==
  ASSUME SyncTypes, GroupsOk, GroupSleepers, NEW g \in Groups, NEW b \in Bits, SetBits(g, {b})
  PROVE  GroupsOk' /\ GroupSleepers'
<1>1. GroupTypes /\ CallTypes /\ RunningIsReady /\ TaskTable
  BY SyncParts
<1>2. CallsOf(GroupCalls)
  BY GroupStepCalls DEF GroupStep
<1> DEFINE have == bits[g] \cup {b}
           match == Matching(g, have)
           l == gwait[g]
           new == [i \in DOMAIN l |-> [l[i] EXCEPT !.woken = @ \/ i \in match]]
<1>3. /\ UNCHANGED callVars /\ lost' = lost /\ used' = used
      /\ ResumeAll({l[i].task : i \in match})
  BY DEF SetBits, histVars
<1>4. gwait' = [gwait EXCEPT ![g] = new]
  BY DEF SetBits
<1>5. \E c : bits' = [bits EXCEPT ![g] = c] /\ c \subseteq have
  BY DEF SetBits
<1>6. l \in WaiterLists
  BY <1>1 DEF GroupTypes
<1>7. ASSUME NEW i \in DOMAIN l
      PROVE  /\ new[i].task = l[i].task /\ new[i].need = l[i].need
             /\ i \notin match => (new[i].woken <=> l[i].woken)
             /\ i \notin match => ~Met(have, l[i].need)
             /\ i \in match => state'[l[i].task] # "BLOCKED"
             /\ l[i].task \in Slots
  <2>1. l[i] \in [task : Slots, need : Needs, woken : BOOLEAN]
    BY <1>6, <1>7, LineIsSeq DEF Waiters
  <2>2. i \notin match => ~Met(have, l[i].need)
    BY <1>7 DEF Matching
  <2>3. i \in match => state'[l[i].task] # "BLOCKED"
    <3>1. i \in match => l[i].task \in {l[j].task : j \in match}
      OBVIOUS
    <3> HIDE DEF match, l
    <3>2. \A ts : ResumeAll(ts) => \A t \in Slots : t \in ts => state'[t] # "BLOCKED"
      BY DEF ResumeAll
    <3> QED BY <1>3, <2>1, <3>1, <3>2
  <2> HIDE DEF match, l
  <2> QED BY <1>7, <2>1, <2>2, <2>3
<1>8. DOMAIN new = DOMAIN l
  OBVIOUS
<1>9. /\ gwait'[g] = new /\ bits'[g] \subseteq have
      /\ \A h \in Groups : h # g => gwait'[h] = gwait[h] /\ bits'[h] = bits[h]
  BY <1>1, <1>4, <1>5 DEF GroupTypes
<1> HIDE DEF new, match
<1>10. \A u \in Slots : Undisturbed(u)
  BY <1>3 DEF callVars, Undisturbed, ResumeAll
<1>11. GroupOk(g)'
  <2> SUFFICES ASSUME g \in used' \ lost'
               PROVE  NoTwins(gwait'[g]) /\ \A i \in DOMAIN gwait'[g] : EntryOk(g, gwait[g][i])'
    BY DEF GroupOk, EntryOk
  <2>1. NoTwins(l) /\ \A i \in DOMAIN l : EntryOk(g, l[i])
    BY <1>3 DEF GroupsOk, GroupOk
  <2>2. NoTwins(new)
    BY <1>7, <1>8, <2>1 DEF NoTwins
  <2>3. ASSUME NEW i \in DOMAIN l
        PROVE  /\ call'[new[i].task] = <<"bits", g, new[i].need>> /\ new[i].task \notin stale'
               /\ state'[new[i].task] = "BLOCKED" /\ new[i].task \notin lost'
                    => ~new[i].woken /\ ~Met(bits'[g], new[i].need)
    <3> DEFINE t == l[i].task
    <3>1. /\ call[t] = <<"bits", g, l[i].need>> /\ t \notin stale
          /\ state[t] = "BLOCKED" /\ t \notin lost => ~l[i].woken
      BY <2>1, <2>3 DEF EntryOk
    <3>2. Undisturbed(t) /\ t \in Slots
      BY <1>7, <1>10, <2>3
    <3>3. state'[t] = "BLOCKED" /\ t \notin lost' =>
            state[t] = "BLOCKED" /\ t \notin lost /\ i \notin match /\ ~Met(have, l[i].need)
      BY <1>3, <1>7, <2>3, <3>2 DEF Undisturbed
    <3>4. \A n : ~Met(have, n) => ~Met(bits'[g], n)
      BY <1>9, FewerBits
    <3> HIDE DEF have
    <3> QED BY <1>7, <2>3, <3>1, <3>2, <3>3, <3>4 DEF Undisturbed
  <2>4. \A i \in DOMAIN new : EntryOk(g, gwait[g][i])'
    BY <1>8, <1>9, <2>3 DEF EntryOk
  <2> QED BY <1>9, <2>2, <2>4
<1>12. GroupsOk'
  <2>1. \A h \in Groups : AtGroup(h, NoReady)
    BY <1>10 DEF AtGroup
  <2>2. \A h \in Groups : h # g => GroupOk(h)'
    BY <1>1, <1>3, <1>9, <2>1, QuietGroups
  <2> QED BY <1>11, <2>2 DEF GroupsOk
<1>13. \A h \in Groups : \A u \in Slots : Listed(u, gwait[h]) => Listed(u, gwait'[h])
  BY <1>7, <1>8, <1>9 DEF Listed
<1>14. \A u \in Slots : u = current => state'[u] # "BLOCKED"
  BY <1>1, <1>10 DEF Undisturbed, RunningIsReady
<1>15. GroupSleepers'
  BY <1>2, <1>3, <1>13, <1>14, ListedStay DEF CallsOf
<1> QED BY <1>12, <1>15

\* all of them
LEMMA GroupStepGroups ==
  ASSUME SyncTypes, Standing, GroupsOk, GroupSleepers, GroupStep
  PROVE  GroupsOk' /\ GroupSleepers'
BY BitsClear, BitsBack, BitsBlock, BitsSet DEF GroupStep

-----------------------------------------------------------------------------
(* Notifications.                                                          *)

\* who sleeps until it is notified has not been
NoteSleepers ==
  \A t \in Slots :
    state[t] = "BLOCKED" /\ t \notin lost /\ call[t] = <<"notified", t>> => notify[t] = 0

\* the other calls
LEMMA OtherNotes ==
  ASSUME NoteSleepers, Aside(NoteCalls), notify' = notify
  PROVE  NoteSleepers'
<1> SUFFICES ASSUME NEW t \in Slots, state'[t] = "BLOCKED", t \notin lost',
                    call'[t] = <<"notified", t>>
             PROVE  notify'[t] = 0
  BY DEF NoteSleepers
<1>1. call'[t] \in NoteCalls
  BY DEF NoteCalls
<1>2. Undisturbed(t)
  BY <1>1 DEF Aside
<1> QED BY <1>2 DEF Undisturbed, NoteSleepers

\* objects come and go
LEMMA ObjectNotes ==
  ASSUME NoteSleepers, NEW o \in Objects, ObjectChange(o)
  PROVE  NoteSleepers'
BY NotOnObjects DEF NoteSleepers, ObjectChange

\* who is notified is awake
LEMMA NotifyStepNotes ==
  ASSUME SyncTypes, NoteSleepers, NotifyStep
  PROVE  NoteSleepers'
<1>1. /\ TaskTable /\ CallTypes /\ RunningIsReady /\ CallsOf(NoteCalls) /\ Moves
      /\ notify \in [Slots -> 0 .. MaxNotify]
  BY SyncParts, NotifyStepCalls, NotifyStepTypes DEF RestTypes
<1>2. ASSUME NEW t \in Slots, state'[t] = "BLOCKED", t \notin lost',
             call'[t] = <<"notified", t>>, Undisturbed(t), notify'[t] = notify[t]
      PROVE  notify'[t] = 0
  BY <1>2 DEF Undisturbed, NoteSleepers
<1>3. \A u \in Slots \ {current} : Undisturbed(u)
  BY <1>1 DEF CallsOf, OthersStay
<1>4. ASSUME NEW s \in Slots, NotifyGive(s)
      PROVE  NoteSleepers'
  <2>1. /\ notify' = [notify EXCEPT ![s] = @ + 1] /\ Resume(s, Reason)
        /\ UNCHANGED callVars /\ lost' = lost
    BY <1>4 DEF NotifyGive, histVars
  <2>2. /\ state'[s] # "BLOCKED"
        /\ \A u \in Slots : state'[u] = "READY" \/ state'[u] = state[u]
    BY <1>1, <2>1 DEF Resume, TaskTable, taskVars
  <2>3. \A u \in Slots : Undisturbed(u)
    BY <2>1, <2>2 DEF callVars, Undisturbed
  <2>4. \A u \in Slots : u # s => notify'[u] = notify[u]
    BY <1>1, <2>1
  <2> QED BY <1>2, <2>2, <2>3, <2>4 DEF NoteSleepers
<1>5. ASSUME NEW clear \in BOOLEAN, NotifyDo(clear) \/ NotifyReturn(clear)
      PROVE  NoteSleepers'
  <2>1. current \in Slots /\ TakeNotify(clear) /\ UNCHANGED schedVars
    BY <1>5 DEF NotifyDo, NotifyReturn, InTask, Back
  <2>2. /\ \A u \in Slots : u # current => notify'[u] = notify[u]
        /\ state'[current] = "READY"
    BY <1>1, <2>1 DEF TakeNotify, schedVars, RunningIsReady
  <2> QED BY <1>2, <1>3, <2>2 DEF NoteSleepers
<1>6. ASSUME NEW d \in Timeouts, NotifyWait(d)
      PROVE  NoteSleepers'
  <2>1. notify' = notify /\ notify[current] = 0
    BY <1>6 DEF NotifyWait, objVars
  <2> QED BY <1>2, <1>3, <2>1 DEF NoteSleepers
<1> QED BY <1>4, <1>5, <1>6 DEF NotifyStep

-----------------------------------------------------------------------------
(* The invariant of sleepers, and the two theorems.                        *)

Queueing == LinesOk /\ LineSleepers
Events == GroupsOk /\ GroupSleepers /\ NoteSleepers
Wakeups == Standing /\ Queueing /\ Events

\* a step that is apart from all of them
LEMMA ApartKeeps ==
  ASSUME SyncTypes, SyncTypes', Wakeups, Apart, Standing'
  PROVE  Wakeups'
<1>1. /\ CallTypes /\ LineTypes /\ LineTypes' /\ GroupTypes
      /\ UNCHANGED queueVars /\ UNCHANGED groupVars /\ used' = used /\ notify' = notify
      /\ lost \cap Objects \subseteq lost'
  BY SyncParts, SyncPartsNext DEF Apart, objVars
<1>2. Aside(WaitCalls) /\ Aside(GroupCalls) /\ Aside(NoteCalls)
  BY DEF Apart, Aside, Waits
<1>3. Kept(WaitCalls) /\ Kept(GroupCalls)
  BY DEF Apart, Kept
<1>4. Queueing'
  BY <1>1, <1>2, <1>3, OtherLines DEF Wakeups, Queueing
<1>5. GroupsOk' /\ GroupSleepers'
  BY <1>1, <1>2, <1>3, OtherGroups DEF Wakeups, Events
<1>6. NoteSleepers'
  BY <1>1, <1>2, OtherNotes DEF Wakeups, Events
<1> QED BY <1>4, <1>5, <1>6 DEF Wakeups, Events

\* the calls of one kind leave the others alone
LEMMA KindsApart ==
  ASSUME NEW K, CallsOf(K)
  PROVE  /\ K \cap WaitCalls = {} => Aside(WaitCalls) /\ Kept(WaitCalls)
         /\ K \cap GroupCalls = {} => Aside(GroupCalls) /\ Kept(GroupCalls)
         /\ K \cap NoteCalls = {} => Aside(NoteCalls)
<1>1. Idle \notin WaitCalls \cup GroupCalls \cup NoteCalls
  BY CallKinds
<1>2. K \cap WaitCalls = {} => WaitCalls \cap (K \cup {Idle}) = {}
  BY <1>1
<1>3. K \cap GroupCalls = {} => GroupCalls \cap (K \cup {Idle}) = {}
  BY <1>1
<1>4. K \cap NoteCalls = {} => NoteCalls \cap (K \cup {Idle}) = {}
  BY <1>1
<1> QED BY <1>2, <1>3, <1>4, CallsAside

\* the kinds are disjoint
LEMMA KindsDisjoint ==
  /\ WaitCalls \cap GroupCalls = {} /\ WaitCalls \cap NoteCalls = {}
  /\ GroupCalls \cap NoteCalls = {}
  /\ WaitCalls \subseteq Waits /\ GroupCalls \subseteq Waits /\ NoteCalls \subseteq Waits
BY CallKinds DEF Waits

\* what each kind of calls leaves unchanged
LEMMA KindsChange ==
  /\ LineStep => UNCHANGED groupVars /\ notify' = notify /\ used' = used
  /\ GroupStep => UNCHANGED queueVars /\ notify' = notify /\ used' = used
  /\ NotifyStep => UNCHANGED queueVars /\ UNCHANGED groupVars /\ used' = used
<1>1. LineStep => UNCHANGED groupVars /\ notify' = notify
  <2>1. \A c, l : Effect(c, l) => UNCHANGED groupVars /\ notify' = notify
    BY DEF Effect
  <2>2. \A c : Do(c) \/ Succeed(c) => UNCHANGED groupVars /\ notify' = notify
    BY <2>1 DEF Do, Succeed
  <2>3. \A c : GiveUp(c) \/ Retry(c) => UNCHANGED groupVars /\ notify' = notify
    BY DEF GiveUp, Retry
  <2>4. \A c, d : Wait(c, d) => UNCHANGED groupVars /\ notify' = notify
    BY DEF Wait
  <2>5. Abort => UNCHANGED groupVars /\ notify' = notify
    BY DEF Abort, objVars
  <2>6. \A s : Give(s) \/ GiveRefused(s) => UNCHANGED groupVars /\ notify' = notify
    BY DEF Give, GiveRefused, objVars
  <2>7. \A q : QueueReset(q) => UNCHANGED groupVars /\ notify' = notify
    BY DEF QueueReset
  <2> QED BY <2>2, <2>3, <2>4, <2>5, <2>6, <2>7 DEF LineStep
<1>2. GroupStep => UNCHANGED queueVars /\ notify' = notify /\ used' = used
  <2>1. \A g, n : BitsDo(g, n) \/ BitsReturn(g, n)
                => UNCHANGED queueVars /\ notify' = notify /\ used' = used
    BY DEF BitsDo, BitsReturn
  <2>2. \A g, n, d : BitsWait(g, n, d)
                   => UNCHANGED queueVars /\ notify' = notify /\ used' = used
    BY DEF BitsWait
  <2>3. \A g, b : SetBits(g, b) \/ ClearBits(g, b)
                => UNCHANGED queueVars /\ notify' = notify /\ used' = used
    BY DEF SetBits, ClearBits
  <2> QED BY <2>1, <2>2, <2>3 DEF GroupStep
<1>3. NotifyStep => UNCHANGED queueVars /\ UNCHANGED groupVars /\ used' = used
  BY DEF NotifyStep, NotifyGive, NotifyDo, NotifyReturn, NotifyWait, objVars
<1> QED BY <1>1, <1>2, <1>3, LineStepUsed

\* the steps of EspSync
LEMMA WakeupsSync ==
  ASSUME Types, Types', LiveCalls, Wakeups, SyncStep
  PROVE  Wakeups'
<1>1. /\ SyncTypes /\ SyncTypes' /\ daemon' = daemon /\ DaemonLeftAlone
      /\ CallTypes /\ CallTypes' /\ LineTypes /\ LineTypes' /\ GroupTypes
      /\ Standing /\ LinesOk /\ LineSleepers /\ GroupsOk /\ GroupSleepers /\ NoteSleepers
  BY SyncParts, SyncPartsNext DEF Types, SyncStep, daemonVars, Wakeups, Queueing, Events
<1>2. ASSUME LineStep
      PROVE  Wakeups'
  <2>1. CallsOf(WaitCalls) /\ lost \cap Objects \subseteq lost'
    BY <1>1, <1>2, LineStepCalls
  <2>2. LinesOk' /\ LineSleepers'
    BY <1>1, <1>2, LineStepLines
  <2>3. Aside(GroupCalls) /\ Kept(GroupCalls) /\ Aside(NoteCalls)
    BY <2>1, KindsApart, KindsDisjoint
  <2>4. GroupsOk' /\ GroupSleepers' /\ NoteSleepers'
    BY <1>1, <1>2, <2>1, <2>3, KindsChange, OtherGroups, OtherNotes
  <2>5. Standing'
    BY <1>1, <2>1, KindsDisjoint, CallsStand
  <2> QED BY <2>2, <2>4, <2>5 DEF Wakeups, Queueing, Events
<1>3. ASSUME GroupStep
      PROVE  Wakeups'
  <2>1. CallsOf(GroupCalls) /\ lost \cap Objects \subseteq lost'
    BY <1>1, <1>3, GroupStepCalls
  <2>2. GroupsOk' /\ GroupSleepers'
    BY <1>1, <1>3, GroupStepGroups
  <2>3. Aside(WaitCalls) /\ Kept(WaitCalls) /\ Aside(NoteCalls)
    BY <2>1, KindsApart, KindsDisjoint
  <2>4. LinesOk' /\ LineSleepers' /\ NoteSleepers'
    BY <1>1, <1>3, <2>1, <2>3, KindsChange, OtherLines, OtherNotes
  <2>5. Standing'
    BY <1>1, <2>1, KindsDisjoint, CallsStand
  <2> QED BY <2>2, <2>4, <2>5 DEF Wakeups, Queueing, Events
<1>4. ASSUME NotifyStep
      PROVE  Wakeups'
  <2>1. CallsOf(NoteCalls) /\ lost \cap Objects \subseteq lost'
    BY <1>1, <1>4, NotifyStepCalls
  <2>2. NoteSleepers'
    BY <1>1, <1>4, NotifyStepNotes
  <2>3. Aside(WaitCalls) /\ Kept(WaitCalls) /\ Aside(GroupCalls) /\ Kept(GroupCalls)
    BY <2>1, KindsApart, KindsDisjoint
  <2>4. LinesOk' /\ LineSleepers' /\ GroupsOk' /\ GroupSleepers'
    BY <1>1, <1>4, <2>1, <2>3, KindsChange, OtherLines, OtherGroups
  <2>5. Standing'
    BY <1>1, <2>1, KindsDisjoint, CallsStand
  <2> QED BY <2>2, <2>4, <2>5 DEF Wakeups, Queueing, Events
<1>5. ASSUME ObjectStep
      PROVE  Wakeups'
  <2>1. PICK o \in Objects : ObjectChange(o)
    BY <1>1, <1>5, ObjectChanges
  <2>2. LinesOk' /\ LineSleepers' /\ GroupsOk' /\ GroupSleepers' /\ NoteSleepers' /\ Standing'
    BY <1>1, <2>1, ObjectLines, ObjectGroups, ObjectNotes, ObjectStands
  <2> QED BY <2>2 DEF Wakeups, Queueing, Events
<1>6. ASSUME TaskStep
      PROVE  Wakeups'
  BY <1>1, <1>6, TaskStepApart, ApartKeeps
<1>7. ASSUME Dispatch
      PROVE  Wakeups'
  BY <1>1, <1>7, LoopApart, ApartKeeps
<1> QED BY <1>2, <1>3, <1>4, <1>5, <1>6, <1>7 DEF SyncStep

\* every step
LEMMA WakeupsStep ==
  Types /\ Types' /\ LiveCalls /\ Wakeups /\ [TimersNext]_tvars => Wakeups'
<1> SUFFICES ASSUME Types, Types', LiveCalls, Wakeups, [TimersNext]_tvars
             PROVE  Wakeups'
  OBVIOUS
<1>1. SyncTypes /\ SyncTypes' /\ Standing
  BY DEF Types, Wakeups
<1>2. CASE SyncStep
  BY <1>2, WakeupsSync
<1>3. CASE TimerStep \/ DaemonStep \/ TimersTick
  BY <1>1, <1>3, TimersApart, ApartKeeps
<1>4. CASE UNCHANGED tvars
  <2>1. /\ UNCHANGED <<call, stale, daemon, lost, state>> /\ UNCHANGED objVars
    BY <1>4 DEF tvars, vars, timerVars, daemonVars, callVars, histVars, schedVars
  <2>2. Apart
    BY <2>1, ApartOps
  <2>3. Standing'
    BY <1>1, <2>1, StandOps
  <2> QED BY <1>1, <2>2, <2>3, ApartKeeps
<1> QED BY <1>2, <1>3, <1>4 DEF TimersNext

\* nobody waits at the start
LEMMA WakeupsInit == TimersInit => Wakeups
<1> SUFFICES ASSUME TimersInit
             PROVE  Wakeups
  OBVIOUS
<1>1. /\ call = [t \in Slots |-> Idle] /\ stale = {} /\ daemon = NoReady
      /\ state = [t \in Slots |-> "INVALID"]
      /\ line = [w \in WaitPoints |-> <<>>] /\ gwait = [g \in Groups |-> <<>>]
  BY DEF TimersInit, Init, SchedInit
<1>2. Standing
  <2>1. Idle \notin Waits /\ daemon \notin Slots
    BY <1>1, CallKinds DEF Waits, NoReady, Slots
  <2> QED BY <1>1, <2>1 DEF Standing, LiveStates, StaleCalls, DaemonCall
<1>3. Queueing
  BY <1>1, EmptySeq DEF Queueing, LinesOk, LineOk, Filed, Served, In, LineSleepers
<1>4. Events
  BY <1>1, EmptySeq DEF Events, GroupsOk, GroupOk, NoTwins, GroupSleepers, NoteSleepers
<1> QED BY <1>2, <1>3, <1>4 DEF Wakeups

\* who sleeps is known to those who may wake it, and has nothing to wake up for
LEMMA WakeupsInvariant == TimersSpec => [](Types /\ Wakeups)
<1>1. TimersSpec => []Types
  BY TypesInvariant
<1>2. TimersSpec => []LiveCalls
  BY LiveCallsInvariant
<1>3. TimersSpec => []Wakeups
  BY <1>1, <1>2, WakeupsInit, WakeupsStep, PTL DEF TimersSpec
<1> QED BY <1>1, <1>3, PTL

\* Nobody sleeps in a send, receive, peek or take that could proceed unless
\* another caller at the same wait point is awake and about to take its turn,
\* and every sleeper is in the line of an object that exists; except where a
\* woken peek, a queue reset or a suspended or deleted waiter lost a wake-up.
THEOREM NoWakeupIsLost == TimersSpec => []NoLostWakeup
<1>1. Types /\ Wakeups => NoLostWakeup
  <2> SUFFICES ASSUME Types, Wakeups, NEW c \in WaitCalls, NEW t \in Slots,
                      Sleeping(t, c), {t, c[2]} \cap lost = {}
               PROVE  /\ t \notin stale /\ c[2] \in used /\ In(t, line[LineOf(c)])
                      /\ Room(c) => OnItsWay(LineOf(c))
    BY DEF NoLostWakeup
  <2> DEFINE w == LineOf(c)
  <2>1. LineTypes /\ LinesOk /\ LineSleepers
    BY SyncParts DEF Types, Wakeups, Queueing
  <2>2. t \notin stale /\ c[2] \in used /\ In(t, line[w])
    BY <2>1 DEF Sleeping, LineSleepers, InLine
  <2>3. w \in WaitPoints /\ w[2] = c[2]
    BY WaitCallKinds DEF LineOf
  <2>4. ASSUME Room(c)
        PROVE  OnItsWay(w)
    <3>1. Stock(w) \in Nat /\ Stock(w) > 0
      BY <2>1, <2>3, <2>4, RoomStock
    <3> HIDE DEF w
    <3>2. line[w] # <<>>
      BY <2>2, EmptySeq DEF In
    <3>3. Stock(w) <= Cardinality(Called(w))
      BY <2>1, <2>2, <2>3, <3>2 DEF LinesOk, LineOk, Served
    <3>4. Called(w) # {}
      BY <3>1, <3>3, FS_EmptySet
    <3> QED BY <3>4 DEF Called, OnItsWay
  <2> QED BY <2>2, <2>4
<1> QED BY <1>1, WakeupsInvariant, PTL

\* Nobody sleeps on an event group whose bits satisfy it, on a deleted one, or
\* on a notification it has been given; except a suspended task, or one that
\* found the list of the group full.
THEOREM NoEventIsMissed == TimersSpec => []NoMissedEvent
<1>1. Types /\ Wakeups => NoMissedEvent
  <2> SUFFICES ASSUME Types, Wakeups, NEW t \in Slots
               PROVE  /\ \A g \in Groups : \A n \in Needs :
                           Sleeping(t, <<"bits", g, n>>) /\ {t, g} \cap lost = {} =>
                             t \notin stale /\ g \in used /\ ~Met(bits[g], n)
                      /\ Sleeping(t, <<"notified", t>>) /\ t \notin lost => notify[t] = 0
    BY DEF NoMissedEvent
  <2>1. GroupTypes /\ GroupsOk /\ GroupSleepers /\ NoteSleepers
    BY SyncParts DEF Types, Wakeups, Events
  <2>2. ASSUME NEW g \in Groups, NEW n \in Needs, Sleeping(t, <<"bits", g, n>>),
               {t, g} \cap lost = {}
        PROVE  t \notin stale /\ g \in used /\ ~Met(bits[g], n)
    <3>1. call[t] = <<"bits", g, n>> /\ state[t] = "BLOCKED" /\ call[t] \in GroupCalls
      BY <2>2 DEF Sleeping, GroupCalls
    <3>2. t \notin stale /\ g \in used /\ Listed(t, gwait[g])
      BY <2>1, <2>2, <3>1 DEF GroupSleepers, InGroup
    <3>3. PICK i \in DOMAIN gwait[g] : gwait[g][i].task = t
      BY <3>2 DEF Listed
    <3>4. call[t] = <<"bits", g, gwait[g][i].need>> /\ ~Met(bits[g], gwait[g][i].need)
      BY <2>1, <2>2, <3>1, <3>2, <3>3 DEF GroupsOk, GroupOk, EntryOk
    <3> QED BY <3>1, <3>2, <3>4
  <2>3. Sleeping(t, <<"notified", t>>) /\ t \notin lost => notify[t] = 0
    BY <2>1 DEF Sleeping, NoteSleepers
  <2> QED BY <2>2, <2>3
<1> QED BY <1>1, WakeupsInvariant, PTL

\* the task that calls finds room in the list of a group
GroupHasRoom ==
  \A g \in used \cap Groups :
    g \notin lost /\ current \in Slots /\ call[current] = Idle => Len(gwait[g]) < N

\* xEventGroupWaitBits never finds the list of a group full unless a waiter of
\* that group was deleted or suspended: a listed task is in its wait, once.  So
\* NoMissedEvent excepts a full list where one of its entries is left over only.
THEOREM ListHasRoom == TimersSpec => []GroupHasRoom
<1>1. Types /\ Wakeups => GroupHasRoom
  <2> SUFFICES ASSUME Types, Wakeups, NEW g \in used \cap Groups, g \notin lost,
                      current \in Slots, call[current] = Idle
               PROVE  Len(gwait[g]) < N
    BY DEF GroupHasRoom
  <2> DEFINE l == gwait[g]
             who == [i \in 1 .. Len(l) |-> l[i].task]
  <2>1. GroupTypes /\ GroupOk(g)
    BY SyncParts DEF Types, Wakeups, Events, GroupsOk
  <2>2. l \in WaiterLists
    BY <2>1 DEF GroupTypes
  <2>3. /\ l \in Seq(Waiters) /\ Len(l) \in Nat /\ DOMAIN l = 1 .. Len(l)
        /\ \A i \in 1 .. Len(l) : l[i] \in Waiters
    <3>1. l \in Seq(Waiters) /\ Len(l) \in Nat /\ DOMAIN l = 1 .. Len(l)
      BY <2>2, LineIsSeq
    <3> QED BY <3>1, LenProperties
  <2>4. /\ NoTwins(l)
        /\ \A i \in 1 .. Len(l) : call[l[i].task] = <<"bits", g, l[i].need>>
    BY <2>1, <2>3 DEF GroupOk, EntryOk
  <2>5. \A i \in 1 .. Len(l) : l[i].task \in Slots /\ l[i].task # current
    <3>1. \A n : <<"bits", g, n>> # Idle
      BY DEF Idle
    <3> QED BY <2>3, <2>4, <3>1 DEF Waiters
  <2> HIDE DEF l
  <2>6. who \in Seq(Slots) /\ Len(who) = Len(l) /\ DOMAIN who = 1 .. Len(l)
    <3>1. who \in [1 .. Len(l) -> Slots]
      BY <2>5
    <3>2. who \in Seq(Slots)
      BY <2>3, <3>1
    <3> QED BY <2>3, <3>1, <3>2, LenProperties
  <2>7. Distinct(who) /\ ~In(current, who)
    BY <2>3, <2>4, <2>5, <2>6 DEF NoTwins, Distinct, In
  <2> HIDE DEF who
  <2>8. Len(who) < N
    BY <2>6, <2>7, LineHasRoom
  <2> QED BY <2>6, <2>8 DEF l
<1> QED BY <1>1, WakeupsInvariant, PTL

-----------------------------------------------------------------------------
(* The daemon and those who wait for it.                                   *)

DaemonSleeps == daemon \in Slots /\ asleep /\ state[daemon] = "BLOCKED"

\* the daemon sleeps for good reason, and not too long
DaemonOk ==
  DaemonSleeps => /\ cmds = <<>>
                  /\ \A h \in Active : due[daemon] \in 0 .. timers[h].expiry

\* a sender that sleeps is known to the daemon, which has not seen to it yet
SenderOk(t) ==
  call[t] = <<"timer", t>> =>
    daemon \in Slots /\ (state[t] = "BLOCKED" /\ t \notin lost => txWaiter = t /\ Full)

OnTime == DaemonOk /\ \A t \in Slots \ {daemon} : SenderOk(t)

\* t does not begin to wait as a sender
SenderRests(t) ==
  call'[t] = <<"timer", t>> =>
    /\ call[t] = <<"timer", t>>
    /\ state'[t] = "BLOCKED" /\ t \notin lost' => state[t] = "BLOCKED" /\ t \notin lost

\* the daemon is not put to sleep
DaemonRests == daemon \in Slots => state'[daemon] # "BLOCKED" \/ Steady(daemon)

\* the queue gets no shorter, and the waiter is left where it is
LEMMA SendersRest ==
  ASSUME SendTypes, cmds' \in Seq(Commands), OnTime, UNCHANGED <<daemon, txWaiter>>,
         Len(cmds) <= Len(cmds'), \A t \in Slots \ {daemon} : SenderRests(t)
  PROVE  \A t \in Slots \ {daemon'} : SenderOk(t)'
<1>1. Len(cmds) \in Nat /\ Len(cmds') \in Nat /\ QueueLength \in Nat
  BY LenProperties, TimersAssumption DEF SendTypes
<1>2. Full => Full'
  BY <1>1 DEF Full
<1>3. ASSUME NEW t \in Slots \ {daemon}
      PROVE  SenderOk(t)'
  <2>1. SenderOk(t) /\ SenderRests(t)
    BY <1>3 DEF OnTime
  <2>2. ASSUME call'[t] = <<"timer", t>>
        PROVE  /\ daemon' \in Slots
               /\ state'[t] = "BLOCKED" /\ t \notin lost' => txWaiter' = t /\ Full'
    BY <1>2, <2>1, <2>2 DEF SenderOk, SenderRests
  <2> QED BY <2>2 DEF SenderOk
<1> QED BY <1>3

\* no timer expires earlier than before
LEMMA DaemonSleepsOn ==
  ASSUME DaemonOk, UNCHANGED <<daemon, asleep, cmds>>, DaemonRests, Active' \subseteq Active,
         \A h \in Active' : timers'[h].expiry = timers[h].expiry
  PROVE  DaemonOk'
<1> SUFFICES ASSUME DaemonSleeps'
             PROVE  cmds' = <<>> /\ \A h \in Active' : due'[daemon'] \in 0 .. timers'[h].expiry
  BY DEF DaemonOk
<1>1. DaemonSleeps /\ due'[daemon'] = due[daemon]
  BY DEF DaemonSleeps, DaemonRests, Steady
<1> QED BY <1>1 DEF DaemonOk

\* the daemon runs, or is woken: nothing to show
LEMMA DaemonRuns ==
  ASSUME daemon' \in Slots /\ asleep' => state'[daemon'] # "BLOCKED"
  PROVE  DaemonOk'
BY DEF DaemonOk, DaemonSleeps

\* the timer calls are no calls of the others
LEMMA TimerCallKind ==
  \A t \in Slots : /\ <<"timer", t>> \in TimerCalls /\ <<"timer", t>> \notin Waits \cup {Idle}
                   /\ <<"timer", t>>[1] = "timer"
BY CallKinds DEF TimerCalls

\* the calls of one kind leave daemon and senders alone
LEMMA CallsRest ==
  ASSUME RunningIsReady, Standing, NEW K, K \subseteq Waits, CallsOf(K), Moves
  PROVE  (\A t \in Slots : SenderRests(t)) /\ DaemonRests
<1>1. ASSUME NEW t \in Slots
      PROVE  SenderRests(t)
  <2>1. call'[t] = <<"timer", t>> => Undisturbed(t)
    BY TimerCallKind, OtherCalls
  <2> QED BY <2>1 DEF SenderRests, Undisturbed
<1>2. ASSUME daemon \in Slots
      PROVE  state'[daemon] # "BLOCKED" \/ Steady(daemon)
  <2>1. Undisturbed(daemon)
    BY <1>2, DaemonApart, OtherCalls
  <2>2. CASE EasyStep
    BY <1>2, <2>2 DEF EasyStep, Eased
  <2>3. CASE BlockingStep
    BY <1>2, <2>1, <2>3 DEF BlockingStep, Undisturbed, RunningIsReady
  <2> QED BY <2>2, <2>3 DEF Moves
<1> QED BY <1>1, <1>2 DEF DaemonRests

\* what tasks do to tasks leaves them alone
LEMMA TasksRest ==
  ASSUME SyncTypes, Standing, TaskStep, DaemonLeftAlone
  PROVE  (\A t \in Slots : SenderRests(t)) /\ DaemonRests
<1>1. TaskTable /\ CallTypes
  BY SyncParts
<1>2. ASSUME NEW t \in Slots, TaskCreate(t) \/ ResumeTask(t)
      PROVE  (\A u \in Slots : SenderRests(u)) /\ DaemonRests
  <2>1. UNCHANGED <<call, lost>>
    BY <1>2 DEF TaskCreate, ResumeTask, callVars, histVars
  <2>2. \A u \in Slots : state'[u] = "READY" \/ Steady(u)
    BY <1>1, <1>2 DEF TaskCreate, ResumeTask, Register, Resume, TaskTable, taskVars, Steady
  <2> QED BY <2>1, <2>2 DEF SenderRests, DaemonRests, Steady
<1>3. ASSUME NEW d \in Delays, Delay(d)
      PROVE  (\A u \in Slots : SenderRests(u)) /\ DaemonRests
  <2>1. UNCHANGED <<call, lost>>
    BY <1>3 DEF Delay, callVars, histVars
  <2>2. \A u \in Slots : state'[u] # "BLOCKED" \/ Steady(u)
    BY <1>1, <1>3 DEF Delay, YieldTimed, TaskTable, taskVars, Steady
  <2> QED BY <2>1, <2>2 DEF SenderRests, DaemonRests, Steady
<1>4. ASSUME NEW t \in Slots, TaskDelete(t)
      PROVE  (\A u \in Slots : SenderRests(u)) /\ DaemonRests
  <2>1. /\ call' = [call EXCEPT ![t] = Idle] /\ lost' = (lost \cup Burden(t)) \ {t}
        /\ MarkZombie(t)
    BY <1>4 DEF TaskDelete
  <2>2. \A u \in Slots : state'[u] # "BLOCKED" \/ Steady(u)
    BY <1>1, <2>1 DEF MarkZombie, TaskTable, Steady
  <2>3. /\ call'[t] = Idle
        /\ \A u \in Slots \ {t} : call'[u] = call[u] /\ (u \in lost => u \in lost')
    BY <1>1, <2>1 DEF CallTypes
  <2>4. SenderRests(t)
    BY <2>3, TimerCallKind DEF SenderRests
  <2> QED BY <2>2, <2>3, <2>4 DEF SenderRests, DaemonRests, Steady
<1>5. ASSUME NEW t \in Slots, Suspend(t)
      PROVE  (\A u \in Slots : SenderRests(u)) /\ DaemonRests
  <2>1. t # daemon
    BY <1>5 DEF DaemonLeftAlone, NoReady, Slots
  <2>2. call' = call /\ lost' = lost \cup Burden(t) \cup {t} /\ Block(t, 0)
    BY <1>5 DEF Suspend, callVars
  <2>3. \A u \in Slots \ {t} : Steady(u)
    BY <1>1, <2>2 DEF Block, TaskTable, Steady
  <2> QED BY <2>1, <2>2, <2>3 DEF SenderRests, DaemonRests, Steady
<1> QED BY <1>2, <1>3, <1>4, <1>5 DEF TaskStep

\* and so does the loop
LEMMA LoopRests ==
  ASSUME SyncTypes, Dispatch
  PROVE  (\A t \in Slots : SenderRests(t)) /\ DaemonRests
<1>1. TaskTable
  BY SyncParts
<1>2. UNCHANGED <<call, lost>>
  BY DEF Dispatch, callVars, histVars
<1>3. (state' = Collected /\ due' = due) \/ Woken
  BY DEF Dispatch, LoopStops, SwitchIn, IdleStops
<1>4. \A u \in Slots : state'[u] # "BLOCKED" \/ Steady(u)
  BY <1>1, <1>3 DEF Collected, Woken, Steady
<1> QED BY <1>2, <1>4 DEF SenderRests, DaemonRests, Steady

\* a step of EspSync
LEMMA OnTimeSync ==
  ASSUME Types, Types', Standing, OnTime, SyncStep
  PROVE  OnTime'
<1>1. SyncTypes /\ RunningIsReady /\ SendTypes /\ DaemonLeftAlone
  BY SyncParts DEF Types, TimerTypes, SyncStep
<1>2. UNCHANGED <<daemon, asleep, cmds, txWaiter, timers>>
  BY DEF SyncStep, sendVars, daemonVars
<1>3. (\A t \in Slots : SenderRests(t)) /\ DaemonRests
  <2>1. CASE LineStep
    BY <1>1, <2>1, LineStepTypes, LineStepCalls, KindsDisjoint, CallsRest
  <2>2. CASE GroupStep
    BY <1>1, <2>2, GroupStepTypes, GroupStepCalls, KindsDisjoint, CallsRest
  <2>3. CASE NotifyStep
    BY <1>1, <2>3, NotifyStepTypes, NotifyStepCalls, KindsDisjoint, CallsRest
  <2>4. CASE ObjectStep
    <3>1. PICK o \in Objects : ObjectChange(o)
      BY <1>1, <2>4, ObjectChanges
    <3>2. Moves
      BY <1>1, <2>4, ObjectStepTypes
    <3>3. /\ call' = call /\ \A u \in Slots : u \in lost => u \in lost'
          /\ \A u \in Slots : state'[u] = "READY" \/ state'[u] = state[u]
      BY <3>1, NotOnObjects DEF ObjectChange
    <3>4. \A u \in Slots : state'[u] # "BLOCKED" \/ Steady(u)
      BY <1>1, <3>2, <3>3 DEF Moves, EasyStep, Eased, BlockingStep, RunningIsReady
    <3> QED BY <3>3, <3>4 DEF SenderRests, DaemonRests, Steady
  <2>5. CASE TaskStep
    BY <1>1, <2>5, TasksRest
  <2>6. CASE Dispatch
    BY <1>1, <2>6, LoopRests
  <2> QED BY <2>1, <2>2, <2>3, <2>4, <2>5, <2>6 DEF SyncStep
<1>4. DaemonOk'
  BY <1>2, <1>3, DaemonSleepsOn DEF OnTime, Active
<1>5. \A t \in Slots \ {daemon'} : SenderOk(t)'
  <2>1. Len(cmds) \in Nat /\ cmds' \in Seq(Commands)
    BY <1>1, <1>2, LenProperties DEF SendTypes
  <2> QED BY <1>1, <1>2, <1>3, <2>1, SendersRest
<1> QED BY <1>4, <1>5 DEF OnTime

\* the clock moves
LEMMA OnTimeTick ==
  ASSUME Types, OnTime, TimersTick
  PROVE  OnTime'
<1>1. /\ SyncTypes /\ TaskTable /\ SendTypes /\ DaemonTypes /\ Tick
      /\ Table(timers)
  BY SyncParts, TableParts DEF Types, TimerTypes, TimersTick
<1>2. /\ timers' = [h \in Handles |->
           IF h \in Active THEN [timers[h] EXCEPT !.expiry = @ - Passed] ELSE timers[h]]
      /\ UNCHANGED <<daemon, asleep, cmds, txWaiter>>
  BY DEF TimersTick, sendVars
<1>3. /\ Passed \in 0 .. MaxDelay /\ state' = Collected
      /\ due' = [t \in Slots |-> IF due[t] = Never THEN Never
                                 ELSE IF due[t] > Passed THEN due[t] - Passed ELSE 0]
      /\ \A u \in Armed : Passed <= due[u]
      /\ UNCHANGED <<call, lost>>
  BY <1>1, TickTypes DEF Tick, histVars
<1> HIDE DEF Passed
<1>4. \A u \in Slots : state'[u] = "BLOCKED" => state[u] = "BLOCKED"
  BY <1>1, <1>3 DEF Collected
<1>5. Active' = Active /\ \A h \in Active : timers'[h].expiry = timers[h].expiry - Passed
  <2>1. \A h \in Handles : timers[h] \in TimerRecords
    BY <1>1 DEF Table, Sound
  <2>2. \A h \in Handles : /\ timers'[h].used = timers[h].used
                           /\ timers'[h].active = timers[h].active
                           /\ h \in Active => timers'[h].expiry = timers[h].expiry - Passed
    BY <1>2, <2>1 DEF TimerRecords
  <2> QED BY <2>2 DEF Active
<1>6. DaemonOk'
  <2> SUFFICES ASSUME DaemonSleeps'
               PROVE  cmds' = <<>> /\ \A h \in Active' : due'[daemon'] \in 0 .. timers'[h].expiry
    BY DEF DaemonOk
  <2>1. DaemonSleeps
    BY <1>2, <1>4 DEF DaemonSleeps
  <2>2. cmds = <<>> /\ \A h \in Active : due[daemon] \in 0 .. timers[h].expiry
    BY <2>1 DEF OnTime, DaemonOk
  <2>3. ASSUME NEW h \in Active
        PROVE  due'[daemon'] \in 0 .. timers'[h].expiry
    <3>1. /\ due[daemon] \in 0 .. timers[h].expiry /\ timers[h].expiry \in Int
          /\ daemon \in Slots
      BY <1>1, <2>1, <2>2, <2>3 DEF DaemonSleeps, Table, Sound, TimerRecords, Active
    <3>2. due[daemon] # Never
      BY <3>1 DEF Never
    <3>3. daemon \in Armed
      BY <2>1, <3>2 DEF Armed, DaemonSleeps
    <3>4. Passed <= due[daemon]
      BY <1>3, <3>3
    <3>5. due'[daemon] = due[daemon] - Passed
      BY <1>3, <3>1, <3>2, <3>4
    <3>6. timers'[h].expiry = timers[h].expiry - Passed
      BY <1>5, <2>3
    <3> QED BY <1>2, <1>3, <3>1, <3>4, <3>5, <3>6
  <2> QED BY <1>2, <1>5, <2>2, <2>3
<1>7. \A t \in Slots \ {daemon'} : SenderOk(t)'
  <2>1. \A t \in Slots : SenderRests(t)
    BY <1>3, <1>4 DEF SenderRests
  <2>2. cmds' \in Seq(Commands) /\ Len(cmds) <= Len(cmds')
    BY <1>1, <1>2, LenProperties DEF SendTypes
  <2> QED BY <1>1, <1>2, <2>1, <2>2, SendersRest
<1> QED BY <1>6, <1>7 DEF OnTime

\* the daemon starts, or does not: nobody waited for it
LEMMA OnTimeStart ==
  ASSUME Types, OnTime, StartDaemon, daemon = NoReady
  PROVE  OnTime'
<1>1. CallTypes /\ asleep' = FALSE /\ daemon \notin Slots
  BY SyncParts DEF Types, StartDaemon, NoReady, Slots
<1>2. \A t \in Slots : call[t] # <<"timer", t>>
  BY <1>1 DEF OnTime, SenderOk
<1>3. \A t \in Slots : t # daemon' => call'[t] = call[t]
  BY <1>1 DEF StartDaemon, CallTypes
<1>4. \A t \in Slots \ {daemon'} : SenderOk(t)'
  BY <1>2, <1>3 DEF SenderOk
<1> QED BY <1>1, <1>4, DaemonRuns DEF OnTime

\* a command goes into the queue: the daemon is awake then
LEMMA EnqueueWakes ==
  ASSUME SyncTypes, DaemonTypes, daemon \in Slots, NEW m, Enqueue(m), UNCHANGED <<daemon, asleep>>
  PROVE  DaemonOk'
<1>1. asleep => Resume(daemon, Reason)
  BY DEF Enqueue
<1>2. TaskTable
  BY SyncParts
<1>3. asleep => state'[daemon] # "BLOCKED"
  BY <1>1, <1>2 DEF Resume, TaskTable, taskVars
<1> QED BY <1>3, DaemonRuns

\* somebody else waits for room: who waited before is lost
LEMMA RoomWaits ==
  ASSUME Types, Standing, OnTime, Full, current \in Slots \ {daemon}, daemon \in Slots, NEW timeout,
         WaitForRoom(timeout), UNCHANGED <<daemon, asleep, cmds>>,
         \A u \in Slots \ {current} : call'[u] = call[u]
  PROVE  OnTime'
<1>1. TaskTable /\ SendTypes
  BY SyncParts DEF Types, TimerTypes
<1>2. /\ txWaiter' = current /\ Block(current, timeout)
      /\ lost' = IF txWaiter \in Slots \ {current} /\ state[txWaiter] = "BLOCKED"
                 THEN lost \cup {txWaiter} ELSE lost
  BY DEF WaitForRoom, SyncBlock
<1>3. \A u \in Slots \ {current} : state'[u] = state[u]
  BY <1>1, <1>2 DEF Block, TaskTable
<1>4. Full' /\ cmds # <<>>
  <2>1. QueueLength \in Nat \ {0} /\ Len(<<>>) = 0
    BY TimersAssumption
  <2> QED BY <2>1 DEF Full
<1>5. DaemonOk'
  BY <1>3, <1>4, DaemonRuns DEF OnTime, DaemonOk, DaemonSleeps
<1>6. ASSUME NEW t \in Slots \ {daemon}
      PROVE  SenderOk(t)'
  <2>1. CASE t = current
    BY <1>2, <1>4, <2>1 DEF SenderOk
  <2>2. CASE t # current
    <3>1. SenderOk(t) /\ call'[t] = call[t] /\ state'[t] = state[t]
      BY <1>3, <1>6, <2>2 DEF OnTime
    <3>2. ASSUME call[t] = <<"timer", t>>, state[t] = "BLOCKED"
          PROVE  t \in lost'
      BY <1>2, <1>6, <2>2, <3>1, <3>2 DEF SenderOk
    <3> QED BY <3>1, <3>2 DEF SenderOk
  <2> QED BY <2>1, <2>2
<1> QED BY <1>5, <1>6 DEF OnTime

\* calls on timers
LEMMA OnTimeCall ==
  ASSUME Types, Types', Standing, OnTime, NEW m, Call(m)
  PROVE  OnTime'
<1>1. /\ SyncTypes /\ TaskTable /\ CallTypes /\ RunningIsReady /\ SendTypes /\ DaemonTypes
      /\ SendTypes' /\ daemon \in Slots \cup {NoReady}
  BY SyncParts DEF Types, TimerTypes, DaemonTypes
<1>2. ASSUME CallFromCallback(m)
      PROVE  OnTime'
  <2>1. UNCHANGED <<call, lost, state, current, cmds, txWaiter, daemon, asleep>>
        /\ current = daemon /\ daemon \in Slots
    BY <1>1, <1>2 DEF CallFromCallback, InCallback, vars, callVars, histVars, sendVars,
                      daemonVars, schedVars
  <2>2. DaemonOk'
    BY <1>1, <2>1, DaemonRuns DEF RunningIsReady
  <2>3. \A t \in Slots : SenderOk(t)' <=> SenderOk(t)
    BY <2>1 DEF SenderOk, Full
  <2> QED BY <2>1, <2>2, <2>3 DEF OnTime
<1>3. ASSUME CallAccepted(m), daemon = NoReady
      PROVE  OnTime'
  <2>1. StartDaemon
    BY <1>3 DEF CallAccepted
  <2> QED BY <1>3, <2>1, OnTimeStart
<1>4. ASSUME CallAccepted(m), daemon # NoReady
      PROVE  OnTime'
  <2>1. /\ UNCHANGED <<call, daemon, asleep, lost, txWaiter>> /\ daemon \in Slots
        /\ Enqueue(m) /\ cmds' = Append(cmds, m)
    BY <1>1, <1>4 DEF CallAccepted, syncVars, histVars, callVars, daemonVars, Enqueue
  <2>2. Eased
    BY <1>1, <1>4, <2>1, EnqueueTypes
  <2>3. DaemonOk'
    BY <1>1, <2>1, EnqueueWakes
  <2>4. Len(cmds) <= Len(cmds') /\ cmds' \in Seq(Commands)
    BY <1>1, <2>1 DEF SendTypes
  <2>5. \A t \in Slots : SenderRests(t)
    BY <2>1, <2>2 DEF SenderRests, Eased, Steady
  <2> QED BY <1>1, <2>1, <2>3, <2>4, <2>5, SendersRest DEF OnTime
<1>5. ASSUME NEW d \in Timeouts, CallWaits(m, d)
      PROVE  OnTime'
  <2>1. /\ current \in Slots /\ call[current] = Idle /\ daemon \in Slots
        /\ StartCall(<<"timer", current>>, d) /\ WaitForRoom(d) /\ Full
        /\ UNCHANGED <<daemon, asleep, cmds>>
    BY <1>1, <1>5 DEF CallWaits, InTask, daemonVars, Full
  <2>2. \A u \in Slots \ {current} : call'[u] = call[u]
    BY <1>1, <2>1 DEF StartCall, CallTypes
  <2>3. current # daemon
    BY <2>1, DaemonApart
  <2> QED BY <2>1, <2>2, <2>3, RoomWaits
<1> QED BY <1>2, <1>3, <1>4, <1>5 DEF Call

\* a timer that is changed in one place, and does not run after it unless it did
\* before, with the same expiry
LEMMA OneTimer ==
  ASSUME DaemonOk, UNCHANGED <<daemon, asleep, cmds>>, DaemonRests, NEW ts, Table(ts),
         ts = timers, NEW h \in Handles, NEW r, timers' = [ts EXCEPT ![h] = r],
         r.used /\ r.active => h \in Active /\ r.expiry = timers[h].expiry
  PROVE  DaemonOk'
<1>1. timers'[h] = r /\ \A k \in Handles : k # h => timers'[k] = timers[k]
  BY DEF Table
<1>2. Active' \subseteq Active /\ \A k \in Active' : timers'[k].expiry = timers[k].expiry
  BY <1>1 DEF Active
<1> QED BY <1>2, DaemonSleepsOn

\* calls that touch the table at once
LEMMA OnTimeTable ==
  ASSUME Types, Types', Standing, OnTime, NEW h \in Handles, NEW p, NEW auto \in BOOLEAN,
         TimerCreate(h, p, auto) \/ CancelWork(h) \/ SetReload(h, auto)
  PROVE  OnTime'
<1>1. /\ SyncTypes /\ TaskTable /\ SendTypes /\ SendTypes' /\ Table(timers)
  BY SyncParts, TableParts DEF Types, TimerTypes
<1>2. CASE TimerCreate(h, p, auto) /\ daemon = NoReady
  <2>1. StartDaemon /\ daemon = NoReady
    BY <1>2 DEF TimerCreate
  <2> QED BY <2>1, OnTimeStart
<1>3. CASE ~(TimerCreate(h, p, auto) /\ daemon = NoReady)
  <2>1. UNCHANGED <<call, lost, state, due, cmds, txWaiter, daemon, asleep>>
    <3>1. TimerCreate(h, p, auto) => UNCHANGED <<call, lost, state, due, cmds, txWaiter, daemon, asleep>>
      BY <1>3 DEF TimerCreate, syncVars, histVars, taskVars, daemonVars, callVars
    <3>2. CancelWork(h) \/ SetReload(h, auto) =>
            UNCHANGED <<call, lost, state, due, cmds, txWaiter, daemon, asleep>>
      BY DEF CancelWork, SetReload, vars, callVars, histVars, sendVars, daemonVars, schedVars
    <3> QED BY <3>1, <3>2
  <2>2. \A t \in Slots : SenderOk(t)' <=> SenderOk(t)
    BY <2>1 DEF SenderOk, Full
  <2>3. DaemonRests
    BY <2>1 DEF DaemonRests, Steady
  <2>4. timers[h] \in TimerRecords
    BY <1>1 DEF Table, Sound
  <2>5. DaemonOk'
    <3>1. CASE TimerCreate(h, p, auto)
      <4> DEFINE r == [FreeTimer EXCEPT !.used = TRUE, !.auto = auto, !.period = p, !.gen = gen + 1]
      <4>1. timers' = [timers EXCEPT ![h] = r]
        BY <3>1 DEF TimerCreate
      <4>2. ~r.active
        BY DEF FreeTimer
      <4> HIDE DEF r
      <4> QED BY <1>1, <2>1, <2>3, <4>1, <4>2, OneTimer DEF OnTime
    <3>2. CASE CancelWork(h)
      <4>1. timers' = [timers EXCEPT ![h] = FreeTimer] /\ ~FreeTimer.used
        BY <3>2 DEF CancelWork, FreeTimer
      <4> QED BY <1>1, <2>1, <2>3, <4>1, OneTimer DEF OnTime
    <3>3. CASE SetReload(h, auto)
      <4> DEFINE r == [timers[h] EXCEPT !.auto = auto]
      <4>1. timers' = [timers EXCEPT ![h] = r]
        BY <3>3 DEF SetReload
      <4>2. r.used = timers[h].used /\ r.active = timers[h].active /\ r.expiry = timers[h].expiry
        BY <2>4 DEF TimerRecords
      <4>3. r.used /\ r.active => h \in Active /\ r.expiry = timers[h].expiry
        BY <4>2 DEF Active
      <4> HIDE DEF r
      <4> QED BY <1>1, <2>1, <2>3, <4>1, <4>3, OneTimer DEF OnTime
    <3> QED BY <3>1, <3>2, <3>3
  <2> QED BY <2>1, <2>2, <2>5 DEF OnTime
<1> QED BY <1>2, <1>3

\* the task that waited for room
LEMMA OnTimeSend ==
  ASSUME Types, Types', Standing, OnTime, SendAccepted \/ SendFails \/ SendWaitsAgain
  PROVE  OnTime'
<1>1. /\ SyncTypes /\ TaskTable /\ CallTypes /\ RunningIsReady /\ SendTypes /\ DaemonTypes
      /\ SendTypes'
  BY SyncParts DEF Types, TimerTypes
<1>2. /\ current \in Slots \ {daemon} /\ call[current] = <<"timer", current>>
      /\ daemon \in Slots
  <2>1. current \in Slots \ {daemon} /\ call[current] = <<"timer", current>>
    BY DEF SendAccepted, SendFails, SendWaitsAgain, BackInSend
  <2> QED BY <2>1 DEF OnTime, SenderOk
<1>3. ASSUME EndSend
      PROVE  /\ call'[current] = Idle /\ UNCHANGED <<daemon, asleep>>
             /\ \A u \in Slots \ {current} : /\ call'[u] = call[u] /\ (u \in lost => u \in lost')
                                             /\ txWaiter = u => txWaiter' = u
  BY <1>1, <1>2, <1>3 DEF EndSend, EndCall, CallTypes, daemonVars
<1>4. CASE SendAccepted
  <2>1. EndSend /\ Enqueue(msg[current]) /\ ~Full
    BY <1>4 DEF SendAccepted
  <2>2. DaemonOk'
    BY <1>1, <1>2, <1>3, <2>1, EnqueueWakes
  <2>3. Eased
    BY <1>1, <1>2, <2>1, EnqueueTypes DEF NoReady, Slots
  <2>4. ASSUME NEW t \in Slots \ {daemon}
        PROVE  SenderOk(t)'
    <3>1. CASE t = current
      BY <1>3, <2>1, <3>1, TimerCallKind DEF SenderOk
    <3>2. CASE t # current
      <4>1. SenderOk(t) /\ call'[t] = call[t] /\ (t \in lost => t \in lost')
        BY <1>3, <2>1, <2>4, <3>2 DEF OnTime
      <4>2. state'[t] = "BLOCKED" => state[t] = "BLOCKED"
        BY <2>3, <2>4 DEF Eased, Steady
      <4>3. daemon' = daemon
        BY <1>3, <2>1
      <4> QED BY <1>2, <2>1, <4>1, <4>2, <4>3 DEF SenderOk
    <3> QED BY <3>1, <3>2
  <2> QED BY <1>3, <2>1, <2>2, <2>4 DEF OnTime
<1>5. CASE SendFails
  <2>1. EndSend /\ Full /\ UNCHANGED <<state, due, cmds>>
    BY <1>5 DEF SendFails, taskVars
  <2>2. cmds # <<>> /\ Full'
    <3>1. QueueLength \in Nat \ {0} /\ Len(<<>>) = 0
      BY TimersAssumption
    <3> QED BY <2>1, <3>1 DEF Full
  <2>3. DaemonOk'
    BY <1>3, <2>1, <2>2, DaemonRuns DEF OnTime, DaemonOk, DaemonSleeps
  <2>4. ASSUME NEW t \in Slots \ {daemon}
        PROVE  SenderOk(t)'
    <3>1. CASE t = current
      BY <1>3, <2>1, <3>1, TimerCallKind DEF SenderOk
    <3>2. CASE t # current
      <4>1. SenderOk(t) /\ call'[t] = call[t] /\ (t \in lost => t \in lost')
            /\ (txWaiter = t => txWaiter' = t) /\ daemon' = daemon
        BY <1>3, <2>1, <2>4, <3>2 DEF OnTime
      <4> QED BY <2>1, <2>2, <4>1 DEF SenderOk
    <3> QED BY <3>1, <3>2
  <2> QED BY <1>3, <2>1, <2>3, <2>4 DEF OnTime
<1>6. CASE SendWaitsAgain
  <2>1. /\ Full /\ UNCHANGED <<call, daemon, asleep, cmds>>
        /\ \E d : WaitForRoom(d)
    BY <1>6 DEF SendWaitsAgain, callVars, daemonVars
  <2> QED BY <1>2, <2>1, RoomWaits
<1> QED BY <1>4, <1>5, <1>6

\* the callers of timers
LEMMA OnTimeTimers ==
  ASSUME Types, Types', Standing, OnTime, TimerStep
  PROVE  OnTime'
<1>1. ASSUME NEW h \in Handles, NEW p, NEW auto \in BOOLEAN, TimerCreate(h, p, auto)
      PROVE  OnTime'
  BY <1>1, OnTimeTable
<1>2. ASSUME NEW h \in Handles, NEW auto \in BOOLEAN, CancelWork(h) \/ SetReload(h, auto)
      PROVE  OnTime'
  BY <1>2, OnTimeTable
<1>3. ASSUME NEW h \in Handles, NEW op, NEW arg, TimerCall(op, h, arg) \/ PostWork(h, arg)
      PROVE  OnTime'
  BY <1>3, OnTimeCall DEF TimerCall, PostWork
<1>4. (\E h \in Handles : CancelWork(h)) => OnTime'
  <2>1. TRUE \in BOOLEAN
    OBVIOUS
  <2> QED BY <1>2, <2>1
<1> QED BY <1>1, <1>2, <1>3, <1>4, OnTimeSend DEF TimerStep

\* the daemon
LEMMA OnTimeDaemon ==
  ASSUME Types, Types', Standing, OnTime, DaemonStep
  PROVE  OnTime'
<1>1. /\ SyncTypes /\ TaskTable /\ CallTypes /\ RunningIsReady /\ SendTypes /\ SendTypes'
      /\ TableTypes /\ DaemonTypes /\ Table(timers)
  BY SyncParts, TableParts DEF Types, TimerTypes
<1>2. current = daemon /\ daemon \in Slots /\ state[daemon] = "READY"
  <2>1. daemon # NoReady /\ current = daemon
    BY DEF DaemonStep, Sleep, Receive, StartScan, Fire, EndScan, CallbackDelay, AtDaemon, InCallback
  <2> QED BY <1>1, <2>1 DEF DaemonTypes, RunningIsReady
<1>3. CASE Sleep
  <2> DEFINE until == CHOOSE d \in 1 .. MaxDelay :
                        /\ \E h \in Active : timers[h].expiry = d
                        /\ \A h \in Active : d <= timers[h].expiry
             wait == IF Active = {} THEN 0 ELSE until
  <2>1. /\ cmds = <<>> /\ Expired = {} /\ phase = <<"top", 0>>
        /\ Block(current, wait)
        /\ call' = [call EXCEPT ![daemon] = <<"timer", daemon>>] /\ lost' = lost
        /\ UNCHANGED <<daemon, timers, cmds, txWaiter>>
    BY <1>2, <1>3 DEF Sleep, AtDaemon, SyncBlock, StartCall, syncVars, histVars, tableVars, sendVars
  <2>2. behind = 0
    BY <1>1, <2>1 DEF DaemonTypes, NotBehind
  <2>3. Active # {} => until \in 1 .. MaxDelay /\ \A h \in Active : until <= timers[h].expiry
    BY <1>1, <2>1, <2>2, SleepTime
  <2>4. due'[daemon] = IF wait = 0 THEN Never ELSE wait
    BY <1>1, <1>2, <2>1 DEF Block, TaskTable
  <2> HIDE DEF until
  <2>5. ASSUME NEW h \in Active
        PROVE  due'[daemon] \in 0 .. timers[h].expiry
    <3>1. timers[h].expiry \in Int /\ until \in 1 .. MaxDelay /\ until <= timers[h].expiry
      BY <1>1, <2>3, <2>5 DEF Table, Sound, TimerRecords, Active
    <3> QED BY <2>4, <2>5, <3>1
  <2>6. DaemonOk'
    BY <2>1, <2>5 DEF DaemonOk, Active
  <2>7. \A u \in Slots \ {daemon} : SenderOk(u)' <=> SenderOk(u)
    <3>1. \A u \in Slots \ {daemon} : call'[u] = call[u] /\ state'[u] = state[u]
      BY <1>1, <1>2, <2>1 DEF Block, TaskTable, CallTypes
    <3> QED BY <2>1, <3>1 DEF SenderOk, Full
  <2> QED BY <2>1, <2>6, <2>7 DEF OnTime
<1>4. CASE Receive
  <2>1. /\ asleep' = FALSE /\ UNCHANGED <<call, lost, daemon>>
        /\ IF txWaiter = NoReady THEN UNCHANGED taskVars ELSE Resume(txWaiter, Reason)
    BY <1>4 DEF Receive, Awake, syncVars, histVars
  <2>2. DaemonOk'
    BY <2>1, DaemonRuns
  <2>3. ASSUME NEW t \in Slots \ {daemon}
        PROVE  SenderOk(t)'
    <3>1. SenderOk(t)
      BY <2>3 DEF OnTime
    <3>2. state'[t] = "BLOCKED" => state[t] = "BLOCKED" /\ txWaiter # t
      BY <1>1, <2>1, <2>3 DEF Resume, TaskTable, taskVars, NoReady, Slots
    <3> QED BY <2>1, <3>1, <3>2 DEF SenderOk
  <2> QED BY <2>1, <2>2, <2>3 DEF OnTime
<1>5. CASE StartScan
  <2>1. asleep' = FALSE /\ UNCHANGED <<call, lost, daemon, state, cmds, txWaiter>>
    BY <1>5 DEF StartScan, Awake, syncVars, histVars, schedVars, sendVars
  <2>2. \A t \in Slots : SenderOk(t)' <=> SenderOk(t)
    BY <2>1 DEF SenderOk, Full
  <2> QED BY <2>1, <2>2, DaemonRuns DEF OnTime
<1>6. CASE (\E h \in Handles : Fire(h)) \/ EndScan
  <2>1. UNCHANGED <<call, lost, daemon, state, cmds, txWaiter>>
    BY <1>6 DEF Fire, EndScan, vars, callVars, histVars, schedVars, sendVars
  <2>2. \A t \in Slots : SenderOk(t)' <=> SenderOk(t)
    BY <2>1 DEF SenderOk, Full
  <2>3. DaemonOk'
    BY <1>2, <2>1, DaemonRuns
  <2> QED BY <2>1, <2>2, <2>3 DEF OnTime
<1>7. ASSUME NEW d \in Delays, CallbackDelay(d)
      PROVE  OnTime'
  <2>1. /\ UNCHANGED <<call, lost, daemon, cmds, txWaiter>>
        /\ UNCHANGED taskVars \/ YieldTimed(current, d)
    BY <1>7 DEF CallbackDelay, callVars, histVars, timerVars, sendVars, daemonVars
  <2>2. /\ state'[daemon] # "BLOCKED"
        /\ \A u \in Slots \ {daemon} : state'[u] = state[u]
    BY <1>1, <1>2, <2>1 DEF YieldTimed, TaskTable, taskVars
  <2>3. \A t \in Slots \ {daemon} : SenderOk(t)' <=> SenderOk(t)
    BY <2>1, <2>2 DEF SenderOk, Full
  <2>4. DaemonOk'
    BY <2>1, <2>2, DaemonRuns
  <2> QED BY <2>1, <2>3, <2>4 DEF OnTime
<1> QED BY <1>3, <1>4, <1>5, <1>6, <1>7 DEF DaemonStep

\* every step
LEMMA OnTimeStep ==
  Types /\ Types' /\ Standing /\ OnTime /\ [TimersNext]_tvars => OnTime'
<1> SUFFICES ASSUME Types, Types', Standing, OnTime, [TimersNext]_tvars
             PROVE  OnTime'
  OBVIOUS
<1>1. CASE UNCHANGED tvars
  <2>1. UNCHANGED <<call, lost, daemon, asleep, state, due, cmds, txWaiter, timers>>
    BY <1>1 DEF tvars, vars, callVars, histVars, schedVars, timerVars, tableVars, sendVars, daemonVars
  <2>2. \A t \in Slots : SenderOk(t)' <=> SenderOk(t)
    BY <2>1 DEF SenderOk, Full
  <2>3. DaemonOk' <=> DaemonOk
    BY <2>1 DEF DaemonOk, DaemonSleeps, Active
  <2> QED BY <2>1, <2>2, <2>3 DEF OnTime
<1> QED BY <1>1, OnTimeSync, OnTimeTick, OnTimeTimers, OnTimeDaemon DEF TimersNext

\* so it is an invariant
LEMMA OnTimeInvariant == TimersSpec => [](Types /\ Standing /\ OnTime)
<1>1. TimersInit => OnTime
  <2> SUFFICES ASSUME TimersInit
               PROVE  OnTime
    OBVIOUS
  <2>1. call = [t \in Slots |-> Idle] /\ asleep = FALSE
    BY DEF TimersInit, Init
  <2> QED BY <2>1, TimerCallKind DEF OnTime, DaemonOk, DaemonSleeps, SenderOk
<1>2. TimersSpec => [](Types /\ Standing)
  <2>1. Types /\ Wakeups => Types /\ Standing
    BY DEF Wakeups
  <2> QED BY <2>1, WakeupsInvariant, PTL
<1>3. TimersSpec => []OnTime
  BY <1>1, <1>2, OnTimeStep, PTL DEF TimersSpec
<1> QED BY <1>2, <1>3, PTL

\* The daemon of the software timers never sleeps while a command waits, nor past
\* the expiry of a timer; and a task that waits for room in the command queue
\* sleeps only while the queue is full and the daemon knows of it, unless
\* another one took its place in s_cmd_tx_waiter or it was suspended: for every
\* length of the queue, and any number of tasks and timers.
THEOREM DaemonWakesInTime == TimersSpec => []DaemonIsOnTime
<1>1. Types /\ OnTime => DaemonIsOnTime
  <2> SUFFICES ASSUME Types, OnTime
               PROVE  DaemonIsOnTime
    OBVIOUS
  <2>1. daemon # NoReady => daemon \in Slots
    BY DEF Types, TimerTypes, DaemonTypes
  <2> QED BY <2>1 DEF OnTime, DaemonOk, DaemonSleeps, SenderOk, DaemonIsOnTime
<1> QED BY <1>1, OnTimeInvariant, PTL

-----------------------------------------------------------------------------
(* What the accepted calls want.                                           *)

Wants(m) == m.op \notin {"stop", "delete"}

\* the commands in the queue that timer h will obey
Pend(h) == {i \in DOMAIN cmds : cmds[i].h = h /\ cmds[i].gen = timers[h].gen}

\* a stop or change of timer h is under way
Undecided(h) == \E t \in Waiting(h) \ astray : msg[t].op \in Bumping

\* a command for the timer that was in the slot before does not fit this one
StrayOk(h) == \A t \in Waiting(h) \cap astray : msg[t].gen # timers[h].gen

\* the last of the pending commands says what is wanted, or the timer itself
LastSays(h) ==
  /\ Pend(h) = {} => timers[h].active = want[h]
  /\ \A i \in Pend(h) : (\A j \in Pend(h) : j <= i) => want[h] = Wants(cmds[i])

Told(h) == h \notin spoilt /\ timers[h].used => StrayOk(h) /\ (Undecided(h) \/ LastSays(h))

\* generations only grow
Fresh == /\ \A i \in DOMAIN cmds : cmds[i].gen <= gen
         /\ \A t \in Slots : msg[t].gen <= gen /\ msg[t].prev <= gen
         /\ \A h \in Handles : timers[h].gen <= gen

\* who waits for a timer that is deleted does wait
AstrayCalls == \A t \in astray : call[t] # Idle

Obeyed == Fresh /\ AstrayCalls /\ \A h \in Handles : Told(h)

\* timer h is no other than before
SameTimer(h) ==
  /\ timers'[h].gen = timers[h].gen /\ timers'[h].used = timers[h].used
  /\ timers'[h].active = timers[h].active /\ want'[h] = want[h]

\* nobody comes to wait with a command for timer h
SameSenders(h) ==
  /\ \A t \in Waiting(h)' : t \in Waiting(h) /\ msg'[t] = msg[t] /\ (t \in astray' => t \in astray)
  /\ Undecided(h) => Undecided(h)' \/ h \in spoilt'

StillSpoilt(h) == h \in spoilt => h \in spoilt' \/ ~timers'[h].used

\* nothing happens to timer h
LEMMA ToldStays ==
  ASSUME NEW h \in Handles, Told(h), SameTimer(h), SameSenders(h), StillSpoilt(h),
         LastSays(h) => LastSays(h)'
  PROVE  Told(h)'
<1> SUFFICES ASSUME h \notin spoilt', timers'[h].used
             PROVE  StrayOk(h)' /\ (Undecided(h)' \/ LastSays(h)')
  BY DEF Told
<1>1. StrayOk(h) /\ (Undecided(h) \/ LastSays(h))
  BY DEF Told, StillSpoilt, SameTimer
<1>2. StrayOk(h)'
  BY <1>1 DEF StrayOk, SameSenders, SameTimer
<1> QED BY <1>1, <1>2 DEF SameSenders

\* the queue is the same
LEMMA SaysStays ==
  ASSUME NEW h \in Handles, LastSays(h), SameTimer(h), cmds' = cmds
  PROVE  LastSays(h)'
<1>1. Pend(h)' = Pend(h)
  BY DEF Pend, SameTimer
<1> QED BY <1>1 DEF LastSays, SameTimer

\* a command joins the queue
LEMMA SaysAppended ==
  ASSUME cmds \in Seq(Commands), NEW m \in Commands, cmds' = Append(cmds, m), NEW h \in Handles,
         m.h = h, m.gen = timers'[h].gen, want'[h] = Wants(m)
  PROVE  LastSays(h)'
<1>1. /\ Len(cmds) \in Nat /\ DOMAIN cmds' = 1 .. (Len(cmds) + 1)
      /\ cmds'[Len(cmds) + 1] = m
  BY LenProperties
<1>2. Len(cmds) + 1 \in Pend(h)'
  BY <1>1 DEF Pend
<1>3. ASSUME NEW i \in Pend(h)', \A j \in Pend(h)' : j <= i
      PROVE  i = Len(cmds) + 1
  BY <1>1, <1>2, <1>3 DEF Pend
<1> QED BY <1>1, <1>2, <1>3 DEF LastSays

\* and is none that timer h obeys
LEMMA SaysAside ==
  ASSUME cmds \in Seq(Commands), NEW m \in Commands, cmds' = Append(cmds, m), NEW h \in Handles,
         ~(m.h = h /\ m.gen = timers[h].gen), LastSays(h), SameTimer(h)
  PROVE  LastSays(h)'
<1>1. /\ Len(cmds) \in Nat /\ DOMAIN cmds' = 1 .. (Len(cmds) + 1) /\ DOMAIN cmds = 1 .. Len(cmds)
      /\ cmds'[Len(cmds) + 1] = m /\ \A i \in 1 .. Len(cmds) : cmds'[i] = cmds[i]
  BY LenProperties
<1>2. \A i \in DOMAIN cmds' : (i \in DOMAIN cmds /\ cmds'[i] = cmds[i]) \/ cmds'[i] = m
  BY <1>1
<1>3. \A i \in DOMAIN cmds : i \in DOMAIN cmds' /\ cmds'[i] = cmds[i]
  BY <1>1
<1>4. Pend(h)' = Pend(h)
  BY <1>2, <1>3 DEF Pend, SameTimer
<1>5. \A i \in Pend(h) : cmds'[i] = cmds[i]
  BY <1>3 DEF Pend
<1> QED BY <1>4, <1>5 DEF LastSays, SameTimer

\* nothing is pending
LEMMA SaysNone ==
  ASSUME NEW h \in Handles, \A i \in DOMAIN cmds' : cmds'[i].h = h => cmds'[i].gen # timers'[h].gen,
         timers'[h].active = want'[h]
  PROVE  LastSays(h)'
BY DEF LastSays, Pend

\* the daemon takes a command
LEMMA SaysTail ==
  ASSUME cmds \in Seq(Commands), cmds # <<>>, cmds' = Tail(cmds), NEW h \in Handles, LastSays(h),
         timers'[h].gen = timers[h].gen, want'[h] = want[h],
         IF Head(cmds).h = h /\ Head(cmds).gen = timers[h].gen
         THEN timers'[h].active = Wants(Head(cmds)) ELSE timers'[h].active = timers[h].active
  PROVE  LastSays(h)'
<1>1. /\ Len(cmds) \in Nat \ {0} /\ DOMAIN cmds = 1 .. Len(cmds) /\ DOMAIN cmds' = 1 .. (Len(cmds) - 1)
      /\ \A i \in 1 .. (Len(cmds) - 1) : cmds'[i] = cmds[i + 1]
      /\ Head(cmds) = cmds[1] /\ 1 \in DOMAIN cmds
  BY LenProperties, HeadTailProperties, EmptySeq
<1>2. \A i \in Pend(h)' : i \in Int /\ i + 1 \in Pend(h) /\ cmds'[i] = cmds[i + 1]
  <2> SUFFICES ASSUME NEW i \in Pend(h)'
               PROVE  i \in Int /\ i + 1 \in Pend(h) /\ cmds'[i] = cmds[i + 1]
    OBVIOUS
  <2>1. i \in 1 .. (Len(cmds) - 1) /\ cmds'[i].h = h /\ cmds'[i].gen = timers[h].gen
    BY <1>1 DEF Pend
  <2>2. i + 1 \in DOMAIN cmds /\ cmds'[i] = cmds[i + 1]
    BY <1>1, <2>1
  <2> QED BY <2>1, <2>2 DEF Pend
<1>3. \A i \in Pend(h) : i \in Int /\ (i = 1 \/ i - 1 \in Pend(h)')
  <2> SUFFICES ASSUME NEW i \in Pend(h), i # 1
               PROVE  i \in Int /\ i - 1 \in Pend(h)'
    BY <1>1 DEF Pend
  <2>1. i \in 1 .. Len(cmds) /\ cmds[i].h = h /\ cmds[i].gen = timers[h].gen
    BY <1>1 DEF Pend
  <2>2. i - 1 \in 1 .. (Len(cmds) - 1) /\ (i - 1) + 1 = i
    BY <1>1, <2>1
  <2>3. cmds'[i - 1] = cmds[i] /\ i - 1 \in DOMAIN cmds'
    BY <1>1, <2>2
  <2> QED BY <2>1, <2>3 DEF Pend
<1>4. ASSUME Pend(h)' = {}
      PROVE  timers'[h].active = want'[h]
  <2>1. CASE 1 \in Pend(h)
    <3>1. \A j \in Pend(h) : j <= 1
      BY <1>3, <1>4
    <3>2. want[h] = Wants(cmds[1])
      BY <2>1, <3>1 DEF LastSays
    <3>3. cmds[1].h = h /\ cmds[1].gen = timers[h].gen
      BY <2>1 DEF Pend
    <3> QED BY <1>1, <3>2, <3>3
  <2>2. CASE 1 \notin Pend(h)
    <3>1. Pend(h) = {}
      BY <1>3, <1>4, <2>2
    <3>2. ~(Head(cmds).h = h /\ Head(cmds).gen = timers[h].gen)
      BY <1>1, <2>2 DEF Pend
    <3> QED BY <3>1, <3>2 DEF LastSays
  <2> QED BY <2>1, <2>2
<1>5. ASSUME NEW i \in Pend(h)', \A j \in Pend(h)' : j <= i
      PROVE  want'[h] = Wants(cmds'[i])
  <2>1. i \in Int /\ i + 1 \in Pend(h) /\ cmds'[i] = cmds[i + 1] /\ i >= 1
    BY <1>1, <1>2 DEF Pend
  <2>2. \A j \in Pend(h) : j <= i + 1
    <3>1. ASSUME NEW j \in Pend(h)
          PROVE  j <= i + 1
      <4>1. j \in Int /\ (j = 1 \/ j - 1 \in Pend(h)')
        BY <1>3, <3>1
      <4>2. j - 1 \in Pend(h)' => j - 1 <= i
        BY <1>5
      <4> QED BY <2>1, <4>1, <4>2
    <3> QED BY <3>1
  <2> QED BY <2>1, <2>2 DEF LastSays
<1> QED BY <1>4, <1>5 DEF LastSays
\* a task that waits with a command goes on to wait, or is deleted
LEMMA SendersGoOn ==
  ASSUME SyncTypes, Standing, SyncStep, NEW t \in Slots, call[t] = <<"timer", t>>
  PROVE  call'[t] \in {<<"timer", t>>, Idle}
<1>1. CallTypes /\ RunningIsReady
  BY SyncParts
<1>2. t \notin stale
  BY NotOnObjects DEF Standing, StaleCalls, OnObject
<1>3. \A K : K \subseteq Waits /\ CallsOf(K) => call'[t] = call[t]
  <2> SUFFICES ASSUME NEW K, K \subseteq Waits, CallsOf(K)
               PROVE  call'[t] = call[t]
    OBVIOUS
  <2>1. call[t] \notin K \cup {Idle}
    BY TimerCallKind
  <2> QED BY <1>2, <2>1, OtherCalls DEF Undisturbed
<1>4. CASE LineStep
  BY <1>1, <1>3, <1>4, LineStepCalls, KindsDisjoint
<1>5. CASE GroupStep
  BY <1>1, <1>3, <1>5, GroupStepCalls, KindsDisjoint
<1>6. CASE NotifyStep
  BY <1>1, <1>3, <1>6, NotifyStepCalls, KindsDisjoint
<1>7. CASE ObjectStep
  BY <1>7 DEF ObjectStep, QueueCreate, SemCreate, GroupCreate, Destroy, callVars
<1>8. CASE TaskStep
  <2>1. ASSUME NEW u \in Slots, TaskDelete(u)
        PROVE  call'[t] \in {call[t], Idle}
    BY <1>1, <2>1 DEF TaskDelete, CallTypes
  <2> QED BY <1>8, <2>1 DEF TaskStep, TaskCreate, Suspend, ResumeTask, Delay, callVars
<1>9. CASE Dispatch
  BY <1>9 DEF Dispatch, callVars
<1> QED BY <1>4, <1>5, <1>6, <1>7, <1>8, <1>9 DEF SyncStep

\* a step of EspSync
LEMMA ObeyedSync ==
  ASSUME Types, Standing, Obeyed, SyncStep
  PROVE  Obeyed'
<1>1. SyncTypes /\ SendTypes
  BY DEF Types, TimerTypes
<1>2. /\ UNCHANGED <<timers, gen, want, cmds, msg, daemon>>
      /\ spoilt' = spoilt \cup Abandoned /\ astray' = {t \in astray : call'[t] # Idle}
  BY DEF SyncStep, sendVars, daemonVars
<1>3. Fresh' /\ AstrayCalls'
  BY <1>2 DEF Obeyed, Fresh, AstrayCalls
<1>4. ASSUME NEW h \in Handles
      PROVE  Told(h)'
  <2>1. \A t \in Waiting(h)' : t \in Waiting(h)
    BY <1>1, <1>2, SyncCalls DEF Waiting, CallsStay
  <2>2. ASSUME NEW t \in Waiting(h) \ astray, msg[t].op \in Bumping
        PROVE  Undecided(h)' \/ h \in spoilt'
    <3>1. call'[t] \in {<<"timer", t>>, Idle}
      BY <1>1, SendersGoOn DEF Waiting
    <3>2. CASE call'[t] = <<"timer", t>>
      BY <1>2, <2>2, <3>2 DEF Waiting, Undecided
    <3>3. CASE call'[t] = Idle
      BY <1>2, <2>2, <3>3 DEF Abandoned
    <3> QED BY <3>1, <3>2, <3>3
  <2>3. SameSenders(h)
    BY <1>2, <2>1, <2>2 DEF SameSenders, Undecided
  <2>4. SameTimer(h) /\ StillSpoilt(h) /\ (LastSays(h) => LastSays(h)')
    BY <1>2, SaysStays DEF SameTimer, StillSpoilt
  <2> QED BY <2>3, <2>4, ToldStays DEF Obeyed
<1> QED BY <1>3, <1>4 DEF Obeyed

\* nothing of this changes, but for when the timers expire
LEMMA ObeyedStays ==
  ASSUME Obeyed, UNCHANGED <<gen, want, cmds, msg, daemon, spoilt, astray>>,
         \A t \in Slots : call'[t] = call[t] \/ (t = daemon /\ call'[t] # Idle),
         \A h \in Handles : SameTimer(h), astray \subseteq Slots
  PROVE  Obeyed'
<1>1. Fresh' /\ AstrayCalls'
  BY DEF Obeyed, Fresh, AstrayCalls, SameTimer
<1>2. ASSUME NEW h \in Handles
      PROVE  Told(h)'
  <2>1. Waiting(h)' = Waiting(h)
    BY DEF Waiting
  <2>2. SameSenders(h)
    BY <2>1 DEF SameSenders, Undecided
  <2>3. StillSpoilt(h) /\ (LastSays(h) => LastSays(h)')
    BY <1>2, SaysStays DEF StillSpoilt
  <2> QED BY <1>2, <2>2, <2>3, ToldStays DEF Obeyed
<1> QED BY <1>1, <1>2 DEF Obeyed

\* the clock moves
LEMMA ObeyedTick ==
  ASSUME Types, Obeyed, TimersTick
  PROVE  Obeyed'
<1>1. /\ Table(timers) /\ astray \subseteq Slots
      /\ UNCHANGED <<gen, want, cmds, msg, daemon, spoilt, astray, call>>
      /\ timers' = [h \in Handles |->
           IF h \in Active THEN [timers[h] EXCEPT !.expiry = @ - Passed] ELSE timers[h]]
  BY TableParts DEF Types, TimerTypes, SendTypes, TimersTick, Tick, sendVars
<1> HIDE DEF Passed
<1>2. \A h \in Handles : SameTimer(h)
  <2>1. \A h \in Handles : timers[h] \in TimerRecords
    BY <1>1 DEF Table, Sound
  <2> QED BY <1>1, <2>1 DEF SameTimer, TimerRecords
<1>3. \A t \in Slots : call'[t] = call[t] \/ (t = daemon /\ call'[t] # Idle)
  BY <1>1
<1>4. astray \subseteq Slots /\ UNCHANGED <<gen, want, cmds, msg, daemon, spoilt, astray>>
  BY <1>1
<1> QED BY <1>2, <1>3, <1>4, ObeyedStays
\* what prvExecuteCommand makes of a timer
LEMMA Obeys ==
  ASSUME NEW r \in TimerRecords, NEW m \in Commands, m.op # "delete"
  PROVE  /\ Obeying(r, m).gen = r.gen /\ Obeying(r, m).used = r.used
         /\ Obeying(r, m).active = Wants(m)
<1>1. m.op \in Ops
  BY CommandFields
<1>2. CASE m.op \in {"start", "restart"}
  BY <1>2 DEF Obeying, Wants, TimerRecords
<1>3. CASE m.op = "change"
  BY <1>3 DEF Obeying, Wants, TimerRecords
<1>4. CASE m.op = "work"
  BY <1>4 DEF Obeying, Wants, TimerRecords
<1>5. CASE m.op = "stop"
  BY <1>5 DEF Obeying, Wants, TimerRecords
<1> QED BY <1>1, <1>2, <1>3, <1>4, <1>5 DEF Ops, Renewing, Bumping

\* commands are for one timer
LEMMA OneTimerOnly ==
  ASSUME NEW ts, Table(ts), NEW m \in Commands, NEW k \in Handles, k # m.h
  PROVE  /\ Executed(ts, m)[k] = ts[k] /\ Settled(ts, m)[k] = ts[k]
         /\ ts = timers => Marked(m)[k] = timers[k]
BY DEF Executed, Settled, Marked, Table

\* the daemon executes a command
LEMMA ObeyedReceive ==
  ASSUME Types, Obeyed, Receive
  PROVE  Obeyed'
<1> DEFINE m == Head(cmds)
<1>1. /\ Table(timers) /\ cmds \in Seq(Commands) /\ cmds # <<>>
      /\ cmds' = Tail(cmds) /\ timers' = Executed(timers, m)
      /\ UNCHANGED <<gen, want, spoilt, astray, msg, daemon, call>>
  BY TableParts DEF Types, TimerTypes, SendTypes, Receive, Awake
<1>2. /\ Len(cmds) \in Nat \ {0} /\ DOMAIN cmds = 1 .. Len(cmds) /\ DOMAIN cmds' = 1 .. (Len(cmds) - 1)
      /\ \A i \in 1 .. (Len(cmds) - 1) : cmds'[i] = cmds[i + 1]
      /\ m \in Commands
  BY <1>1, LenProperties, HeadTailProperties, EmptySeq, ElementOfSeq
<1> HIDE DEF m
<1>3. ASSUME NEW h \in Handles, timers[h].used, m.h = h, m.gen = timers[h].gen
      PROVE  timers'[h] = Obeying(timers[h], m) /\ timers[h] \in TimerRecords
  BY <1>1, <1>3 DEF Executed, Table, Sound
<1>4. ASSUME NEW h \in Handles, ~timers[h].used \/ m.h # h \/ m.gen # timers[h].gen
      PROVE  timers'[h] = timers[h]
  BY <1>1, <1>4 DEF Executed, Table
<1>5. \A h \in Handles : timers'[h].gen \in {0, timers[h].gen}
  <2>1. ASSUME NEW h \in Handles, timers[h].used, m.h = h, m.gen = timers[h].gen
        PROVE  timers'[h].gen \in {0, timers[h].gen}
    <3>1. m.op = "delete" => Obeying(timers[h], m).gen = 0
      BY DEF Obeying, FreeTimer
    <3> QED BY <1>2, <1>3, <2>1, <3>1, Obeys
  <2> QED BY <1>4, <2>1
<1>6. Fresh'
  <2>1. gen \in Nat
    BY TableParts, TimersAssumption DEF Types, TimerTypes
  <2>2. \A i \in DOMAIN cmds' : cmds'[i].gen <= gen'
    BY <1>1, <1>2 DEF Obeyed, Fresh
  <2> QED BY <1>1, <1>5, <2>1, <2>2 DEF Obeyed, Fresh
<1>7. ASSUME NEW h \in Handles, timers'[h].used
      PROVE  Told(h)'
  <2>1. SameSenders(h) /\ StillSpoilt(h)
    BY <1>1 DEF SameSenders, StillSpoilt, Undecided, Waiting
  <2>2. /\ timers'[h].gen = timers[h].gen /\ timers'[h].used = timers[h].used
        /\ IF m.h = h /\ m.gen = timers[h].gen
           THEN timers'[h].active = Wants(m) ELSE timers'[h].active = timers[h].active
    <3>1. CASE m.h = h /\ m.gen = timers[h].gen
      <4>1. timers[h].used
        BY <1>4, <1>7
      <4>2. timers'[h] = Obeying(timers[h], m) /\ timers[h] \in TimerRecords
        BY <1>3, <3>1, <4>1
      <4>3. m.op # "delete"
        BY <1>7, <4>2 DEF Obeying, FreeTimer
      <4> QED BY <1>2, <3>1, <4>2, <4>3, Obeys
    <3>2. CASE ~(m.h = h /\ m.gen = timers[h].gen)
      BY <1>4, <3>2
    <3> QED BY <3>1, <3>2
  <2>3. LastSays(h) => LastSays(h)'
    <3>1. m = Head(cmds) /\ want'[h] = want[h]
      BY <1>1 DEF m
    <3> QED BY <1>1, <2>2, <3>1, SaysTail
  <2>4. Told(h) /\ (StrayOk(h) => StrayOk(h)') /\ (Undecided(h) => Undecided(h)' \/ h \in spoilt')
    BY <2>1, <2>2 DEF Obeyed, StrayOk, SameSenders
  <2> QED BY <1>7, <2>1, <2>2, <2>3, <2>4 DEF Told, StillSpoilt
<1>8. \A h \in Handles : Told(h)'
  BY <1>7 DEF Told
<1> QED BY <1>1, <1>6, <1>8 DEF Obeyed, AstrayCalls

\* a timer fires
LEMMA ObeyedFire ==
  ASSUME Types, Obeyed, NEW h \in Handles, Fire(h)
  PROVE  Obeyed'
<1> DEFINE r == IF timers[h].work THEN FreeTimer
                ELSE IF timers[h].auto THEN [timers[h] EXCEPT !.expiry = timers[h].period - behind]
                ELSE [timers[h] EXCEPT !.active = FALSE, !.expiry = 0]
<1>1. /\ Table(timers) /\ want \in [Handles -> BOOLEAN] /\ astray \subseteq Slots
      /\ timers' = [timers EXCEPT ![h] = r]
      /\ want' = [want EXCEPT ![h] =
                    @ /\ (Pending(h) \/ (timers[h].auto /\ ~timers[h].work))]
      /\ UNCHANGED <<gen, spoilt, astray, msg, daemon, call, cmds>>
  BY TableParts DEF Types, TimerTypes, SendTypes, Fire, vars, callVars, sendVars
<1>2. timers[h] \in TimerRecords /\ timers[h].gen \in 0 .. MaxGen
  BY <1>1 DEF Table, Sound, TimerRecords
<1>3. /\ timers[h].work => r = FreeTimer
      /\ ~timers[h].work => r.gen = timers[h].gen /\ r.used = timers[h].used
      /\ ~timers[h].work /\ timers[h].auto => r.active = timers[h].active
      /\ ~timers[h].work /\ ~timers[h].auto => r.active = FALSE
  BY <1>2 DEF TimerRecords
<1>4. timers'[h] = r /\ \A k \in Handles : k # h => timers'[k] = timers[k] /\ want'[k] = want[k]
  BY <1>1 DEF Table
<1> HIDE DEF r
<1>5. Fresh'
  <2>1. gen \in Nat /\ FreeTimer.gen = 0
    BY TableParts, TimersAssumption DEF Types, TimerTypes, FreeTimer
  <2> QED BY <1>1, <1>3, <1>4, <2>1 DEF Obeyed, Fresh
<1>6. \A k \in Handles : SameSenders(k) /\ StillSpoilt(k)
  BY <1>1 DEF SameSenders, StillSpoilt, Undecided, Waiting
<1>7. ASSUME NEW k \in Handles, k # h
      PROVE  Told(k)'
  <2>1. SameTimer(k)
    BY <1>4, <1>7 DEF SameTimer
  <2> QED BY <1>1, <1>6, <2>1, SaysStays, ToldStays DEF Obeyed
<1>8. Told(h)'
  <2>1. CASE timers[h].work
    BY <1>3, <1>4, <2>1 DEF Told, FreeTimer
  <2>2. CASE ~timers[h].work /\ timers[h].auto
    <3>1. want'[h] = want[h]
      BY <1>1, <2>2
    <3>2. SameTimer(h)
      BY <1>3, <1>4, <2>2, <3>1 DEF SameTimer
    <3> QED BY <1>1, <1>6, <3>2, SaysStays, ToldStays DEF Obeyed
  <2>3. CASE ~timers[h].work /\ ~timers[h].auto
    <3>1. /\ timers'[h].gen = timers[h].gen /\ timers'[h].used = timers[h].used
          /\ timers'[h].active = FALSE
      BY <1>3, <1>4, <2>3
    <3>2. Pend(h)' = Pend(h) /\ (Pending(h) <=> Pend(h) # {})
      BY <1>1, <3>1 DEF Pend, Pending
    <3>3. /\ Pend(h) = {} => want'[h] = FALSE
          /\ Pend(h) # {} => want'[h] = want[h]
      BY <1>1, <2>3, <3>2
    <3>4. LastSays(h) => LastSays(h)'
      BY <1>1, <3>1, <3>2, <3>3 DEF LastSays
    <3>5. StrayOk(h) => StrayOk(h)'
      BY <1>6, <3>1 DEF StrayOk, SameSenders
    <3> QED BY <1>6, <3>1, <3>4, <3>5 DEF Obeyed, Told, SameSenders, StillSpoilt
  <2> QED BY <2>1, <2>2, <2>3
<1> QED BY <1>1, <1>5, <1>7, <1>8 DEF Obeyed, AstrayCalls

\* the daemon
LEMMA ObeyedDaemon ==
  ASSUME Types, Obeyed, DaemonStep
  PROVE  Obeyed'
<1>1. Table(timers) /\ astray \subseteq Slots /\ CallTypes /\ (daemon # NoReady => daemon \in Slots)
  BY TableParts, SyncParts DEF Types, TimerTypes, SendTypes, DaemonTypes
<1>2. CASE Sleep
  <2>1. /\ daemon \in Slots /\ call' = [call EXCEPT ![daemon] = <<"timer", daemon>>]
        /\ UNCHANGED <<gen, want, cmds, msg, daemon, spoilt, astray>> /\ timers' = timers
    <3>1. daemon = current /\ daemon \in Slots
      BY <1>1, <1>2 DEF Sleep, AtDaemon
    <3> QED BY <1>2, <3>1 DEF Sleep, StartCall, tableVars, sendVars
  <2>2. \A t \in Slots : call'[t] = call[t] \/ (t = daemon /\ call'[t] # Idle)
    BY <1>1, <2>1, TimerCallKind DEF CallTypes
  <2>3. \A h \in Handles : SameTimer(h)
    BY <2>1 DEF SameTimer
  <2>4. astray \subseteq Slots /\ UNCHANGED <<gen, want, cmds, msg, daemon, spoilt, astray>>
    BY <1>1, <2>1
  <2> QED BY <2>2, <2>3, <2>4, ObeyedStays
<1>3. CASE StartScan
  <2>1. /\ UNCHANGED <<gen, want, cmds, msg, daemon, spoilt, astray, call>>
        /\ timers' = [h \in Handles |->
             [timers[h] EXCEPT !.expiry = IF timers[h].expiry > 0 THEN timers[h].expiry ELSE 0]]
    BY <1>3 DEF StartScan, Awake, sendVars
  <2>2. \A h \in Handles : timers[h] \in TimerRecords
    BY <1>1 DEF Table, Sound
  <2>3. \A h \in Handles : SameTimer(h)
    BY <2>1, <2>2 DEF SameTimer, TimerRecords
  <2>4. \A t \in Slots : call'[t] = call[t] \/ (t = daemon /\ call'[t] # Idle)
    BY <2>1
  <2>5. astray \subseteq Slots /\ UNCHANGED <<gen, want, cmds, msg, daemon, spoilt, astray>>
    BY <1>1, <2>1
  <2> QED BY <2>3, <2>4, <2>5, ObeyedStays
<1>4. CASE EndScan \/ \E d \in Delays : CallbackDelay(d)
  <2>1. UNCHANGED <<gen, want, cmds, msg, daemon, spoilt, astray, call, timers>>
    BY <1>4 DEF EndScan, CallbackDelay, vars, callVars, timerVars, tableVars, sendVars, daemonVars
  <2>2. /\ \A t \in Slots : call'[t] = call[t] \/ (t = daemon /\ call'[t] # Idle)
        /\ \A h \in Handles : SameTimer(h)
    BY <2>1 DEF SameTimer
  <2>3. astray \subseteq Slots /\ UNCHANGED <<gen, want, cmds, msg, daemon, spoilt, astray>>
    BY <1>1, <2>1
  <2> QED BY <2>2, <2>3, ObeyedStays
<1> QED BY <1>2, <1>3, <1>4, ObeyedReceive, ObeyedFire DEF DaemonStep
\* a command as the calls make them: with a new generation, or for a timer that is there
Issued(m) ==
  /\ m \in Commands /\ gen' \in Nat /\ gen <= gen' /\ m.gen <= gen' /\ m.prev <= gen'
  /\ IF m.op \in Renewing THEN gen < m.gen ELSE m.gen = timers[m.h].gen
  /\ m.op # "work" => timers[m.h].used

\* the calls make such commands
LEMMA CallsIssue ==
  ASSUME Types, Fresh, NEW h \in Handles, NEW op \in Ops, NEW arg \in 0 .. MaxDelay,
         op \in Renewing => gen < MaxGen, op # "work" => timers[h].used,
         gen' = IF op \in Renewing THEN gen + 1 ELSE gen
  PROVE  Issued(Command(op, h, arg)) /\ Command(op, h, arg).h = h /\ Command(op, h, arg).op = op
<1>1. TableTypes /\ gen \in 0 .. MaxGen /\ timers[h].gen \in Nat
  BY TimersAssumption DEF Types, TimerTypes, TableTypes
<1>2. op \notin Renewing => timers[h].used
  BY DEF Renewing
<1>3. Command(op, h, arg) \in Commands /\ Command(op, h, arg).op = op /\ Command(op, h, arg).h = h
  BY <1>1, <1>2, CommandOk
<1>4. /\ Command(op, h, arg).prev = timers[h].gen
      /\ Command(op, h, arg).gen = IF op \in Renewing THEN gen + 1 ELSE timers[h].gen
  BY DEF Command
<1>5. timers[h].gen <= gen
  BY DEF Fresh
<1> QED BY <1>1, <1>3, <1>4, <1>5 DEF Issued

\* the timer the command is for
LEMMA MarkedTimer ==
  ASSUME Table(timers), NEW m, Issued(m)
  PROVE  /\ Marked(m)[m.h].gen = m.gen /\ Marked(m)[m.h].used /\ Marked(m)[m.h] \in TimerRecords
         /\ m.op \notin Renewing => Marked(m) = timers
<1>1. m \in Commands /\ m.h \in Handles /\ timers[m.h] \in TimerRecords /\ m.gen \in 1 .. MaxGen
  BY CommandFields DEF Issued, Table, Sound
<1>2. CASE m.op \in Bumping
  <2>1. Marked(m)[m.h] = [timers[m.h] EXCEPT !.gen = m.gen]
    <3>1. Marked(m) = [timers EXCEPT ![m.h] = [timers[m.h] EXCEPT !.gen = m.gen]]
      BY <1>2 DEF Marked, Bumping
    <3> QED BY <1>1, <3>1 DEF Table
  <2>2. timers[m.h].used /\ m.op \in Renewing
    BY <1>2 DEF Issued, Bumping, Renewing
  <2> QED BY <1>1, <2>1, <2>2, TimersAssumption DEF TimerRecords
<1>3. CASE m.op = "work"
  <2>1. Marked(m)[m.h] = [FreeTimer EXCEPT !.used = TRUE, !.work = TRUE, !.gen = m.gen]
    BY <1>1, <1>3 DEF Marked, Table, Bumping
  <2>2. /\ Marked(m)[m.h].gen = m.gen /\ Marked(m)[m.h].used
        /\ Marked(m)[m.h] \in TimerRecords
    <3> DEFINE r == [FreeTimer EXCEPT !.used = TRUE, !.work = TRUE, !.gen = m.gen]
    <3>1. Sound(r)
      <4>1. TRUE \in BOOLEAN /\ 0 \in 0 .. MaxDelay
        BY MaxDelayAssumption
      <4>2. \A g \in 1 .. MaxGen : Sound([FreeTimer EXCEPT !.used = TRUE, !.work = TRUE, !.gen = g])
        BY <4>1, SoundTimers
      <4> QED BY <1>1, <4>2
    <3>2. r.gen = m.gen /\ r.used
      BY DEF FreeTimer
    <3> HIDE DEF r
    <3>3. Marked(m)[m.h] = r
      BY <2>1 DEF r
    <3> QED BY <3>1, <3>2, <3>3 DEF Sound
  <2> QED BY <1>3, <2>2 DEF Renewing
<1>4. CASE m.op \notin Renewing
  BY <1>1, <1>4 DEF Marked, Issued, Renewing
<1> QED BY <1>2, <1>3, <1>4 DEF Renewing

\* tables do not make generations up
LEMMA TableFresh ==
  ASSUME Types, Fresh, NEW m, Issued(m),
         timers' = Settled(Marked(m), m) \/ timers' = Settled(Executed(Marked(m), m), m)
  PROVE  \A k \in Handles : timers'[k].gen <= gen'
<1>1. /\ Table(timers) /\ m \in Commands /\ m.h \in Handles /\ gen' \in Nat
      /\ m.gen <= gen' /\ \A k \in Handles : timers[k].gen <= gen'
  <2>1. Table(timers) /\ gen \in Nat /\ \A k \in Handles : timers[k].gen \in Nat
    BY TableParts, TimersAssumption DEF Types, TimerTypes, Table, Sound, TimerRecords
  <2>2. gen' \in Nat /\ gen <= gen' /\ \A k \in Handles : timers[k].gen <= gen
    BY DEF Issued, Fresh
  <2> QED BY <2>1, <2>2, CommandFields DEF Issued
<1>2. Table(Marked(m)) /\ \A k \in Handles : Marked(m)[k].gen <= gen'
  <2>1. Marked(m)[m.h].gen = m.gen
    BY <1>1, MarkedTimer
  <2>2. \A k \in Handles : k # m.h => Marked(m)[k] = timers[k]
    BY <1>1, OneTimerOnly
  <2> QED BY <1>1, <2>1, <2>2, MarkedOk
<1>3. Table(Executed(Marked(m), m)) /\ \A k \in Handles : Executed(Marked(m), m)[k].gen <= gen'
  <2> DEFINE ts == Marked(m)
  <2>1. Table(ts) /\ \A k \in Handles : ts[k].gen <= gen'
    BY <1>2
  <2> HIDE DEF ts
  <2>2. ts[m.h] \in TimerRecords
    BY <1>1, <2>1 DEF Table, Sound
  <2>3. Obeying(ts[m.h], m).gen \in {0, ts[m.h].gen}
    <3>1. m.op = "delete" => Obeying(ts[m.h], m).gen = 0
      BY DEF Obeying, FreeTimer
    <3> QED BY <1>1, <2>2, <3>1, Obeys
  <2>4. Executed(ts, m)[m.h] \in {ts[m.h], Obeying(ts[m.h], m)}
    BY <1>1, <2>1 DEF Executed, Table
  <2>5. \A k \in Handles : k # m.h => Executed(ts, m)[k] = ts[k]
    BY <1>1, <2>1, OneTimerOnly
  <2>6. Table(Executed(ts, m))
    BY <1>1, <2>1, ExecutedOk
  <2>7. \A k \in Handles : Executed(ts, m)[k].gen <= gen'
    BY <1>1, <2>1, <2>3, <2>4, <2>5
  <2> QED BY <2>6, <2>7 DEF ts
<1>4. ASSUME NEW ts, Table(ts), \A k \in Handles : ts[k].gen <= gen'
      PROVE  \A k \in Handles : Settled(ts, m)[k].gen <= gen'
  <2>1. FreeTimer.gen = 0
    BY DEF FreeTimer
  <2> QED BY <1>1, <1>4, <2>1 DEF Settled, Table
<1> QED BY <1>2, <1>3, <1>4
\* who waits for another timer is not stranded with this one
LEMMA StrandedElse ==
  ASSUME NEW m, NEW k \in Handles, k # m.h, NEW t \in Waiting(k)
  PROVE  t \in astray \cup Stranded(m) <=> t \in astray
BY DEF Waiting, Stranded

\* the tables of the calls, but for the timer called
LEMMA CallElse ==
  ASSUME Table(timers), NEW m \in Commands, NEW k \in Handles, k # m.h,
         \/ timers' = Settled(timers, m)
         \/ timers' = Settled(Marked(m), m)
         \/ timers' = Settled(Executed(Marked(m), m), m)
  PROVE  timers'[k] = timers[k]
<1>1. Table(Marked(m)) /\ Marked(m)[k] = timers[k]
  BY MarkedOk, OneTimerOnly
<1>2. Table(Executed(Marked(m), m)) /\ Executed(Marked(m), m)[k] = timers[k]
  BY <1>1, ExecutedOk, OneTimerOnly
<1>3. \A ts : Table(ts) => Settled(ts, m)[k] = ts[k]
  BY OneTimerOnly
<1> QED BY <1>1, <1>2, <1>3

\* and a timer that is deleted
LEMMA CallDeletes ==
  ASSUME Table(timers), NEW m \in Commands, m.op = "delete",
         \/ timers' = Settled(timers, m)
         \/ timers' = Settled(Marked(m), m)
         \/ timers' = Settled(Executed(Marked(m), m), m)
  PROVE  Told(m.h)'
<1>1. \A ts : Table(ts) => ~Settled(ts, m)[m.h].used
  <2>1. m.h \in Handles /\ ~FreeTimer.used
    BY CommandFields DEF FreeTimer
  <2> QED BY <2>1 DEF Settled, Table
<1>2. Table(Marked(m)) /\ Table(Executed(Marked(m), m))
  BY MarkedOk, ExecutedOk
<1>3. ~timers'[m.h].used
  BY <1>1, <1>2
<1> QED BY <1>3 DEF Told

\* the generations of the commands that wait
LEMMA MessageNumbers ==
  ASSUME Types
  PROVE  \A t \in Slots : msg[t].gen \in Nat /\ msg[t].prev \in Nat
<1>1. \A t \in Slots : msg[t] \in Commands \/ msg[t] = NoCmd
  BY DEF Types, TimerTypes, SendTypes
<1>2. NoCmd.gen = 0 /\ NoCmd.prev = 0 /\ \A m \in Commands : m.gen \in Nat /\ m.prev \in Nat
  BY CommandFields, TimersAssumption DEF NoCmd
<1> QED BY <1>1, <1>2

\* a new generation fits no command that was there before
LEMMA NewGeneration ==
  ASSUME Types, Fresh, NEW h \in Handles, gen < timers'[h].gen, timers'[h].gen \in Nat
  PROVE  /\ (\A t \in Waiting(h)' \cap astray' : msg'[t] = msg[t]) => StrayOk(h)'
         /\ \A i \in DOMAIN cmds : cmds[i].gen # timers'[h].gen
<1>1. gen \in Nat /\ \A t \in Slots : msg[t].gen \in Nat /\ msg[t].gen <= gen
  BY MessageNumbers, TimersAssumption DEF Types, TimerTypes, TableTypes, Fresh
<1>2. \A i \in DOMAIN cmds : cmds[i].gen \in Nat /\ cmds[i].gen <= gen
  <2>1. \A i \in DOMAIN cmds : cmds[i] \in Commands
    BY ElementOfSeq, LenProperties DEF Types, TimerTypes, SendTypes
  <2> QED BY <2>1, CommandFields, TimersAssumption DEF Fresh
<1>3. (\A t \in Waiting(h)' \cap astray' : msg'[t] = msg[t]) => StrayOk(h)'
  <2> SUFFICES ASSUME \A t \in Waiting(h)' \cap astray' : msg'[t] = msg[t],
                      NEW t \in Waiting(h)' \cap astray'
               PROVE  msg'[t].gen # timers'[h].gen
    BY DEF StrayOk
  <2>1. t \in Slots /\ msg'[t] = msg[t]
    BY DEF Waiting
  <2> QED BY <1>1, <2>1
<1> QED BY <1>1, <1>2, <1>3

\* older commands stay old
LEMMA GrownFresh ==
  ASSUME Types, Fresh, gen' \in Nat, gen <= gen', cmds' = cmds \/ cmds' = <<>>,
         \A t \in Slots : msg'[t] = msg[t], \A k \in Handles : timers'[k].gen <= gen'
  PROVE  Fresh'
<1>1. \A i \in DOMAIN cmds : cmds[i].gen \in Nat
  <2>1. \A i \in DOMAIN cmds : cmds[i] \in Commands
    BY ElementOfSeq, LenProperties DEF Types, TimerTypes, SendTypes
  <2> QED BY <2>1, CommandFields, TimersAssumption
<1>2. \A t \in Slots : msg[t].gen \in Nat /\ msg[t].prev \in Nat
  BY MessageNumbers
<1>3. gen \in Nat
  BY TimersAssumption DEF Types, TimerTypes, TableTypes
<1>4. \A i \in DOMAIN cmds' : cmds'[i].gen <= gen'
  BY <1>1, <1>3 DEF Fresh
<1>5. \A t \in Slots : msg'[t].gen <= gen' /\ msg'[t].prev <= gen'
  BY <1>2, <1>3 DEF Fresh
<1> QED BY <1>4, <1>5 DEF Fresh

\* what is in the queue after a command joined it
LEMMA Joined ==
  ASSUME cmds \in Seq(Commands), NEW m \in Commands, cmds' = Append(cmds, m)
  PROVE  \A i \in DOMAIN cmds' : cmds'[i] = m \/ (i \in DOMAIN cmds /\ cmds'[i] = cmds[i])
<1>1. Len(cmds) \in Nat /\ DOMAIN cmds = 1 .. Len(cmds)
  BY LenProperties
<1>2. /\ DOMAIN cmds' = 1 .. (Len(cmds) + 1) /\ cmds'[Len(cmds) + 1] = m
      /\ \A i \in 1 .. Len(cmds) : cmds'[i] = cmds[i]
  BY <1>1
<1> QED BY <1>1, <1>2

\* nor is there a newer one among those that join
LEMMA AppendedFresh ==
  ASSUME Types, Fresh, gen' \in Nat, gen <= gen', NEW m \in Commands, m.gen <= gen',
         cmds' = <<m>> \/ cmds' = Append(cmds, m),
         \A t \in Slots : msg'[t] = msg[t], \A k \in Handles : timers'[k].gen <= gen'
  PROVE  Fresh'
<1>1. cmds \in Seq(Commands) /\ Len(cmds) \in Nat /\ DOMAIN cmds = 1 .. Len(cmds)
  BY LenProperties DEF Types, TimerTypes, SendTypes
<1>2. \A i \in DOMAIN cmds' : cmds'[i] = m \/ (i \in DOMAIN cmds /\ cmds'[i] = cmds[i])
  <2>1. CASE cmds' = <<m>>
    <3>1. DOMAIN cmds' = 1 .. 1 /\ cmds'[1] = m
      BY <2>1
    <3> QED BY <3>1
  <2> QED BY <1>1, <2>1, Joined
<1>3. \A i \in DOMAIN cmds : cmds[i].gen \in Nat
  <2>1. \A i \in DOMAIN cmds : cmds[i] \in Commands
    BY <1>1, ElementOfSeq
  <2> QED BY <2>1, CommandFields, TimersAssumption
<1>4. gen \in Nat
  BY TimersAssumption DEF Types, TimerTypes, TableTypes
<1>5. \A i \in DOMAIN cmds : cmds[i].gen <= gen'
  BY <1>3, <1>4 DEF Fresh
<1>6. \A i \in DOMAIN cmds' : cmds'[i].gen <= gen'
  BY <1>2, <1>5
<1>7. \A t \in Slots : msg'[t].gen <= gen' /\ msg'[t].prev <= gen'
  BY <1>4, MessageNumbers DEF Fresh
<1> QED BY <1>6, <1>7 DEF Fresh

\* a call from a callback
LEMMA ObeyedCallback ==
  ASSUME Types, Obeyed, NEW m, Issued(m), CallFromCallback(m)
  PROVE  Obeyed'
<1>1. /\ Table(timers) /\ want \in [Handles -> BOOLEAN] /\ m \in Commands /\ m.h \in Handles
      /\ timers' = Settled(Executed(Marked(m), m), m)
      /\ want' = IF m.op \in {"start", "restart"} /\ Pending(m.h) THEN want ELSE Wanted(m)
      /\ Spoilt({}) /\ astray' = astray \cup Stranded(m)
      /\ UNCHANGED <<cmds, daemon, call, msg>>
  BY TableParts, CommandFields
     DEF Types, TimerTypes, Issued, CallFromCallback, vars, callVars, sendVars, daemonVars
<1>2. AstrayCalls'
  <2>1. \A t \in Stranded(m) : call[t] # Idle
    BY TimerCallKind DEF Stranded, Waiting
  <2> QED BY <1>1, <2>1 DEF Obeyed, AstrayCalls
<1>3. Fresh'
  <2>1. \A k \in Handles : timers'[k].gen <= gen'
    BY <1>1, TableFresh DEF Obeyed
  <2> QED BY <1>1, <2>1, GrownFresh DEF Obeyed, Issued
<1>4. \A k \in Handles : Waiting(k)' = Waiting(k)
  BY <1>1 DEF Waiting
<1>5. ASSUME NEW k \in Handles, k # m.h
      PROVE  Told(k)'
  <2>1. SameTimer(k)
    <3>1. timers'[k] = timers[k]
      BY <1>1, <1>5, CallElse
    <3>2. want'[k] = want[k]
      BY <1>1, <1>5 DEF Wanted
    <3> QED BY <3>1, <3>2 DEF SameTimer
  <2>2. \A t \in Waiting(k) : t \in astray' <=> t \in astray
    BY <1>1, <1>5, StrandedElse
  <2>3. SameSenders(k)
    BY <1>1, <1>4, <2>2 DEF SameSenders, Undecided
  <2>4. StillSpoilt(k)
    BY <1>1 DEF Spoilt, StillSpoilt
  <2> QED BY <1>1, <2>1, <2>3, <2>4, SaysStays, ToldStays DEF Obeyed
<1>6. Told(m.h)'
  <2> DEFINE h == m.h
  <2>1. CASE m.op = "delete"
    BY <1>1, <2>1, CallDeletes
  <2>2. CASE m.op # "delete"
    <3>1. /\ Marked(m)[h].gen = m.gen /\ Marked(m)[h].used /\ Marked(m)[h] \in TimerRecords
          /\ m.op \notin Renewing => Marked(m) = timers
          /\ Table(Marked(m))
      BY <1>1, MarkedTimer, MarkedOk
    <3>2. timers'[h] = Obeying(Marked(m)[h], m)
      BY <1>1, <2>2, <3>1 DEF Settled, Executed, Table
    <3>3. timers'[h].gen = m.gen /\ timers'[h].used /\ timers'[h].active = Wants(m)
      BY <1>1, <2>2, <3>1, <3>2, Obeys
    <3>4. Wanted(m)[h] = Wants(m)
      BY <1>1 DEF Wanted, Wants
    <3>5. CASE m.op \in Renewing
      <4>1. gen < timers'[h].gen /\ timers'[h].gen \in Nat
        BY <1>1, <3>3, <3>5, CommandFields, TimersAssumption DEF Issued
      <4>2. StrayOk(h)' /\ \A i \in DOMAIN cmds : cmds[i].gen # timers'[h].gen
        BY <1>1, <4>1, NewGeneration DEF Obeyed
      <4>3. want'[h] = Wants(m)
        BY <1>1, <3>4, <3>5 DEF Renewing, Bumping
      <4>4. LastSays(h)'
        BY <1>1, <3>3, <4>2, <4>3, SaysNone
      <4> QED BY <4>2, <4>4 DEF Told
    <3>6. CASE m.op \notin Renewing
      <4>1. m.op \in {"start", "restart"} /\ Wants(m) = TRUE
        BY <1>1, <2>2, <3>6, CommandFields DEF Ops, Wants, Renewing, Bumping
      <4>2. timers'[h].gen = timers[h].gen /\ timers[h].used
        BY <3>1, <3>3, <3>6
      <4>3. StrayOk(h) => StrayOk(h)'
        <5>1. astray' = astray
          BY <1>1, <4>1 DEF Stranded
        <5> QED BY <1>1, <1>4, <4>2, <5>1 DEF StrayOk
      <4>4. Undecided(h) => Undecided(h)'
        <5>1. astray' = astray
          BY <1>1, <4>1 DEF Stranded
        <5> QED BY <1>1, <1>4, <5>1 DEF Undecided
      <4>5. CASE Pending(h)
        <5>1. Pend(h)' = Pend(h) /\ Pend(h) # {} /\ want' = want
          BY <1>1, <4>1, <4>2, <4>5 DEF Pend, Pending
        <5>2. LastSays(h) => LastSays(h)'
          BY <1>1, <5>1 DEF LastSays
        <5>3. h \in spoilt => h \in spoilt'
          BY <1>1, <3>3 DEF Spoilt
        <5>4. Told(h)
          BY <1>1 DEF Obeyed
        <5> QED BY <4>2, <4>3, <4>4, <5>2, <5>3, <5>4 DEF Told
      <4>6. CASE ~Pending(h)
        <5>1. want'[h] = Wants(m)
          BY <1>1, <3>4, <4>6
        <5>2. \A i \in DOMAIN cmds' : cmds'[i].h = h => cmds'[i].gen # timers'[h].gen
          BY <1>1, <4>2, <4>6 DEF Pending
        <5>3. LastSays(h)'
          BY <1>1, <3>3, <5>1, <5>2, SaysNone
        <5>4. h \in spoilt => h \in spoilt'
          BY <1>1, <3>3 DEF Spoilt
        <5>5. Told(h)
          BY <1>1 DEF Obeyed
        <5> QED BY <4>2, <4>3, <5>3, <5>4, <5>5 DEF Told
      <4> QED BY <4>5, <4>6
    <3> QED BY <3>5, <3>6
  <2> QED BY <2>1, <2>2
<1> QED BY <1>2, <1>3, <1>5, <1>6 DEF Obeyed
\* while the daemon does not run, nobody waits; and if it starts, nobody else waits then
LEMMA NobodyWaits ==
  ASSUME Types, OnTime, daemon = NoReady, NEW h
  PROVE  /\ Waiting(h) = {}
         /\ StartDaemon => Waiting(h)' = {}
<1>1. \A t \in Slots : call[t] # <<"timer", t>>
  BY DEF OnTime, SenderOk, NoReady, Slots
<1>2. Waiting(h) = {}
  BY <1>1 DEF Waiting
<1>3. ASSUME StartDaemon
      PROVE  Waiting(h)' = {}
  <2>1. \A t \in Slots : t # daemon' => call'[t] = call[t]
    BY <1>3, SyncParts DEF StartDaemon, CallTypes, Types
  <2> QED BY <1>1, <2>1 DEF Waiting
<1> QED BY <1>2, <1>3

\* the queue that the daemon starts with has forgotten what was in it
LEMMA ToldAnew ==
  ASSUME Types, OnTime, Obeyed, daemon = NoReady, StartDaemon, NEW k \in Handles, SameTimer(k),
         spoilt' = {h \in spoilt \cup Queued : timers'[h].used},
         \A i \in DOMAIN cmds' : cmds'[i].h # k
  PROVE  Told(k)'
<1> SUFFICES ASSUME k \notin spoilt', timers'[k].used
             PROVE  StrayOk(k)' /\ LastSays(k)'
  BY DEF Told
<1>1. k \notin spoilt /\ k \notin Queued /\ timers[k].used
  BY DEF SameTimer
<1>2. Waiting(k) = {} /\ Waiting(k)' = {}
  BY NobodyWaits
<1>3. Told(k) /\ ~Undecided(k)
  BY <1>2 DEF Obeyed, Undecided
<1>4. LastSays(k) /\ Pend(k) = {}
  BY <1>1, <1>3 DEF Told, Pend, Queued
<1>5. timers'[k].active = want'[k]
  BY <1>4 DEF LastSays, SameTimer
<1>6. LastSays(k)'
  BY <1>5, SaysNone
<1> QED BY <1>2, <1>6 DEF StrayOk

\* a call that is accepted
LEMMA ObeyedAccepted ==
  ASSUME Types, OnTime, Obeyed, NEW m, Issued(m), CallAccepted(m)
  PROVE  Obeyed'
<1>1. /\ Table(timers) /\ want \in [Handles -> BOOLEAN] /\ m \in Commands /\ m.h \in Handles
      /\ CallTypes /\ cmds \in Seq(Commands)
      /\ timers' = Settled(Marked(m), m) /\ want' = Wanted(m)
      /\ Spoilt(IF daemon = NoReady THEN Queued ELSE {}) /\ astray' = astray \cup Stranded(m)
      /\ msg' = msg
  BY TableParts, SyncParts, CommandFields DEF Types, TimerTypes, SendTypes, Issued, CallAccepted
<1>2. IF daemon = NoReady THEN StartDaemon /\ cmds' = <<m>>
      ELSE cmds' = Append(cmds, m) /\ UNCHANGED <<daemon, call>>
  BY DEF CallAccepted, Enqueue, daemonVars, callVars
<1>3. \A k \in Handles : k # m.h => SameTimer(k)
  <2>1. \A k \in Handles : k # m.h => timers'[k] = timers[k]
    BY <1>1, CallElse
  <2>2. \A k \in Handles : k # m.h => want'[k] = want[k]
    BY <1>1 DEF Wanted
  <2> QED BY <2>1, <2>2 DEF SameTimer
<1>4. m.op # "delete" => timers'[m.h].gen = m.gen /\ want'[m.h] = Wants(m)
  <2>1. Marked(m)[m.h].gen = m.gen
    BY <1>1, MarkedTimer
  <2> QED BY <1>1, <2>1 DEF Settled, Wanted, Wants
<1>5. m.op = "delete" => Told(m.h)'
  BY <1>1, CallDeletes
<1>6. AstrayCalls'
  <2>1. \A t \in Stranded(m) : call[t] # Idle
    BY TimerCallKind DEF Stranded, Waiting
  <2>2. \A t \in Slots : call'[t] # Idle \/ call'[t] = call[t]
    BY <1>1, <1>2, TimerCallKind DEF StartDaemon, CallTypes
  <2>3. \A t \in astray \cup Stranded(m) : t \in Slots
    BY DEF Types, TimerTypes, SendTypes, Stranded, Waiting
  <2> QED BY <1>1, <2>1, <2>2, <2>3 DEF Obeyed, AstrayCalls
<1>7. Fresh'
  <2>1. \A k \in Handles : timers'[k].gen <= gen'
    BY <1>1, TableFresh DEF Obeyed
  <2>2. cmds' = <<m>> \/ cmds' = Append(cmds, m)
    BY <1>2
  <2> QED BY <1>1, <2>1, <2>2, AppendedFresh DEF Obeyed, Issued
<1>8. ASSUME daemon = NoReady
      PROVE  \A k \in Handles : Told(k)'
  <2>1. StartDaemon /\ cmds' = <<m>> /\ DOMAIN cmds' = 1 .. 1 /\ cmds'[1] = m
    BY <1>2, <1>8
  <2>2. spoilt' = {h \in spoilt \cup Queued : timers'[h].used}
    BY <1>1, <1>8 DEF Spoilt
  <2>3. ASSUME NEW k \in Handles, k # m.h
        PROVE  Told(k)'
    <3>1. \A i \in DOMAIN cmds' : cmds'[i].h # k
      BY <2>1, <2>3
    <3> QED BY <1>3, <1>8, <2>1, <2>2, <2>3, <3>1, ToldAnew
  <2>4. m.op # "delete" => Told(m.h)'
    <3> SUFFICES ASSUME m.op # "delete"
                 PROVE  StrayOk(m.h)' /\ LastSays(m.h)'
      BY DEF Told
    <3>1. Waiting(m.h)' = {}
      BY <1>8, <2>1, NobodyWaits
    <3>2. Pend(m.h)' = {1}
      BY <1>4, <2>1 DEF Pend
    <3>3. LastSays(m.h)'
      BY <1>4, <2>1, <3>2 DEF LastSays
    <3> QED BY <3>1, <3>3 DEF StrayOk
  <2> QED BY <1>5, <2>3, <2>4
<1>9. ASSUME daemon # NoReady
      PROVE  \A k \in Handles : Told(k)'
  <2>1. cmds' = Append(cmds, m) /\ \A k \in Handles : Waiting(k)' = Waiting(k)
    BY <1>1, <1>2, <1>9 DEF Waiting
  <2>2. \A k \in Handles : StillSpoilt(k)
    BY <1>1 DEF Spoilt, StillSpoilt
  <2>3. ASSUME NEW k \in Handles, k # m.h
        PROVE  Told(k)'
    <3>1. \A t \in Waiting(k) : t \in astray' <=> t \in astray
      BY <1>1, <2>3, StrandedElse
    <3>2. SameSenders(k)
      BY <1>1, <2>1, <3>1 DEF SameSenders, Undecided
    <3>3. SameTimer(k)
      BY <1>3, <2>3
    <3>4. LastSays(k) => LastSays(k)'
      BY <1>1, <2>1, <2>3, <3>3, SaysAside
    <3>5. Told(k)
      BY DEF Obeyed
    <3> QED BY <2>2, <3>2, <3>3, <3>4, <3>5, ToldStays
  <2>4. m.op # "delete" => Told(m.h)'
    <3> SUFFICES ASSUME m.op # "delete", m.h \notin spoilt', timers'[m.h].used
                 PROVE  StrayOk(m.h)' /\ LastSays(m.h)'
      BY DEF Told
    <3>1. LastSays(m.h)'
      BY <1>1, <1>4, <2>1, SaysAppended
    <3>2. CASE m.op \in Renewing
      <4>1. gen < timers'[m.h].gen /\ timers'[m.h].gen \in Nat
        BY <1>1, <1>4, <3>2, CommandFields, TimersAssumption DEF Issued
      <4> QED BY <1>1, <3>1, <4>1, NewGeneration DEF Obeyed
    <3>3. CASE m.op \notin Renewing
      <4>1. timers'[m.h].gen = timers[m.h].gen /\ timers[m.h].used
        BY <1>4, <3>3 DEF Issued, Renewing
      <4>2. astray' = astray
        BY <1>1 DEF Stranded
      <4>3. m.h \notin spoilt
        BY <2>2, <1>1 DEF StillSpoilt
      <4>4. Told(m.h)
        BY <1>1 DEF Obeyed
      <4>5. StrayOk(m.h)'
        BY <1>1, <2>1, <4>1, <4>2, <4>3, <4>4 DEF Told, StrayOk
      <4> QED BY <3>1, <4>5
    <3> QED BY <3>2, <3>3
  <2> QED BY <1>5, <2>3, <2>4
<1> QED BY <1>6, <1>7, <1>8, <1>9 DEF Obeyed
\* a call that has to wait for room
LEMMA ObeyedWaits ==
  ASSUME Types, Standing, Obeyed, NEW m, Issued(m), NEW d, CallWaits(m, d)
  PROVE  Obeyed'
<1>1. /\ Table(timers) /\ m \in Commands /\ m.h \in Handles /\ CallTypes
      /\ msg \in [Slots -> Commands \cup {NoCmd}] /\ astray \subseteq Slots
      /\ current \in Slots /\ call[current] = Idle /\ m.op # "work"
      /\ timers' = Marked(m) /\ msg' = [msg EXCEPT ![current] = m]
      /\ call' = [call EXCEPT ![current] = <<"timer", current>>]
      /\ UNCHANGED <<want, spoilt, astray, cmds, daemon>>
  BY TableParts, SyncParts, CommandFields
     DEF Types, TimerTypes, SendTypes, Issued, CallWaits, InTask, StartCall, daemonVars
<1>2. current # daemon /\ current \notin astray
  BY <1>1, DaemonApart DEF Obeyed, AstrayCalls
<1>3. AstrayCalls'
  BY <1>1, <1>2 DEF Obeyed, AstrayCalls, CallTypes
<1>4. /\ Marked(m)[m.h].gen = m.gen /\ Marked(m)[m.h].used
      /\ m.op \notin Renewing => Marked(m) = timers
      /\ \A k \in Handles : k # m.h => timers'[k] = timers[k]
  BY <1>1, MarkedTimer, OneTimerOnly
<1>5. \A t \in Slots : t # current => call'[t] = call[t] /\ msg'[t] = msg[t]
  BY <1>1 DEF CallTypes
<1>6. call'[current] = <<"timer", current>> /\ msg'[current] = m
  BY <1>1 DEF CallTypes
<1>7. Fresh'
  <2>1. /\ gen \in Nat /\ gen' \in Nat /\ gen <= gen' /\ m.gen <= gen' /\ m.prev <= gen'
        /\ \A k \in Handles : timers[k].gen \in Nat /\ timers[k].gen <= gen
    BY TableParts, TimersAssumption
       DEF Types, TimerTypes, Table, Sound, TimerRecords, Issued, Obeyed, Fresh
  <2>2. \A i \in DOMAIN cmds' : cmds'[i].gen <= gen'
    <3>1. \A i \in DOMAIN cmds : cmds[i].gen \in Nat
      <4>1. \A i \in DOMAIN cmds : cmds[i] \in Commands
        BY ElementOfSeq, LenProperties DEF Types, TimerTypes, SendTypes
      <4> QED BY <4>1, CommandFields, TimersAssumption
    <3> QED BY <1>1, <2>1, <3>1 DEF Obeyed, Fresh
  <2>3. \A t \in Slots : msg'[t].gen <= gen' /\ msg'[t].prev <= gen'
    BY <1>5, <1>6, <2>1, MessageNumbers DEF Obeyed, Fresh
  <2>4. \A k \in Handles : timers'[k].gen <= gen'
    BY <1>1, <1>4, <2>1
  <2> QED BY <2>2, <2>3, <2>4 DEF Fresh
<1>8. \A k \in Handles : k # m.h => Waiting(k)' = Waiting(k)
  BY <1>1, <1>5, <1>6, TimerCallKind DEF Waiting
<1>9. Waiting(m.h)' = Waiting(m.h) \cup {current}
  BY <1>1, <1>2, <1>5, <1>6, TimerCallKind DEF Waiting
<1>10. \A k \in Handles : current \notin Waiting(k)
  BY <1>1, TimerCallKind DEF Waiting
<1>11. ASSUME NEW k \in Handles, k # m.h
       PROVE  Told(k)'
  <2>1. SameTimer(k) /\ StillSpoilt(k)
    BY <1>1, <1>4, <1>11 DEF SameTimer, StillSpoilt
  <2>2. \A t \in Waiting(k) : t \in Slots /\ msg'[t] = msg[t]
    BY <1>5, <1>10 DEF Waiting
  <2>3. SameSenders(k)
    BY <1>1, <1>8, <1>11, <2>2 DEF SameSenders, Undecided
  <2> QED BY <1>1, <1>11, <2>1, <2>3, SaysStays, ToldStays DEF Obeyed
<1>12. Told(m.h)'
  <2> DEFINE h == m.h
  <2>1. \A t \in Waiting(h) : t \in Slots /\ t # current /\ msg'[t] = msg[t]
    BY <1>1, <1>5, <1>10 DEF Waiting
  <2>2. CASE m.op \in Renewing
    <3>1. gen < timers'[h].gen /\ timers'[h].gen \in Nat
      BY <1>1, <1>4, <2>2, CommandFields, TimersAssumption DEF Issued
    <3>2. \A t \in Waiting(h)' \cap astray' : msg'[t] = msg[t]
      BY <1>1, <1>2, <1>9, <2>1
    <3>3. StrayOk(h)'
      BY <1>1, <3>1, <3>2, NewGeneration DEF Obeyed
    <3>4. Undecided(h)'
      BY <1>1, <1>2, <1>6, <1>9, <2>2 DEF Undecided, Renewing
    <3> QED BY <3>3, <3>4 DEF Told
  <2>3. CASE m.op \notin Renewing
    <3>1. timers' = timers /\ m.op \notin Bumping
      BY <1>1, <1>4, <2>3 DEF Renewing
    <3>2. Told(h)
      BY <1>1 DEF Obeyed
    <3>3. StrayOk(h) => StrayOk(h)'
      BY <1>1, <1>2, <1>9, <2>1, <3>1 DEF StrayOk
    <3>4. Undecided(h) => Undecided(h)'
      BY <1>1, <1>9, <2>1 DEF Undecided
    <3>5. LastSays(h) => LastSays(h)'
      <4>1. Pend(h)' = Pend(h)
        BY <1>1, <3>1 DEF Pend
      <4> QED BY <1>1, <3>1, <4>1 DEF LastSays
    <3> QED BY <1>1, <3>1, <3>2, <3>3, <3>4, <3>5 DEF Told
  <2> QED BY <2>2, <2>3
<1> QED BY <1>3, <1>7, <1>11, <1>12 DEF Obeyed

\* the slot of a timer is taken or given back at once
LEMMA ObeyedTable ==
  ASSUME Types, OnTime, Obeyed, NEW h \in Handles, NEW p \in 0 .. MaxDelay, NEW auto \in BOOLEAN,
         TimerCreate(h, p, auto) \/ CancelWork(h) \/ SetReload(h, auto)
  PROVE  Obeyed'
<1>1. /\ Table(timers) /\ want \in [Handles -> BOOLEAN] /\ CallTypes /\ astray \subseteq Slots
      /\ gen \in Nat /\ \A k \in Handles : timers[k] \in TimerRecords /\ timers[k].gen <= gen
  BY TableParts, SyncParts, TimersAssumption
     DEF Types, TimerTypes, SendTypes, Table, Sound, Obeyed, Fresh
<1>2. CASE SetReload(h, auto)
  <2>1. /\ UNCHANGED <<gen, want, cmds, msg, daemon, spoilt, astray, call>>
        /\ timers' = [timers EXCEPT ![h] = [timers[h] EXCEPT !.auto = auto]]
    BY <1>2 DEF SetReload, vars, callVars, sendVars, daemonVars
  <2>2. \A k \in Handles : SameTimer(k)
    BY <1>1, <2>1 DEF SameTimer, TimerRecords, Table
  <2>3. /\ \A t \in Slots : call'[t] = call[t] \/ (t = daemon /\ call'[t] # Idle)
        /\ astray \subseteq Slots /\ UNCHANGED <<gen, want, cmds, msg, daemon, spoilt, astray>>
    BY <1>1, <2>1
  <2> QED BY <2>2, <2>3, ObeyedStays
<1>3. CASE CancelWork(h)
  <2>1. /\ UNCHANGED <<gen, want, cmds, msg, daemon, astray, call>>
        /\ timers' = [timers EXCEPT ![h] = FreeTimer] /\ Spoilt({})
    BY <1>3 DEF CancelWork, vars, callVars, sendVars, daemonVars
  <2>2. timers'[h] = FreeTimer /\ \A k \in Handles : k # h => timers'[k] = timers[k]
    BY <1>1, <2>1 DEF Table
  <2>3. Told(h)'
    BY <2>2 DEF Told, FreeTimer
  <2>4. ASSUME NEW k \in Handles, k # h
        PROVE  Told(k)'
    <3>1. SameTimer(k) /\ StillSpoilt(k)
      BY <2>1, <2>2, <2>4 DEF SameTimer, StillSpoilt, Spoilt
    <3>2. SameSenders(k)
      BY <2>1 DEF SameSenders, Undecided, Waiting
    <3> QED BY <2>1, <3>1, <3>2, SaysStays, ToldStays DEF Obeyed
  <2>5. Fresh'
    <3>1. FreeTimer.gen <= gen
      BY <1>1 DEF FreeTimer
    <3> QED BY <2>1, <2>2, <3>1 DEF Obeyed, Fresh
  <2> QED BY <2>1, <2>3, <2>4, <2>5 DEF Obeyed, AstrayCalls
<1>4. CASE TimerCreate(h, p, auto)
  <2> DEFINE r == [FreeTimer EXCEPT !.used = TRUE, !.auto = auto, !.period = p, !.gen = gen + 1]
  <2>1. /\ gen' = gen + 1 /\ timers' = [timers EXCEPT ![h] = r]
        /\ want' = [want EXCEPT ![h] = FALSE] /\ UNCHANGED <<msg, astray>>
        /\ IF daemon = NoReady THEN StartDaemon /\ cmds' = <<>> /\ Spoilt(Queued)
           ELSE UNCHANGED <<daemon, call, cmds, spoilt>>
    BY <1>4 DEF TimerCreate, daemonVars, callVars
  <2>2. r.gen = gen + 1 /\ r.active = FALSE
    BY DEF FreeTimer
  <2> HIDE DEF r
  <2>3. /\ timers'[h] = r /\ want'[h] = FALSE
        /\ \A k \in Handles : k # h => SameTimer(k)
    BY <1>1, <2>1 DEF Table, SameTimer
  <2>4. gen < timers'[h].gen /\ timers'[h].gen \in Nat /\ gen' \in Nat /\ gen <= gen'
    BY <1>1, <2>1, <2>2, <2>3
  <2>5. Fresh'
    <3>1. \A k \in Handles : timers'[k].gen <= gen'
      <4>1. \A k \in Handles : k # h => timers'[k].gen = timers[k].gen
        BY <2>3 DEF SameTimer
      <4>2. \A k \in Handles : timers[k].gen \in Nat
        BY <1>1, TimersAssumption DEF TimerRecords
      <4> QED BY <1>1, <2>1, <2>2, <2>3, <4>1, <4>2
    <3>2. \A t \in Slots : msg'[t] = msg[t]
      BY <2>1
    <3>3. cmds' = cmds \/ cmds' = <<>>
      BY <2>1
    <3> QED BY <2>4, <3>1, <3>2, <3>3, GrownFresh DEF Obeyed
  <2>6. AstrayCalls'
    <3>1. \A t \in Slots : call'[t] # Idle \/ call'[t] = call[t]
      BY <1>1, <2>1, TimerCallKind DEF StartDaemon, CallTypes
    <3> QED BY <1>1, <2>1, <3>1 DEF Obeyed, AstrayCalls
  <2>7. Told(h)'
    <3>1. StrayOk(h)' /\ \A i \in DOMAIN cmds : cmds[i].gen # timers'[h].gen
      <4>1. \A t \in Waiting(h)' \cap astray' : msg'[t] = msg[t]
        BY <2>1
      <4> QED BY <2>4, <4>1, NewGeneration DEF Obeyed
    <3>2. \A i \in DOMAIN cmds' : cmds'[i].h = h => cmds'[i].gen # timers'[h].gen
      BY <2>1, <3>1
    <3>3. LastSays(h)'
      BY <2>2, <2>3, <3>2, SaysNone
    <3> QED BY <3>1, <3>3 DEF Told
  <2>8. ASSUME NEW k \in Handles, k # h
        PROVE  Told(k)'
    <3>1. SameTimer(k)
      BY <2>3, <2>8
    <3>2. CASE daemon = NoReady
      <4>1. /\ StartDaemon /\ spoilt' = {g \in spoilt \cup Queued : timers'[g].used}
            /\ \A i \in DOMAIN cmds' : cmds'[i].h # k
        BY <2>1, <3>2 DEF Spoilt
      <4> QED BY <3>1, <3>2, <4>1, ToldAnew
    <3>3. CASE daemon # NoReady
      <4>1. SameSenders(k) /\ StillSpoilt(k) /\ cmds' = cmds
        BY <2>1, <3>3 DEF SameSenders, StillSpoilt, Undecided, Waiting
      <4> QED BY <3>1, <4>1, SaysStays, ToldStays DEF Obeyed
    <3> QED BY <3>2, <3>3
  <2> QED BY <2>5, <2>6, <2>7, <2>8 DEF Obeyed
<1> QED BY <1>2, <1>3, <1>4
\* a task that waited for room is done with it
LEMMA SendLeaves ==
  ASSUME Types, Obeyed, BackInSend, EndSend, NEW m, m = msg[current],
         astray' = astray \ {current} \/ astray' = (astray \cup Stranded(m)) \ {current},
         StillSpoilt(m.h)
  PROVE  /\ m \in Commands /\ m.h \in Handles /\ m.op # "work" /\ current \in Waiting(m.h)
         /\ AstrayCalls'
         /\ \A t \in Slots : msg'[t] = msg[t] \/ msg'[t] = NoCmd
         /\ \A k \in Handles : k # m.h => SameSenders(k)
         /\ m.op # "delete" => /\ Waiting(m.h)' = Waiting(m.h) \ {current}
                               /\ astray' = astray \ {current}
                               /\ \A t \in Slots \ {current} : msg'[t] = msg[t]
<1>1. /\ CallTypes /\ current \in Slots /\ current # daemon /\ call[current] = <<"timer", current>>
      /\ msg \in [Slots -> Commands \cup {NoCmd}] /\ astray \subseteq Slots
      /\ call' = [call EXCEPT ![current] = Idle] /\ msg' = [msg EXCEPT ![current] = NoCmd]
      /\ UNCHANGED daemon
  BY SyncParts DEF Types, TimerTypes, SendTypes, BackInSend, EndSend, EndCall, daemonVars
<1>2. m \in Commands /\ m.op # "work"
  BY <1>1 DEF Types, TimerTypes, SendersHaveCommands, Sent
<1>3. m.h \in Handles /\ current \in Waiting(m.h)
  BY <1>1, <1>2, CommandFields DEF Waiting
<1>4. /\ call'[current] = Idle /\ msg'[current] = NoCmd
      /\ \A t \in Slots \ {current} : call'[t] = call[t] /\ msg'[t] = msg[t]
  BY <1>1 DEF CallTypes
<1>5. AstrayCalls'
  <2>1. \A t \in Stranded(m) : t \in Slots /\ call[t] # Idle
    BY TimerCallKind DEF Stranded, Waiting
  <2> QED BY <1>1, <1>4, <2>1 DEF Obeyed, AstrayCalls
<1>6. \A k \in Handles : Waiting(k)' = Waiting(k) \ {current}
  BY <1>1, <1>4, TimerCallKind DEF Waiting
<1>7. ASSUME NEW k \in Handles, k # m.h
      PROVE  SameSenders(k)
  <2>1. current \notin Waiting(k)
    BY <1>7 DEF Waiting
  <2>2. \A t \in Waiting(k) : t \in Slots \ {current} /\ (t \in astray' <=> t \in astray)
    BY <1>7, <2>1, StrandedElse DEF Waiting
  <2> QED BY <1>4, <1>6, <2>1, <2>2 DEF SameSenders, Undecided
<1>8. m.op # "delete" => astray' = astray \ {current}
  BY DEF Stranded
<1> QED BY <1>2, <1>3, <1>4, <1>5, <1>6, <1>7, <1>8

\* messages that are taken back are not new
LEMMA SentFresh ==
  ASSUME Types, Fresh, gen' = gen, cmds' = cmds \/ \E m \in Commands : m.gen <= gen /\ cmds' = Append(cmds, m),
         \A t \in Slots : msg'[t] = msg[t] \/ msg'[t] = NoCmd,
         \A k \in Handles : timers'[k].gen <= gen
  PROVE  Fresh'
<1>1. gen \in Nat /\ NoCmd.gen = 0 /\ NoCmd.prev = 0
  BY TimersAssumption DEF Types, TimerTypes, TableTypes, NoCmd
<1>2. \A t \in Slots : msg'[t].gen <= gen' /\ msg'[t].prev <= gen'
  BY <1>1 DEF Fresh
<1>3. \A i \in DOMAIN cmds' : cmds'[i].gen <= gen'
  <2>1. ASSUME NEW m \in Commands, m.gen <= gen, cmds' = Append(cmds, m)
        PROVE  \A i \in DOMAIN cmds' : cmds'[i].gen <= gen'
    <3>1. \A i \in DOMAIN cmds' : cmds'[i] = m \/ (i \in DOMAIN cmds /\ cmds'[i] = cmds[i])
      BY <2>1, Joined DEF Types, TimerTypes, SendTypes
    <3> QED BY <2>1, <3>1 DEF Fresh
  <2> QED BY <2>1 DEF Fresh
<1> QED BY <1>2, <1>3 DEF Fresh

\* the command is accepted in the end
LEMMA ObeyedSent ==
  ASSUME Types, Obeyed, SendAccepted
  PROVE  Obeyed'
<1> PICK m : m = msg[current]
  OBVIOUS
<1>1. /\ Table(timers) /\ want \in [Handles -> BOOLEAN] /\ cmds \in Seq(Commands) /\ gen \in Nat
      /\ BackInSend /\ EndSend /\ cmds' = Append(cmds, m) /\ timers' = Settled(timers, m)
      /\ astray' = (astray \cup Stranded(m)) \ {current} /\ UNCHANGED <<gen, daemon>>
  BY TableParts, TimersAssumption
     DEF Types, TimerTypes, SendTypes, SendAccepted, Enqueue, EndSend, daemonVars
<1> DEFINE live == current \notin astray /\ timers[m.h].gen = m.gen
<1>2. /\ want' = IF live THEN Wanted(m) ELSE want
      /\ Spoilt(IF live \/ current \in astray THEN {} ELSE {m.h})
  BY DEF SendAccepted
<1> HIDE DEF live
<1>3. \A k \in Handles : StillSpoilt(k)
  BY <1>2 DEF StillSpoilt, Spoilt
<1>4. current \in Slots /\ m \in Commands /\ m.h \in Handles
  BY <1>1, CommandFields DEF BackInSend, Types, TimerTypes, SendersHaveCommands, Sent
<1>5. /\ m.op # "work" /\ current \in Waiting(m.h) /\ AstrayCalls'
      /\ \A t \in Slots : msg'[t] = msg[t] \/ msg'[t] = NoCmd
      /\ \A k \in Handles : k # m.h => SameSenders(k)
      /\ m.op # "delete" => /\ Waiting(m.h)' = Waiting(m.h) \ {current}
                            /\ astray' = astray \ {current}
                            /\ \A t \in Slots \ {current} : msg'[t] = msg[t]
  BY <1>1, <1>3, <1>4, SendLeaves
<1>6. m.gen <= gen
  BY <1>4 DEF Obeyed, Fresh
<1>7. Fresh'
  <2>1. \A k \in Handles : timers'[k].gen <= gen
    <3>1. FreeTimer.gen = 0
      BY DEF FreeTimer
    <3> QED BY <1>1, <1>4, <3>1 DEF Settled, Table, Obeyed, Fresh
  <2> QED BY <1>1, <1>4, <1>5, <1>6, <2>1, SentFresh DEF Obeyed
<1>8. ASSUME NEW k \in Handles, k # m.h
      PROVE  Told(k)'
  <2>1. timers'[k] = timers[k] /\ want'[k] = want[k]
    BY <1>1, <1>2, <1>4, <1>8, CallElse DEF Wanted
  <2>2. SameTimer(k) /\ SameSenders(k)
    BY <1>5, <1>8, <2>1 DEF SameTimer
  <2>3. LastSays(k) => LastSays(k)'
    BY <1>1, <1>4, <1>8, <2>2, SaysAside
  <2> QED BY <1>3, <2>2, <2>3, ToldStays DEF Obeyed
<1>9. Told(m.h)'
  <2> DEFINE h == m.h
  <2>1. CASE m.op = "delete"
    BY <1>1, <1>4, <2>1, CallDeletes
  <2>2. CASE m.op # "delete"
    <3> SUFFICES ASSUME h \notin spoilt', timers'[h].used
                 PROVE  StrayOk(h)' /\ (Undecided(h)' \/ LastSays(h)')
      BY DEF Told
    <3>1. timers' = timers
      BY <1>1, <2>2 DEF Settled
    <3>2. h \notin spoilt /\ (live \/ current \in astray)
      BY <1>2, <1>3, <1>4, <3>1 DEF Spoilt, StillSpoilt
    <3>3. StrayOk(h) /\ (Undecided(h) \/ LastSays(h))
      BY <1>4, <3>1, <3>2 DEF Obeyed, Told
    <3>4. StrayOk(h)'
      <4>1. \A t \in Waiting(h)' \cap astray' : t \in Waiting(h) \cap astray /\ msg'[t] = msg[t]
        BY <1>5, <2>2 DEF Waiting
      <4> QED BY <3>1, <3>3, <4>1 DEF StrayOk
    <3>5. CASE live
      <4>1. want'[h] = Wants(m) /\ m.gen = timers'[h].gen
        BY <1>1, <1>2, <1>4, <3>1, <3>5 DEF Wanted, Wants, live
      <4>2. LastSays(h)'
        BY <1>1, <1>4, <4>1, SaysAppended
      <4> QED BY <3>4, <4>2
    <3>6. CASE ~live /\ current \in astray
      <4>1. m.gen # timers[h].gen
        BY <1>5, <3>3, <3>6 DEF StrayOk
      <4>2. SameTimer(h)
        BY <1>2, <3>1, <3>6 DEF SameTimer
      <4>3. LastSays(h) => LastSays(h)'
        BY <1>1, <1>4, <4>1, <4>2, SaysAside
      <4>4. Undecided(h) => Undecided(h)'
        <5>1. \A t \in Waiting(h) \ astray : t \in Waiting(h)' \ astray' /\ msg'[t] = msg[t]
          BY <1>5, <2>2, <3>6 DEF Waiting
        <5> QED BY <5>1 DEF Undecided
      <4> QED BY <3>3, <3>4, <4>3, <4>4
    <3> QED BY <3>2, <3>5, <3>6
  <2> QED BY <2>1, <2>2
<1> QED BY <1>5, <1>7, <1>8, <1>9 DEF Obeyed

\* or it fails
LEMMA ObeyedFails ==
  ASSUME Types, Obeyed, SendFails
  PROVE  Obeyed'
<1> PICK m : m = msg[current]
  OBVIOUS
<1>1. /\ Table(timers) /\ BackInSend /\ EndSend /\ gen \in Nat
      /\ astray' = astray \ {current} /\ UNCHANGED <<gen, daemon, cmds, want>>
      /\ IF m.op \in Bumping /\ timers[m.h].used
         THEN timers' = [timers EXCEPT ![m.h].gen = m.prev] /\ Spoilt({m.h})
         ELSE UNCHANGED <<timers, spoilt>>
  BY TableParts, TimersAssumption
     DEF Types, TimerTypes, SendFails, EndSend, daemonVars
<1>2. current \in Slots /\ m \in Commands /\ m.h \in Handles
  BY <1>1, CommandFields DEF BackInSend, Types, TimerTypes, SendersHaveCommands, Sent
<1>3. \A k \in Handles : StillSpoilt(k)
  BY <1>1 DEF StillSpoilt, Spoilt
<1>4. /\ AstrayCalls' /\ \A t \in Slots : msg'[t] = msg[t] \/ msg'[t] = NoCmd
      /\ \A k \in Handles : k # m.h => SameSenders(k)
      /\ m.op # "delete" => /\ Waiting(m.h)' = Waiting(m.h) \ {current}
                            /\ \A t \in Slots \ {current} : msg'[t] = msg[t]
  BY <1>1, <1>2, <1>3, SendLeaves
<1>5. \A k \in Handles : k # m.h => timers'[k] = timers[k]
  BY <1>1, <1>2 DEF Table
<1>6. Fresh'
  <2>1. m.prev <= gen
    BY <1>2 DEF Obeyed, Fresh
  <2>2. timers'[m.h].gen <= gen
    <3>1. timers[m.h] \in TimerRecords
      BY <1>1, <1>2 DEF Table, Sound
    <3>2. timers'[m.h].gen \in {timers[m.h].gen, m.prev}
      BY <1>1, <1>2, <3>1 DEF Table, TimerRecords
    <3> QED BY <1>2, <2>1, <3>2 DEF Obeyed, Fresh
  <2>3. \A k \in Handles : timers'[k].gen <= gen
    BY <1>5, <2>2 DEF Obeyed, Fresh
  <2> QED BY <1>1, <1>4, <2>3, SentFresh DEF Obeyed
<1>7. ASSUME NEW k \in Handles, k # m.h
      PROVE  Told(k)'
  <2>1. SameTimer(k) /\ SameSenders(k)
    BY <1>1, <1>4, <1>5, <1>7 DEF SameTimer
  <2> QED BY <1>1, <1>3, <2>1, SaysStays, ToldStays DEF Obeyed
<1>8. Told(m.h)'
  <2> DEFINE h == m.h
  <2>1. CASE m.op \in Bumping /\ timers[h].used
    BY <1>1, <1>2, <2>1 DEF Told, Spoilt
  <2>2. CASE ~(m.op \in Bumping /\ timers[h].used)
    <3>1. UNCHANGED <<timers, spoilt>>
      BY <1>1, <2>2
    <3>2. Told(h)
      BY <1>2 DEF Obeyed
    <3>3. CASE ~timers[h].used
      BY <3>1, <3>3 DEF Told
    <3>4. CASE m.op \notin Bumping
      <4>1. call'[current] = Idle /\ \A t \in Slots \ {current} : call'[t] = call[t]
        BY <1>1, <1>2, SyncParts DEF EndSend, EndCall, CallTypes, Types
      <4>2. \A t \in Slots \ {current} : msg'[t] = msg[t]
        BY <1>1 DEF EndSend, Types, TimerTypes, SendTypes
      <4>3. \A t \in Waiting(h)' : t \in Waiting(h) /\ t \in Slots \ {current}
        BY <1>1, <4>1, <4>2, TimerCallKind DEF Waiting
      <4>4. \A t \in Waiting(h) \ astray : msg[t].op \in Bumping => t \in Waiting(h)' \ astray'
        BY <1>1, <3>4, <4>1, <4>2 DEF Waiting
      <4>5. SameSenders(h)
        BY <1>1, <4>2, <4>4, <4>3 DEF SameSenders, Undecided, Waiting
      <4>6. SameTimer(h)
        BY <1>1, <3>1 DEF SameTimer
      <4> QED BY <1>1, <1>2, <1>3, <3>2, <4>5, <4>6, SaysStays, ToldStays
    <3> QED BY <2>2, <3>3, <3>4
  <2> QED BY <2>1, <2>2
<1> QED BY <1>4, <1>6, <1>7, <1>8 DEF Obeyed

\* or waits on
LEMMA ObeyedWaitsAgain ==
  ASSUME Types, Obeyed, SendWaitsAgain
  PROVE  Obeyed'
<1>1. UNCHANGED <<gen, want, cmds, msg, daemon, spoilt, astray, call, timers>>
  BY DEF SendWaitsAgain, callVars, tableVars, daemonVars
<1>2. /\ \A t \in Slots : call'[t] = call[t] \/ (t = daemon /\ call'[t] # Idle)
      /\ \A h \in Handles : SameTimer(h)
      /\ astray \subseteq Slots /\ UNCHANGED <<gen, want, cmds, msg, daemon, spoilt, astray>>
  BY <1>1 DEF SameTimer, Types, TimerTypes, SendTypes
<1> QED BY <1>2, ObeyedStays

\* the callers of timers
LEMMA ObeyedTimers ==
  ASSUME Types, Standing, OnTime, Obeyed, TimerStep
  PROVE  Obeyed'
<1>1. ASSUME NEW h \in Handles, NEW p \in Periods, NEW auto \in BOOLEAN, TimerCreate(h, p, auto)
      PROVE  Obeyed'
  <2>1. p \in 0 .. MaxDelay
    BY TimersAssumption, MaxDelayAssumption
  <2> QED BY <1>1, <2>1, ObeyedTable
<1>2. ASSUME NEW h \in Handles, NEW auto \in BOOLEAN, CancelWork(h) \/ SetReload(h, auto)
      PROVE  Obeyed'
  <2>1. 0 \in 0 .. MaxDelay
    BY MaxDelayAssumption
  <2> QED BY <1>2, <2>1, ObeyedTable
<1>3. (\E h \in Handles : CancelWork(h)) => Obeyed'
  <2>1. TRUE \in BOOLEAN
    OBVIOUS
  <2> QED BY <1>2, <2>1
<1>4. ASSUME NEW m, Issued(m), Call(m)
      PROVE  Obeyed'
  BY <1>4, ObeyedCallback, ObeyedAccepted, ObeyedWaits DEF Call
<1>5. ASSUME NEW h \in Handles, NEW op \in Ops \ {"work"}, NEW arg \in 0 .. MaxDelay,
             TimerCall(op, h, arg)
      PROVE  Obeyed'
  <2>1. /\ timers[h].used /\ Call(Command(op, h, arg))
        /\ op \in Renewing => gen < MaxGen
        /\ gen' = IF op \in Renewing THEN gen + 1 ELSE gen
    BY <1>5 DEF TimerCall, Renewing
  <2>2. Issued(Command(op, h, arg))
    BY <1>5, <2>1, CallsIssue DEF Obeyed
  <2> QED BY <1>4, <2>1, <2>2
<1>6. ASSUME NEW h \in Handles, NEW d \in Delays, PostWork(h, d)
      PROVE  Obeyed'
  <2>1. "work" \in Ops /\ "work" \in Renewing /\ d \in 0 .. MaxDelay
    BY TaskAssumption, MaxDelayAssumption DEF Ops, Renewing
  <2>2. gen < MaxGen /\ gen' = gen + 1 /\ Call(Command("work", h, d))
    BY <1>6 DEF PostWork
  <2>3. Issued(Command("work", h, d))
    BY <2>1, <2>2, CallsIssue DEF Obeyed
  <2> QED BY <1>4, <2>2, <2>3
<1>7. \A op \in {"start", "restart", "stop", "delete", "change"} : op \in Ops \ {"work"}
  BY DEF Ops, Renewing, Bumping
<1>8. 0 \in 0 .. MaxDelay /\ \A p \in Periods : p \in 0 .. MaxDelay
  BY TimersAssumption, MaxDelayAssumption
<1> QED BY <1>1, <1>2, <1>3, <1>5, <1>6, <1>7, <1>8, ObeyedSent, ObeyedFails, ObeyedWaitsAgain
        DEF TimerStep

\* every step
LEMMA ObeyedStep ==
  Types /\ Standing /\ OnTime /\ Obeyed /\ [TimersNext]_tvars => Obeyed'
<1> SUFFICES ASSUME Types, Standing, OnTime, Obeyed, [TimersNext]_tvars
             PROVE  Obeyed'
  OBVIOUS
<1>1. CASE UNCHANGED tvars
  <2>1. UNCHANGED <<gen, want, cmds, msg, daemon, spoilt, astray, call, timers>>
    BY <1>1 DEF tvars, vars, callVars, timerVars, tableVars, sendVars, daemonVars
  <2>2. /\ \A t \in Slots : call'[t] = call[t] \/ (t = daemon /\ call'[t] # Idle)
        /\ \A h \in Handles : SameTimer(h)
        /\ astray \subseteq Slots /\ UNCHANGED <<gen, want, cmds, msg, daemon, spoilt, astray>>
    BY <2>1 DEF SameTimer, Types, TimerTypes, SendTypes
  <2> QED BY <2>2, ObeyedStays
<1> QED BY <1>1, ObeyedSync, ObeyedTick, ObeyedTimers, ObeyedDaemon DEF TimersNext

\* Once the daemon has taken every command, a timer does what the last accepted
\* call asked of it: no command for an earlier timer in the same slot touches it,
\* and none is dropped or overtaken, except where a stop or change that had to
\* wait is under way, failed or ended with its task, a command was overtaken
\* while it waited, or the queue was set up anew with commands in it.  For any
\* number of tasks and timers, every length of the queue, and slots that are
\* used again and again.
THEOREM LastCallCounts == TimersSpec => []AcceptedTakesEffect
<1>1. TimersInit => Obeyed
  <2> SUFFICES ASSUME TimersInit
               PROVE  Obeyed
    OBVIOUS
  <2>1. /\ timers = [h \in Handles |-> FreeTimer] /\ cmds = <<>> /\ gen = 0 /\ astray = {}
        /\ msg = [t \in Slots |-> NoCmd]
    BY DEF TimersInit
  <2>2. FreeTimer.gen = 0 /\ ~FreeTimer.used /\ NoCmd.gen = 0 /\ NoCmd.prev = 0
    BY DEF FreeTimer, NoCmd
  <2> QED BY <2>1, <2>2 DEF Obeyed, Fresh, AstrayCalls, Told
<1>2. Obeyed => AcceptedTakesEffect
  <2> SUFFICES ASSUME Obeyed, cmds = <<>>, NEW h \in Handles \ spoilt, timers[h].used,
                      \A t \in Waiting(h) \ astray : msg[t].op \notin Bumping
               PROVE  timers[h].active = want[h]
    BY DEF AcceptedTakesEffect
  <2>1. ~Undecided(h) /\ Pend(h) = {}
    BY DEF Undecided, Pend
  <2> QED BY <2>1 DEF Obeyed, Told, LastSays
<1>3. TimersSpec => []Obeyed
  BY <1>1, OnTimeInvariant, ObeyedStep, PTL DEF TimersSpec
<1> QED BY <1>2, <1>3, PTL
=============================================================================
