--------------------------- MODULE RuntimeProofs ----------------------------
(***************************************************************************)
(* Theorems about Lifecycle and EventQueue.                                *)
(*                                                                         *)
(* The life cycle, for every number of actuators and registry slots, every *)
(* threshold and every milestone: types, the boot lock in both directions, *)
(* and the reach of a fault.                                               *)
(*                                                                         *)
(* The event queue on the simulation targets, for any producers,           *)
(* consumers, capacities and number of events.  The argument: an actor in  *)
(* the middle of a call is alone, so the place in a call says what the     *)
(* queue holds; from that follow the wait line, the wakeups and the order  *)
(* of the events.                                                          *)
(***************************************************************************)
EXTENDS Lifecycle, EventQueue, Integers, SequenceTheorems, TLAPS

-----------------------------------------------------------------------------
(* The life cycle: types.                                                  *)

\* A table without its entry i is a table, one shorter; the entries before i
\* stay in their place, those after it move up.
LEMMA GapIsClosed ==
  ASSUME NEW S, NEW s \in Seq(S), NEW i \in 1 .. Len(s)
  PROVE  LET r == SubSeq(s, 1, i - 1) \o SubSeq(s, i + 1, Len(s))
         IN /\ r \in Seq(S) /\ Len(r) = Len(s) - 1
            /\ \A j \in 1 .. i - 1 : r[j] = s[j]
            /\ \A j \in i + 1 .. Len(s) : r[j - 1] = s[j]
<1> DEFINE a == SubSeq(s, 1, i - 1)
           b == SubSeq(s, i + 1, Len(s))
           r == a \o b
<1>1. /\ a \in Seq(S) /\ Len(a) = i - 1
      /\ \A j \in 1 .. i - 1 : a[j] = s[j]
  OBVIOUS
<1>2. /\ b \in Seq(S) /\ Len(b) = Len(s) - i
      /\ \A j \in i + 1 .. Len(s) : b[j - i] = s[j]
  OBVIOUS
<1> HIDE DEF a, b
<1>3. r \in Seq(S) /\ Len(r) = Len(s) - 1
  <2>1. r \in Seq(S) /\ Len(r) = Len(a) + Len(b)
    <3>1. a \in Seq(S) /\ b \in Seq(S)
      BY <1>1, <1>2
    <3> QED BY <3>1, ConcatProperties
  <2>2. Len(s) \in Nat
    OBVIOUS
  <2> QED
    BY <1>1, <1>2, <2>1, <2>2
<1>4. \A j \in 1 .. i - 1 : r[j] = s[j]
  BY <1>1, <1>2
<1>5. \A j \in i + 1 .. Len(s) : r[j - 1] = s[j]
  BY <1>1, <1>2
<1> QED
  BY <1>3, <1>4, <1>5 DEF a, b

\* Counting up stays within the bound.
LEMMA UpType == \A n \in 0 .. MaxCount : Up(n) \in 0 .. MaxCount
BY LifecycleAssumption DEF Up

LEMMA InitType == LifeInit => LifeTypeOK
<1> SUFFICES ASSUME LifeInit PROVE LifeTypeOK
  OBVIOUS
<1>1. entries \in Seq(Actuators) /\ Len(entries) <= Slots /\ cursor \in 0 .. Slots + 1
  BY LifecycleAssumption DEF LifeInit
<1>2. /\ tick \in 0 .. HealthyTicks + 1
      /\ count \in 0 .. MaxCount /\ abnormal \in 0 .. MaxCount
      /\ attempts \in 0 .. MaxCount
  BY LifecycleAssumption DEF LifeInit
<1> QED
  BY <1>1, <1>2 DEF LifeInit, LifeTypeOK, Reasons, Abnormal

LEMMA BootType == LifeTypeOK /\ BootStep => LifeTypeOK'
<1> SUFFICES ASSUME LifeTypeOK, BootStep PROVE LifeTypeOK'
  OBVIOUS
<1> USE LifecycleAssumption DEF LifeTypeOK
<1>1. Registered \subseteq Actuators
  BY DEF Registered
<1>2. CASE CountBoot
  <2>1. Up(BootCount) \in 0 .. MaxCount
    <3>1. BootCount \in 0 .. MaxCount
      BY DEF BootCount
    <3> QED
      BY <3>1, UpType
  <2>2. /\ count' \in {0, Up(BootCount), count} /\ abnormal' \in {0, abnormal}
        /\ attempts' \in {0, attempts}
    BY <1>2 DEF CountBoot
  <2> QED
    BY <1>2, <2>1, <2>2 DEF CountBoot, faultVars
<1>3. CASE Proceed
  BY <1>3 DEF Proceed, faultVars
<1>4. CASE Lock
  BY <1>1, <1>4 DEF Lock, BeginFault
<1>5. CASE EnterInit
  BY <1>5, UpType DEF EnterInit, faultVars
<1>6. CASE NoQueue \/ InitDone
  BY <1>6 DEF NoQueue, InitDone, faultVars
<1>7. CASE InitFails
  BY <1>1, <1>7 DEF InitFails, BeginFault
<1>8. CASE Tick
  <2>1. tick' \in 0 .. HealthyTicks + 1
    BY <1>8 DEF Tick
  <2>2. /\ magic' \in BOOLEAN /\ count' \in 0 .. MaxCount
        /\ abnormal' \in 0 .. MaxCount /\ attempts' \in 0 .. MaxCount
    <3>1. 0 \in 0 .. MaxCount
      OBVIOUS
    <3> QED
      BY <1>8, <3>1, Zenon DEF Tick
  <2> QED
    BY <1>8, <2>1, <2>2 DEF Tick, faultVars
<1> QED
  BY <1>2, <1>3, <1>4, <1>5, <1>6, <1>7, <1>8 DEF BootStep

LEMMA ResetType ==
  ASSUME LifeTypeOK, NEW r \in Reasons, NEW lost \in BOOLEAN, Reset(r, lost)
  PROVE  LifeTypeOK'
<1>1. 0 \in 0 .. MaxCount /\ 0 \in 0 .. HealthyTicks + 1 /\ 0 \in 0 .. Slots + 1
  BY LifecycleAssumption
<1>2. magic' \in BOOLEAN /\ count' \in 0 .. MaxCount
  BY Zenon DEF LifeTypeOK, Reset
<1>3. abnormal' \in 0 .. MaxCount /\ attempts' \in 0 .. MaxCount
  BY <1>1, UpType, Zenon DEF LifeTypeOK, Reset
<1>4. entries' \in Seq(Actuators) /\ Len(entries') <= Slots
  BY LifecycleAssumption DEF Reset
<1> QED
  BY <1>1, <1>2, <1>3, <1>4, Zenon DEF LifeTypeOK, Reset

LEMMA UnregisterType ==
  ASSUME LifeTypeOK, NEW a \in Actuators, Unregister(a) PROVE LifeTypeOK'
<1>1. PICK i \in 1 .. Len(entries) :
        /\ entries' = SubSeq(entries, 1, i - 1)
                        \o SubSeq(entries, i + 1, Len(entries))
        /\ owed' = IF i < cursor THEN {} ELSE owed \ {a}
  BY DEF Unregister
<1>2. entries' \in Seq(Actuators) /\ Len(entries') = Len(entries) - 1
  BY <1>1, GapIsClosed DEF LifeTypeOK
<1>3. owed' \subseteq Actuators
  BY <1>1 DEF LifeTypeOK
<1> QED
  <2>1. Len(entries') <= Slots
    BY <1>2, LifecycleAssumption DEF LifeTypeOK
  <2>2. UNCHANGED <<bootVars, cursor, raiser, called>>
    BY DEF Unregister
  <2> QED
    BY <1>2, <1>3, <2>1, <2>2 DEF LifeTypeOK, bootVars

\* While a fault is handled the cursor is in the table or just past it.
Placed == raiser # "none" => cursor >= 1

TypeInv == LifeTypeOK /\ Placed

LEMMA FaultType ==
  ASSUME TypeInv,
         \/ FaultStep
         \/ \E who \in {"main", "task"} : RaiseFault(who)
         \/ \E a \in Actuators : Register(a) \/ Unregister(a)
  PROVE  LifeTypeOK'
<1> USE LifecycleAssumption DEF TypeInv, LifeTypeOK, bootVars
<1>1. CASE SafeOff
  <2>1. cursor' \in 0 .. Slots + 1
    BY <1>1 DEF SafeOff
  <2>2. cursor \in 1 .. Len(entries)
    BY <1>1 DEF SafeOff, Placed
  <2>3. entries[cursor] \in Actuators
    BY <2>2
  <2>4. called' \subseteq Actuators
    BY <1>1, <2>3 DEF SafeOff
  <2> QED
    BY <1>1, <2>1, <2>4 DEF SafeOff
<1>2. CASE EndFault
  BY <1>2 DEF EndFault
<1>3. CASE \E who \in {"main", "task"} : RaiseFault(who)
  BY <1>3 DEF RaiseFault, BeginFault, Registered
<1>4. CASE \E a \in Actuators : Register(a)
  BY <1>4 DEF Register
<1>5. CASE \E a \in Actuators : Unregister(a)
  BY <1>5, UnregisterType
<1> QED
  BY <1>1, <1>2, <1>3, <1>4, <1>5 DEF FaultStep

LEMMA NextPlaced == LifeTypeOK /\ Placed /\ [LifeNext]_lifeVars => Placed'
<1> SUFFICES ASSUME LifeTypeOK, Placed, [LifeNext]_lifeVars PROVE Placed'
  OBVIOUS
<1>1. CASE SafeOff
  BY <1>1 DEF SafeOff, Placed, LifeTypeOK
<1>2. CASE ~SafeOff
  BY <1>2 DEF Placed, LifeNext, BootStep, FaultStep, CountBoot, Proceed, EnterInit,
              NoQueue, InitDone, InitFails, Lock, Tick, BeginFault, RaiseFault,
              EndFault, Register, Unregister, Reset, lifeVars, faultVars
<1> QED
  BY <1>1, <1>2

LEMMA TypeInvariant == LifeSpec => []TypeInv
<1>1. LifeInit => TypeInv
  BY InitType DEF TypeInv, Placed, LifeInit
<1>2. TypeInv /\ [LifeNext]_lifeVars => TypeInv'
  <2> SUFFICES ASSUME TypeInv, [LifeNext]_lifeVars PROVE LifeTypeOK'
    BY NextPlaced DEF TypeInv
  <2>1. CASE UNCHANGED lifeVars
    BY <2>1 DEF TypeInv, LifeTypeOK, lifeVars, bootVars, faultVars
  <2> QED
    BY <2>1, BootType, FaultType, ResetType DEF LifeNext, TypeInv
<1> QED
  BY <1>1, <1>2, PTL DEF LifeSpec

\* Counters, registry and fault path keep their types, wherever the device is
\* reset.
THEOREM LifeTypeCorrect == LifeSpec => []LifeTypeOK
<1>1. TypeInv => LifeTypeOK
  BY DEF TypeInv
<1> QED
  BY <1>1, TypeInvariant, PTL

-----------------------------------------------------------------------------
(* The life cycle: the boot lock.                                          *)

\* the counter of this boot has been stored, if only without its magic number
Counted == phase # "reset" /\ reason \in Abnormal

\* The counter never runs ahead of the abnormal resets; one that is not
\* counted yet leaves it one behind, unless the history is at its bound.
NotTooMany ==
  /\ magic \/ Counted => count <= abnormal
  /\ phase = "reset" /\ reason \in Abnormal =>
       /\ abnormal >= 1
       /\ magic => count < abnormal \/ abnormal = MaxCount

\* Nor does it fall behind the starts of the app: the boot that is under way
\* was counted before its start.
NotTooFew ==
  /\ attempts < Threshold
  /\ attempts <= BootCount
  /\ phase = "counted" /\ reason \in Abnormal => attempts < count
  /\ phase = "ready" /\ reason \in Abnormal =>
       attempts < count /\ count < Threshold /\ magic

\* A power-on boot starts with a cleared counter.
FreshAtPowerOn ==
  phase = "counted" /\ reason = "POWER_ON" => count = 0 /\ attempts = 0

BootInv == NotTooMany /\ NotTooFew /\ FreshAtPowerOn /\ LockIsDeserved

LEMMA InitBoot == LifeInit => BootInv
BY LifecycleAssumption
   DEF LifeInit, BootInv, NotTooMany, NotTooFew, FreshAtPowerOn, LockIsDeserved,
       Counted, Abnormal, BootCount

LEMMA ResetBoot ==
  ASSUME LifeTypeOK, BootInv, NEW r \in Reasons, NEW lost \in BOOLEAN,
         Reset(r, lost)
  PROVE  BootInv'
<1> USE LifecycleAssumption DEF Reset, LifeTypeOK
<1>1. CASE lost
  BY <1>1 DEF BootInv, NotTooMany, NotTooFew, FreshAtPowerOn, LockIsDeserved,
              Counted, Abnormal, BootCount
<1>2. CASE ~lost
  <2>1. NotTooMany'
    BY <1>2 DEF BootInv, NotTooMany, Counted, Abnormal, Up
  <2>2. NotTooFew' /\ FreshAtPowerOn' /\ LockIsDeserved'
    BY <1>2 DEF BootInv, NotTooFew, FreshAtPowerOn, LockIsDeserved, BootCount
  <2> QED
    BY <2>1, <2>2 DEF BootInv
<1> QED
  BY <1>1, <1>2

LEMMA CountBootBoot == LifeTypeOK /\ BootInv /\ CountBoot => BootInv'
<1> SUFFICES ASSUME LifeTypeOK, BootInv, CountBoot PROVE BootInv'
  OBVIOUS
<1> USE LifecycleAssumption DEF CountBoot, LifeTypeOK, BootInv
<1>1. CASE reason = "POWER_ON"
  BY <1>1 DEF NotTooMany, NotTooFew, FreshAtPowerOn, LockIsDeserved, Counted,
              Abnormal, BootCount
<1>2. CASE reason \in Abnormal
  <2>1. count' = Up(BootCount) /\ UNCHANGED <<abnormal, attempts, magic, reason>>
    BY <1>2 DEF Abnormal
  <2>2. count' <= abnormal
    <3>1. /\ abnormal >= 1 /\ abnormal \in 0 .. MaxCount
          /\ magic => count < abnormal \/ abnormal = MaxCount
      BY <1>2 DEF NotTooMany
    <3> QED
      BY <2>1, <3>1 DEF BootCount, Up
  <2>3. attempts < count' /\ attempts <= BootCount'
    BY <1>2, <2>1 DEF NotTooFew, BootCount, Up
  <2> QED
    BY <1>2, <2>1, <2>2, <2>3
       DEF NotTooMany, NotTooFew, FreshAtPowerOn, LockIsDeserved, Abnormal
<1>3. CASE reason \notin Abnormal \cup {"POWER_ON"}
  BY <1>3 DEF NotTooMany, NotTooFew, FreshAtPowerOn, LockIsDeserved, Counted,
              Abnormal, BootCount
<1> QED
  BY <1>1, <1>2, <1>3

LEMMA BootBoot == LifeTypeOK /\ BootInv /\ BootStep => BootInv'
<1> SUFFICES ASSUME LifeTypeOK, BootInv, BootStep PROVE BootInv'
  OBVIOUS
<1> USE LifecycleAssumption DEF LifeTypeOK, BootInv, LockIsDeserved, FreshAtPowerOn
<1>1. CASE Proceed
  <2>1. NotTooMany'
    BY <1>1 DEF Proceed, TooMany, NotTooMany, NotTooFew, Counted, Abnormal
  <2>2. CASE reason \in Abnormal \cup {"POWER_ON"}
    <3>1. magic' = TRUE
      BY <1>1, <2>2, Zenon DEF Proceed
    <3>2. attempts <= count
      BY <1>1, <2>2 DEF Proceed, NotTooFew, BootCount
    <3>3. NotTooFew' /\ FreshAtPowerOn' /\ LockIsDeserved'
      BY <1>1, <2>2, <3>1, <3>2
         DEF Proceed, TooMany, NotTooFew, Abnormal, BootCount
    <3> QED
      BY <2>1, <3>3
  <2>3. CASE reason \notin Abnormal \cup {"POWER_ON"}
    BY <1>1, <2>1, <2>3 DEF Proceed, NotTooFew, Abnormal, BootCount
  <2> QED
    BY <2>2, <2>3
<1>2. CASE Lock
  BY <1>2 DEF Lock, TooMany, NotTooMany, NotTooFew, Counted, Abnormal,
              BootCount
<1>3. CASE EnterInit
  BY <1>3 DEF EnterInit, NotTooMany, NotTooFew, Counted, Abnormal, BootCount,
              Up
<1>4. CASE NoQueue \/ InitDone \/ InitFails
  BY <1>4 DEF NoQueue, InitDone, InitFails, NotTooMany, NotTooFew, Counted,
              BootCount
<1>5. CASE Tick
  BY <1>5 DEF Tick, NotTooMany, NotTooFew, Counted, BootCount
<1> QED
  BY <1>1, <1>2, <1>3, <1>4, <1>5, CountBootBoot DEF BootStep

LEMMA OthersBoot == BootInv /\ UNCHANGED bootVars => BootInv'
BY DEF BootInv, NotTooMany, NotTooFew, FreshAtPowerOn, LockIsDeserved,
       Counted, BootCount, bootVars

LEMMA NextBoot == LifeTypeOK /\ BootInv /\ [LifeNext]_lifeVars => BootInv'
<1> SUFFICES ASSUME LifeTypeOK, BootInv, [LifeNext]_lifeVars PROVE BootInv'
  OBVIOUS
<1>1. CASE BootStep
  BY <1>1, BootBoot
<1>2. CASE \E r \in Reasons, lost \in BOOLEAN : Reset(r, lost)
  BY <1>2, ResetBoot
<1>3. CASE UNCHANGED bootVars
  BY <1>3, OthersBoot
<1> QED
  BY <1>1, <1>2, <1>3
     DEF LifeNext, FaultStep, SafeOff, EndFault, RaiseFault, Register, Unregister,
         lifeVars

THEOREM BootInvariant == LifeSpec => []BootInv
BY InitBoot, NextBoot, LifeTypeCorrect, PTL DEF LifeSpec

\* However the resets fall, between any two stores of the boot path, a crash
\* loop gets at most Threshold - 1 starts of the app.
THEOREM CrashLoopsAreLocked == LifeSpec => []CrashLoopIsLocked
<1>1. BootInv => CrashLoopIsLocked
  BY DEF BootInv, NotTooFew, CrashLoopIsLocked
<1> QED
  BY <1>1, BootInvariant, PTL

\* And no device is locked that was not reset abnormally Threshold times.
THEOREM LocksAreDeserved == LifeSpec => []LockIsDeserved
<1>1. BootInv => LockIsDeserved
  BY DEF BootInv
<1> QED
  BY <1>1, BootInvariant, PTL

-----------------------------------------------------------------------------
(* The life cycle: the reach of a fault.                                   *)

\* What the pass still owes is off already or ahead of the cursor.
Ahead ==
  raiser # "none" =>
    \A a \in owed \ called :
      \E i \in cursor .. Len(entries) : entries[i] = a

LEMMA InitAhead == LifeInit => Ahead
BY DEF LifeInit, Ahead

LEMMA BeginAhead ==
  ASSUME LifeTypeOK, NEW who, BeginFault(who) PROVE Ahead'
BY DEF LifeTypeOK, BeginFault, Ahead, Registered

LEMMA UnregisterAhead ==
  ASSUME TypeInv, Ahead, NEW a \in Actuators, Unregister(a) PROVE Ahead'
<1>1. PICK i \in 1 .. Len(entries) :
        /\ entries[i] = a
        /\ entries' = SubSeq(entries, 1, i - 1)
                        \o SubSeq(entries, i + 1, Len(entries))
        /\ owed' = IF i < cursor THEN {} ELSE owed \ {a}
  BY DEF Unregister
<1>2. UNCHANGED <<raiser, cursor, called>>
  BY DEF Unregister
<1>3. CASE i < cursor
  BY <1>1, <1>2, <1>3 DEF Ahead
<1>4. CASE i >= cursor
  <2> SUFFICES ASSUME raiser # "none", NEW b \in owed \ called, b # a
               PROVE  \E j \in cursor .. Len(entries') : entries'[j] = b
    BY <1>1, <1>2, <1>4 DEF Ahead
  <2>1. PICK j \in cursor .. Len(entries) : entries[j] = b
    BY DEF Ahead
  <2>2. cursor \in Nat /\ cursor >= 1 /\ entries \in Seq(Actuators)
    BY DEF TypeInv, Placed, LifeTypeOK
  <2>3. /\ Len(entries') = Len(entries) - 1
        /\ \A k \in 1 .. i - 1 : entries'[k] = entries[k]
        /\ \A k \in i + 1 .. Len(entries) : entries'[k - 1] = entries[k]
    BY <1>1, <2>2, GapIsClosed
  <2>4. CASE j < i
    BY <2>1, <2>2, <2>3, <2>4
  <2>5. CASE j > i
    <3>1. entries'[j - 1] = b /\ j - 1 \in cursor .. Len(entries')
      BY <1>4, <2>1, <2>2, <2>3, <2>5
    <3> QED
      BY <3>1
  <2> QED
    <3>1. j \in Int /\ i \in Int /\ j # i
      BY <1>1, <2>1, <2>2
    <3> QED
      BY <2>4, <2>5, <3>1
<1> QED
  BY <1>3, <1>4 DEF TypeInv, LifeTypeOK

LEMMA NextAhead == TypeInv /\ Ahead /\ [LifeNext]_lifeVars => Ahead'
<1> SUFFICES ASSUME TypeInv, Ahead, [LifeNext]_lifeVars PROVE Ahead'
  OBVIOUS
<1>1. CASE UNCHANGED faultVars
  BY <1>1 DEF Ahead, faultVars
<1>2. CASE Lock \/ InitFails \/ \E who \in {"main", "task"} : RaiseFault(who)
  BY <1>2, BeginAhead DEF TypeInv, Lock, InitFails, RaiseFault
<1>3. CASE SafeOff
  BY <1>3 DEF SafeOff, Ahead, TypeInv, LifeTypeOK, Placed
<1>4. CASE EndFault
  BY <1>4 DEF EndFault, Ahead
<1>5. CASE \E r \in Reasons, lost \in BOOLEAN : Reset(r, lost)
  BY <1>5 DEF Reset, Ahead
<1>6. CASE \E a \in Actuators : Register(a)
  BY <1>6 DEF Register, Ahead, TypeInv, LifeTypeOK, Placed
<1>7. CASE \E a \in Actuators : Unregister(a)
  BY <1>7, UnregisterAhead
<1> QED
  BY <1>1, <1>2, <1>3, <1>4, <1>5, <1>6, <1>7
     DEF LifeNext, BootStep, FaultStep, CountBoot, Proceed, EnterInit, NoQueue,
         InitDone, Tick, lifeVars

\* The pass over the registry reaches every actuator it found, although the
\* table grows and shrinks under it.
THEOREM FaultsReachAll == LifeSpec => FaultReachesAll
<1>1. TypeInv /\ Ahead /\ [LifeNext]_lifeVars =>
        [raiser # "none" /\ raiser' = "none" /\ phase' # "reset"
           => owed \subseteq called]_lifeVars
  <2> SUFFICES ASSUME TypeInv, Ahead, LifeNext, raiser # "none",
                      raiser' = "none", phase' # "reset"
               PROVE  owed \subseteq called
    OBVIOUS
  <2>1. CASE EndFault
    BY <2>1 DEF EndFault, Ahead, TypeInv, LifeTypeOK
  <2>2. CASE ~EndFault
    BY <2>2 DEF LifeNext, BootStep, FaultStep, CountBoot, Proceed, EnterInit,
                NoQueue, InitDone, InitFails, Lock, Tick, BeginFault,
                RaiseFault, SafeOff, Register, Unregister, Reset, faultVars
  <2> QED
    BY <2>1, <2>2
<1> QED
  BY <1>1, InitAhead, NextAhead, TypeInvariant, PTL DEF LifeSpec, FaultReachesAll
-----------------------------------------------------------------------------
(* The event queue: sequences.                                             *)

USE QueueAssumption

\* closing a gap keeps the other entries in their order
LEMMA WithoutPlaceType ==
  ASSUME NEW S, NEW q \in Seq(S), NEW i \in 1 .. Len(q)
  PROVE  /\ WithoutPlace(q, i) \in Seq(S)
         /\ Len(WithoutPlace(q, i)) = Len(q) - 1
         /\ \A j \in 1 .. Len(q) - 1 :
              WithoutPlace(q, i)[j] = IF j < i THEN q[j] ELSE q[j + 1]
<1>1. Len(q) \in Nat /\ DOMAIN q = 1 .. Len(q)
  BY LenProperties
<1>2. \A j \in 1 .. Len(q) : q[j] \in S
  BY <1>1, ElementOfSeq
<1>3. WithoutPlace(q, i) \in [1 .. Len(q) - 1 -> S]
  BY <1>1, <1>2 DEF WithoutPlace
<1>4. Len(q) - 1 \in Nat
  BY <1>1
<1>5. WithoutPlace(q, i) \in Seq(S)
  BY <1>3, <1>4, SeqDef
<1>6. Len(WithoutPlace(q, i)) = Len(q) - 1
  BY <1>3, <1>4, <1>5, LenProperties
<1> QED BY <1>5, <1>6 DEF WithoutPlace

\* what the tail of a line or queue holds
LEMMA TailEntries ==
  ASSUME NEW S, NEW q \in Seq(S), q # <<>>
  PROVE  /\ Head(q) \in S /\ Head(q) = q[1]
         /\ Tail(q) \in Seq(S) /\ Len(Tail(q)) = Len(q) - 1
         /\ Len(q) \in Nat \ {0}
         /\ \A j \in 1 .. Len(q) - 1 : Tail(q)[j] = q[j + 1]
<1>1. Len(q) \in Nat \ {0}
  BY LenProperties, EmptySeq
<1>2. /\ Head(q) \in S /\ Tail(q) \in Seq(S)
      /\ Len(Tail(q)) = Len(q) - 1
      /\ \A j \in 1 .. Len(Tail(q)) : Tail(q)[j] = q[j + 1]
  BY HeadTailProperties
<1> QED BY <1>1, <1>2

\* what a longer line or queue holds
LEMMA AppendEntries ==
  ASSUME NEW S, NEW q \in Seq(S), NEW x \in S
  PROVE  /\ Append(q, x) \in Seq(S) /\ Len(Append(q, x)) = Len(q) + 1
         /\ Len(q) \in Nat
         /\ \A j \in 1 .. Len(q) : Append(q, x)[j] = q[j]
         /\ Append(q, x)[Len(q) + 1] = x
BY AppendProperties, LenProperties

-----------------------------------------------------------------------------
(* The event queue: types.                                                 *)

\* a producer between the check and the push has an event left to post
PushIsBounded == \A p \in Producers : ppc[p] = "push" => posted[p] < MaxPosts

Types == TypeOK /\ PushIsBounded

\* empty lines and queues
LEMMA EmptyTypes ==
  <<>> \in Seq(Event) /\ <<>> \in Seq(Consumers) /\ Len(<<>>) = 0 /\ Len(<<>>) <= Ring
BY EmptySeq

\* at the start
LEMMA TypesInit == Init => Types
<1> SUFFICES ASSUME Init
             PROVE  Types
  OBVIOUS
<1>1. up \in BOOLEAN
  BY DEF Init
<1>2. queue \in Seq(Event) /\ Len(queue) <= Ring /\ line \in Seq(Consumers)
  BY EmptyTypes DEF Init
<1>3. /\ token \in {0, 1}
      /\ ppc \in [Producers -> {"idle", "push", "give"}]
      /\ cpc \in [Consumers -> {"idle", "take", "blocked", "woken", "expired", "retry"}]
      /\ posted \in [Producers -> 0 .. MaxPosts]
      /\ got \in [Producers -> 0 .. MaxPosts]
  BY DEF Init
<1>4. PushIsBounded
  BY DEF Init, PushIsBounded
<1> QED BY <1>1, <1>2, <1>3, <1>4 DEF Types, TypeOK

\* a pop takes the head of the queue
LEMMA PopType ==
  ASSUME Types, Target = "sim", NEW c \in Consumers, NEW w \in {"idle", "take"}, Pop(c, w)
  PROVE  Types'
<1>1. CASE queue # <<>>
  <2>1. /\ Head(queue) \in Event /\ Tail(queue) \in Seq(Event)
        /\ Len(Tail(queue)) = Len(queue) - 1 /\ Len(queue) \in Nat
    BY <1>1, TailEntries DEF Types, TypeOK
  <2>2. /\ queue' = Tail(queue) /\ Goes(c, "idle")
        /\ got' = [got EXCEPT ![Head(queue).dev] = Head(queue).no]
    BY <1>1 DEF Pop
  <2>3. queue' \in Seq(Event) /\ Len(queue') <= Ring
    BY <2>1, <2>2 DEF Types, TypeOK
  <2>4. Head(queue).no \in 0 .. MaxPosts
    BY <2>1 DEF Event
  <2>5. got' \in [Producers -> 0 .. MaxPosts]
    BY <2>2, <2>4 DEF Types, TypeOK
  <2>6. cpc' \in [Consumers -> {"idle", "take", "blocked", "woken", "expired", "retry"}]
    BY <2>2 DEF Goes, Types, TypeOK
  <2> QED BY <2>3, <2>5, <2>6 DEF Pop, Types, TypeOK, PushIsBounded
<1>2. CASE queue = <<>>
  BY <1>2, EmptyTypes DEF Pop, Goes, Types, TypeOK, PushIsBounded
<1> QED BY <1>1, <1>2

\* a post keeps the types
LEMMA PostType ==
  ASSUME Types, Target = "sim", NEW p \in Producers,
         Coalesce(p) \/ PostCheck(p) \/ PostStep(p)
  PROVE  Types'
<1>1. CASE Coalesce(p)
  <2>1. PICK i \in Queued(p) : queue' = [queue EXCEPT ![i].no = posted[p] + 1]
    BY <1>1 DEF Coalesce
  <2>2. i \in 1 .. Len(queue) /\ DOMAIN queue = 1 .. Len(queue) /\ Len(queue) \in Nat
    BY LenProperties DEF Queued, Types, TypeOK
  <2>3. queue[i] \in Event
    BY <2>2, ElementOfSeq DEF Types, TypeOK
  <2>4. posted[p] + 1 \in 1 .. MaxPosts
    BY <1>1 DEF Coalesce, Types, TypeOK
  <2>5. [queue[i] EXCEPT !.no = posted[p] + 1] \in Event
    BY <2>3, <2>4 DEF Event
  <2>6. queue' \in [1 .. Len(queue) -> Event]
    BY <2>1, <2>2, <2>5, ElementOfSeq DEF Types, TypeOK
  <2>7. queue' \in Seq(Event) /\ Len(queue') = Len(queue)
    BY <2>2, <2>6, SeqDef, LenProperties
  <2> QED BY <1>1, <2>4, <2>7 DEF Coalesce, Types, TypeOK, PushIsBounded
<1>2. CASE PostCheck(p)
  BY <1>2 DEF PostCheck, Types, TypeOK, PushIsBounded
<1>3. CASE PostPush(p)
  <2>1. CASE Len(queue) < Ring
    <3>1. posted[p] + 1 \in 1 .. MaxPosts
      BY <1>3 DEF PostPush, Types, TypeOK, PushIsBounded
    <3>2. [dev |-> p, no |-> posted[p] + 1] \in Event
      BY <3>1 DEF Event
    <3>3. /\ queue' = Append(queue, [dev |-> p, no |-> posted[p] + 1])
          /\ posted' = [posted EXCEPT ![p] = @ + 1] /\ ppc' = [ppc EXCEPT ![p] = "give"]
          /\ UNCHANGED <<up, token, line, cpc, got>>
      BY <1>3, <2>1 DEF PostPush
    <3>4. queue' \in Seq(Event) /\ Len(queue') <= Ring
      BY <2>1, <3>2, <3>3, AppendEntries DEF Types, TypeOK
    <3> QED BY <3>1, <3>3, <3>4 DEF Types, TypeOK, PushIsBounded
  <2>2. CASE ~(Len(queue) < Ring)
    BY <1>3, <2>2 DEF PostPush, Types, TypeOK, PushIsBounded
  <2> QED BY <2>1, <2>2
<1>4. CASE PostGive(p)
  <2>1. HandOff
    BY <1>4 DEF PostGive
  <2>2. CASE line = <<>>
    BY <1>4, <2>1, <2>2 DEF PostGive, HandOff, Types, TypeOK, PushIsBounded
  <2>3. CASE line # <<>>
    <3>1. Head(line) \in Consumers /\ Tail(line) \in Seq(Consumers)
      BY <2>3, TailEntries DEF Types, TypeOK
    <3> QED BY <1>4, <2>1, <2>3, <3>1 DEF PostGive, HandOff, Goes, Types, TypeOK, PushIsBounded
  <2> QED BY <2>2, <2>3
<1> QED BY <1>1, <1>2, <1>3, <1>4 DEF PostStep

\* a pend keeps the types
LEMMA PendType ==
  ASSUME Types, Target = "sim", NEW c \in Consumers, PendStep(c)
  PROVE  Types'
<1>1. CASE Pend(c) \/ Drain(c) \/ Retry(c)
  BY <1>1, PopType DEF Pend, Drain, Retry
<1>2. CASE Take(c)
  <2>1. Append(line, c) \in Seq(Consumers)
    BY AppendEntries DEF Types, TypeOK
  <2> QED BY <1>2, <2>1 DEF Take, Goes, Types, TypeOK, PushIsBounded
<1>3. CASE Wake(c) \/ Expire(c)
  BY <1>3 DEF Wake, Expire, Goes, Types, TypeOK, PushIsBounded
<1>4. CASE TimeOut(c)
  <2>1. line' \in Seq(Consumers)
    BY <1>4, WithoutPlaceType DEF TimeOut, Types, TypeOK
  <2> QED BY <1>4, <2>1 DEF TimeOut, Goes, Types, TypeOK, PushIsBounded
<1> QED BY <1>1, <1>2, <1>3, <1>4 DEF PendStep

\* every step keeps the types
LEMMA TypesNext == Target = "sim" /\ Types /\ [Next]_vars => Types'
<1> SUFFICES ASSUME Target = "sim", Types, [Next]_vars
             PROVE  Types'
  OBVIOUS
<1>1. CASE QueueInit \/ QueueDeinit
  BY <1>1, EmptyTypes DEF QueueInit, QueueDeinit, Types, TypeOK, PushIsBounded
<1>2. ASSUME NEW p \in Producers, Coalesce(p) \/ PostCheck(p) \/ PostStep(p)
      PROVE  Types'
  BY <1>2, PostType
<1>3. ASSUME NEW c \in Consumers, PendStep(c)
      PROVE  Types'
  BY <1>3, PendType
<1>4. CASE UNCHANGED vars
  BY <1>4 DEF vars, Types, TypeOK, PushIsBounded
<1> QED BY <1>1, <1>2, <1>3, <1>4 DEF Next

\* Queue, ring, semaphore and places in the calls keep their types on the
\* simulation targets, whatever the number of actors and events.
THEOREM QueueTypeCorrect == Target = "sim" => (Spec => []TypeOK)
<1> SUFFICES ASSUME Target = "sim"
             PROVE  Spec => []TypeOK
  OBVIOUS
<1>1. Init => Types
  BY TypesInit
<1>2. Types /\ [Next]_vars => Types'
  BY TypesNext
<1>3. Types => TypeOK
  BY DEF Types
<1> QED BY <1>1, <1>2, <1>3, PTL DEF Spec

-----------------------------------------------------------------------------
(* The event queue: wakeups.                                               *)

Actors == Producers \cup Consumers

\* A simulation target never switches away in the middle of a call.
OneMidCall == \A a, b \in Actors : MidCall(a) /\ MidCall(b) => a = b

\* The wait line holds every blocked consumer, each one once, and besides only some
\* whose timeout has fired.
TidyLine ==
  /\ \A i, j \in 1 .. Len(line) : line[i] = line[j] => i = j
  /\ \A i \in 1 .. Len(line) : cpc[line[i]] \in {"blocked", "expired"}
  /\ \A c \in Consumers : cpc[c] = "blocked" => \E i \in 1 .. Len(line) : line[i] = c

\* A consumer goes for the semaphore only after it has found the queue empty.
TakesWhenEmpty == \A c \in Consumers : cpc[c] = "take" => queue = <<>>

\* With everybody asleep and an event queued, somebody is about to give.
GiveIsComing ==
  queue # <<>> /\ (\A c \in Consumers : cpc[c] = "blocked") =>
    \E p \in Producers : ppc[p] = "give"

WakeInv == Types /\ OneMidCall /\ TidyLine /\ TakesWhenEmpty /\ GiveIsComing

\* The actor whose turn it is, is the only one that can be in a call.
LEMMA TurnIsAlone ==
  ASSUME Target = "sim", NEW a \in Actors, Turn(a)
  PROVE  \A b \in Actors : MidCall(b) => b = a
BY DEF Turn, Actors

\* so a step of one actor leaves at most that one in a call
LEMMA AloneNext ==
  ASSUME Target = "sim", Types, OneMidCall, [Next]_vars
  PROVE  OneMidCall'
<1>1. CASE QueueInit \/ QueueDeinit \/ UNCHANGED vars
  BY <1>1 DEF QueueInit, QueueDeinit, vars, OneMidCall, MidCall
<1>2. ASSUME NEW p \in Producers, Coalesce(p) \/ PostCheck(p) \/ PostPush(p)
      PROVE  OneMidCall'
  <2>1. Turn(p) /\ cpc' = cpc /\ \A q \in Producers : q # p => ppc'[q] = ppc[q]
    BY <1>2 DEF Coalesce, PostCheck, PostPush, Types, TypeOK
  <2>2. \A b \in Actors : MidCall(b) => b = p
    BY <2>1, TurnIsAlone DEF Actors
  <2> QED BY <2>1, <2>2 DEF OneMidCall, MidCall, Actors
<1>3. ASSUME NEW p \in Producers, PostGive(p)
      PROVE  OneMidCall'
  <2>1. /\ Turn(p) /\ HandOff
        /\ \A q \in Producers : q # p => ppc'[q] = ppc[q]
    BY <1>3 DEF PostGive, Types, TypeOK
  <2>2. \A c \in Consumers : cpc'[c] \in {"take", "retry"} => cpc[c] = cpc'[c]
    <3>1. CASE line = <<>>
      BY <2>1, <3>1 DEF HandOff
    <3>2. CASE line # <<>>
      BY <2>1, <3>2 DEF HandOff, Goes, Types, TypeOK
    <3> QED BY <3>1, <3>2
  <2>3. \A b \in Actors : MidCall(b) => b = p
    BY <2>1, TurnIsAlone DEF Actors
  <2> QED BY <2>1, <2>2, <2>3 DEF OneMidCall, MidCall, Actors
<1>4. ASSUME NEW c \in Consumers,
             Pend(c) \/ Drain(c) \/ Retry(c) \/ Take(c) \/ Wake(c) \/ TimeOut(c)
      PROVE  OneMidCall'
  <2>1. Turn(c) /\ ppc' = ppc
    BY <1>4 DEF Pend, Drain, Retry, Take, Wake, TimeOut, Pop
  <2>2. \A d \in Consumers : d # c => cpc'[d] = cpc[d]
    BY <1>4 DEF Pend, Drain, Retry, Take, Wake, TimeOut, Pop, Goes, Types, TypeOK
  <2>3. \A b \in Actors : MidCall(b) => b = c
    BY <2>1, TurnIsAlone DEF Actors
  <2> QED BY <2>1, <2>2, <2>3 DEF OneMidCall, MidCall, Actors
<1>5. ASSUME NEW c \in Consumers, Expire(c)
      PROVE  OneMidCall'
  BY <1>5 DEF Expire, Goes, OneMidCall, MidCall, Actors, Types, TypeOK
<1> QED BY <1>1, <1>2, <1>3, <1>4, <1>5 DEF Next, PostStep, PendStep

\* the line stays tidy when an entry of it is removed and its task is no longer blocked
LEMMA HandOffLine ==
  ASSUME Types, TidyLine, HandOff
  PROVE  TidyLine'
<1>1. CASE line = <<>>
  BY <1>1 DEF HandOff, TidyLine
<1>2. CASE line # <<>>
  <2> DEFINE h == Head(line)
  <2>1. /\ h \in Consumers /\ h = line[1] /\ Len(line) \in Nat \ {0}
        /\ line' = Tail(line) /\ Len(line') = Len(line) - 1
        /\ \A j \in 1 .. Len(line) - 1 : line'[j] = line[j + 1]
    <3>1. line \in Seq(Consumers) /\ line # <<>>
      BY <1>2 DEF Types, TypeOK
    <3>2. line' = Tail(line)
      BY <1>2 DEF HandOff
    <3>3. line[1] \in Consumers /\ h = line[1] /\ Len(line) \in Nat \ {0}
      BY <3>1, ElementOfSeq, EmptySeq, LenProperties
    <3> HIDE DEF h
    <3>4. /\ Len(Tail(line)) = Len(line) - 1
          /\ \A j \in 1 .. Len(line) - 1 : Tail(line)[j] = line[j + 1]
      BY <3>1, TailEntries
    <3> QED BY <3>2, <3>3, <3>4
  <2>7. \A j \in 1 .. Len(line) : line[j] \in Consumers
    BY ElementOfSeq DEF Types, TypeOK
  <2>2. /\ \A d \in Consumers : d # h => cpc'[d] = cpc[d]
        /\ cpc'[h] # "blocked"
    <3>1. CASE cpc[h] = "blocked"
      <4>1. cpc' = [cpc EXCEPT ![h] = "woken"]
        BY <1>2, <3>1 DEF HandOff, Goes
      <4> QED BY <2>1, <4>1 DEF Types, TypeOK
    <3>2. CASE cpc[h] # "blocked"
      BY <1>2, <3>2 DEF HandOff
    <3> QED BY <3>1, <3>2
  <2> HIDE DEF h
  <2>3. \A j \in 1 .. Len(line') : line'[j] # h
    BY <2>1 DEF TidyLine
  <2>4. \A i, j \in 1 .. Len(line') : line'[i] = line'[j] => i = j
    BY <2>1 DEF TidyLine
  <2>5. \A i \in 1 .. Len(line') : cpc'[line'[i]] \in {"blocked", "expired"}
    BY <2>1, <2>2, <2>3, <2>7 DEF TidyLine
  <2>6. ASSUME NEW c \in Consumers, cpc'[c] = "blocked"
        PROVE  \E i \in 1 .. Len(line') : line'[i] = c
    <3>1. c # h /\ cpc[c] = "blocked"
      BY <2>2, <2>6
    <3>2. PICK i \in 1 .. Len(line) : line[i] = c
      BY <3>1 DEF TidyLine
    <3>3. i # 1 /\ i - 1 \in 1 .. Len(line') /\ line'[i - 1] = c
      BY <2>1, <3>1, <3>2
    <3> QED BY <3>3
  <2> QED BY <2>4, <2>5, <2>6 DEF TidyLine
<1> QED BY <1>1, <1>2

\* a consumer that gives up takes itself out of the line
LEMMA TimeOutLine ==
  ASSUME Types, TidyLine, NEW c \in Consumers, TimeOut(c)
  PROVE  TidyLine'
<1>1. /\ cpc[c] = "expired" /\ cpc'[c] = "idle"
      /\ \A d \in Consumers : d # c => cpc'[d] = cpc[d]
      /\ Len(line) \in Nat /\ \A j \in 1 .. Len(line) : line[j] \in Consumers
  BY ElementOfSeq, LenProperties DEF TimeOut, Goes, Types, TypeOK
<1>2. CASE \E i \in 1 .. Len(line) : line[i] = c /\ line' = WithoutPlace(line, i)
  <2>1. PICK i \in 1 .. Len(line) : line[i] = c /\ line' = WithoutPlace(line, i)
    BY <1>2
  <2>2. /\ Len(line') = Len(line) - 1
        /\ \A j \in 1 .. Len(line') : line'[j] = IF j < i THEN line[j] ELSE line[j + 1]
    <3>1. line \in Seq(Consumers)
      BY DEF Types, TypeOK
    <3>2. /\ Len(WithoutPlace(line, i)) = Len(line) - 1
          /\ \A j \in 1 .. Len(line) - 1 :
               WithoutPlace(line, i)[j] = IF j < i THEN line[j] ELSE line[j + 1]
      BY <3>1, WithoutPlaceType
    <3> QED BY <2>1, <3>2
  <2>3. \A j \in 1 .. Len(line') : line'[j] # c
    BY <1>1, <2>1, <2>2 DEF TidyLine
  <2>4. \A j, k \in 1 .. Len(line') : line'[j] = line'[k] => j = k
    <3>1. TAKE j, k \in 1 .. Len(line')
    <3>2. HAVE line'[j] = line'[k]
    <3> DEFINE old(x) == IF x < i THEN x ELSE x + 1
    <3>3. /\ line'[j] = line[old(j)] /\ line'[k] = line[old(k)]
          /\ old(j) \in 1 .. Len(line) /\ old(k) \in 1 .. Len(line)
      BY <1>1, <2>1, <2>2
    <3> HIDE DEF old
    <3>4. old(j) = old(k)
      <4>1. \A x, y \in 1 .. Len(line) : line[x] = line[y] => x = y
        BY DEF TidyLine
      <4>2. line[old(j)] = line[old(k)]
        BY <3>2, <3>3
      <4> QED BY <3>3, <4>1, <4>2
    <3> QED BY <1>1, <3>4 DEF old
  <2>5. \A j \in 1 .. Len(line') : cpc'[line'[j]] \in {"blocked", "expired"}
    BY <1>1, <2>1, <2>2, <2>3 DEF TidyLine
  <2>6. ASSUME NEW d \in Consumers, cpc'[d] = "blocked"
        PROVE  \E j \in 1 .. Len(line') : line'[j] = d
    <3>1. d # c /\ cpc[d] = "blocked"
      BY <1>1, <2>6
    <3>2. PICK k \in 1 .. Len(line) : line[k] = d
      BY <3>1 DEF TidyLine
    <3>3. k # i
      BY <2>1, <3>1, <3>2
    <3>4. CASE k < i
      BY <1>1, <2>1, <2>2, <3>2, <3>4
    <3>5. CASE k > i
      <4>1. k - 1 \in 1 .. Len(line') /\ line'[k - 1] = d
        BY <1>1, <2>1, <2>2, <3>2, <3>5
      <4> QED BY <4>1
    <3> QED BY <1>1, <3>3, <3>4, <3>5
  <2> QED BY <2>4, <2>5, <2>6 DEF TidyLine
<1>3. CASE (\A i \in 1 .. Len(line) : line[i] # c) /\ UNCHANGED line
  BY <1>1, <1>3 DEF TidyLine
<1> QED BY <1>2, <1>3 DEF TimeOut

\* every step keeps the line tidy
LEMMA TidyNext ==
  ASSUME Target = "sim", Types, TidyLine, [Next]_vars
  PROVE  TidyLine'
<1>1. Len(line) \in Nat /\ \A j \in 1 .. Len(line) : line[j] \in Consumers
  BY ElementOfSeq, LenProperties DEF Types, TypeOK
<1>2. CASE QueueInit \/ UNCHANGED vars
  BY <1>2 DEF QueueInit, vars, TidyLine
<1>3. CASE QueueDeinit
  BY <1>3, EmptyTypes DEF QueueDeinit, TidyLine
<1>4. ASSUME NEW p \in Producers, Coalesce(p) \/ PostCheck(p) \/ PostPush(p)
      PROVE  TidyLine'
  BY <1>4 DEF Coalesce, PostCheck, PostPush, TidyLine
<1>5. ASSUME NEW p \in Producers, PostGive(p)
      PROVE  TidyLine'
  BY <1>5, HandOffLine DEF PostGive
<1>6. ASSUME NEW c \in Consumers, Pend(c) \/ Drain(c) \/ Retry(c) \/ Wake(c)
      PROVE  TidyLine'
  <2>1. /\ line' = line /\ cpc[c] \notin {"blocked", "expired"} /\ cpc'[c] # "blocked"
        /\ \A d \in Consumers : d # c => cpc'[d] = cpc[d]
    BY <1>6 DEF Pend, Drain, Retry, Wake, Pop, Goes, Types, TypeOK
  <2> QED BY <1>1, <2>1 DEF TidyLine
<1>7. ASSUME NEW c \in Consumers, Expire(c)
      PROVE  TidyLine'
  <2>1. /\ line' = line /\ cpc'[c] = "expired"
        /\ \A d \in Consumers : d # c => cpc'[d] = cpc[d]
    BY <1>7 DEF Expire, Goes, Types, TypeOK
  <2> QED BY <1>1, <2>1 DEF TidyLine
<1>8. ASSUME NEW c \in Consumers, Take(c)
      PROVE  TidyLine'
  <2>1. CASE token = 1
    <3>1. /\ line' = line /\ cpc[c] = "take" /\ cpc'[c] = "retry"
          /\ \A d \in Consumers : d # c => cpc'[d] = cpc[d]
      BY <1>8, <2>1 DEF Take, Goes, Types, TypeOK
    <3> QED BY <1>1, <3>1 DEF TidyLine
  <2>2. CASE token # 1
    <3>1. /\ line' = Append(line, c) /\ cpc[c] = "take" /\ cpc'[c] = "blocked"
          /\ \A d \in Consumers : d # c => cpc'[d] = cpc[d]
      BY <1>8, <2>2 DEF Take, Goes, Types, TypeOK
    <3>2. /\ Len(line') = Len(line) + 1 /\ line'[Len(line) + 1] = c
          /\ \A j \in 1 .. Len(line) : line'[j] = line[j]
      BY <3>1, AppendEntries DEF Types, TypeOK
    <3>3. \A j \in 1 .. Len(line) : line[j] # c
      BY <3>1 DEF TidyLine
    <3> QED BY <1>1, <3>1, <3>2, <3>3 DEF TidyLine
  <2> QED BY <2>1, <2>2
<1>9. ASSUME NEW c \in Consumers, TimeOut(c)
      PROVE  TidyLine'
  BY <1>9, TimeOutLine
<1> QED
  BY <1>2, <1>3, <1>4, <1>5, <1>6, <1>7, <1>8, <1>9 DEF Next, PostStep, PendStep

\* nobody posts between a pop that found nothing and the wait that follows
LEMMA TakesNext ==
  ASSUME Target = "sim", Types, TakesWhenEmpty, [Next]_vars
  PROVE  TakesWhenEmpty'
<1>1. CASE QueueInit \/ QueueDeinit \/ UNCHANGED vars
  BY <1>1 DEF QueueInit, QueueDeinit, vars, TakesWhenEmpty
<1>2. ASSUME NEW p \in Producers, Coalesce(p) \/ PostCheck(p) \/ PostPush(p)
      PROVE  TakesWhenEmpty'
  <2>1. Turn(p) /\ cpc' = cpc
    BY <1>2 DEF Coalesce, PostCheck, PostPush
  <2>2. \A c \in Consumers : ~MidCall(c)
    BY <2>1, TurnIsAlone DEF Actors
  <2> QED BY <2>1, <2>2 DEF TakesWhenEmpty, MidCall
<1>3. ASSUME NEW p \in Producers, PostGive(p)
      PROVE  TakesWhenEmpty'
  <2>1. HandOff /\ queue' = queue
    BY <1>3 DEF PostGive
  <2>2. \A c \in Consumers : cpc'[c] = "take" => cpc[c] = "take"
    BY <2>1 DEF HandOff, Goes, Types, TypeOK
  <2> QED BY <2>1, <2>2 DEF TakesWhenEmpty
<1>4. ASSUME NEW c \in Consumers, Pend(c) \/ Drain(c) \/ Retry(c)
      PROVE  TakesWhenEmpty'
  <2>1. PICK w \in {"idle", "take"} : Pop(c, w)
    BY <1>4 DEF Pend, Drain, Retry
  <2>2. CASE queue = <<>>
    BY <2>1, <2>2 DEF Pop, TakesWhenEmpty
  <2>3. CASE queue # <<>>
    <3>1. \A d \in Consumers : cpc'[d] = "take" => cpc[d] = "take"
      BY <2>1, <2>3 DEF Pop, Goes, Types, TypeOK
    <3> QED BY <2>3, <3>1 DEF TakesWhenEmpty
  <2> QED BY <2>2, <2>3
<1>5. ASSUME NEW c \in Consumers, Take(c) \/ Wake(c) \/ Expire(c) \/ TimeOut(c)
      PROVE  TakesWhenEmpty'
  BY <1>5 DEF Take, Wake, Expire, TimeOut, Goes, Types, TypeOK, TakesWhenEmpty
<1> QED BY <1>1, <1>2, <1>3, <1>4, <1>5 DEF Next, PostStep, PendStep

\* the give that follows a push wakes somebody, if nobody is awake
LEMMA GiveNext ==
  ASSUME Target = "sim", Consumers # {}, WakeInv, [Next]_vars
  PROVE  GiveIsComing'
<1> USE DEF WakeInv
<1>1. CASE QueueInit \/ QueueDeinit \/ UNCHANGED vars
  BY <1>1 DEF QueueInit, QueueDeinit, vars, GiveIsComing
<1>2. ASSUME NEW p \in Producers, Coalesce(p)
      PROVE  GiveIsComing'
  <2>1. queue # <<>> /\ cpc' = cpc /\ ppc' = ppc
    BY <1>2, EmptyTypes DEF Coalesce, Queued
  <2> QED BY <2>1 DEF GiveIsComing
<1>3. ASSUME NEW p \in Producers, PostCheck(p)
      PROVE  GiveIsComing'
  <2>1. queue' = queue /\ cpc' = cpc /\ \A q \in Producers : ppc[q] = "give" => ppc'[q] = "give"
    BY <1>3 DEF PostCheck, Types, TypeOK
  <2> QED BY <2>1 DEF GiveIsComing
<1>4. ASSUME NEW p \in Producers, PostPush(p)
      PROVE  GiveIsComing'
  <2>1. CASE Len(queue) < Ring
    <3>1. ppc'[p] = "give"
      BY <1>4, <2>1 DEF PostPush, Types, TypeOK
    <3> QED BY <3>1 DEF GiveIsComing
  <2>2. CASE ~(Len(queue) < Ring)
    <3>1. /\ queue' = queue /\ cpc' = cpc
          /\ \A q \in Producers : ppc[q] = "give" => ppc'[q] = "give"
      BY <1>4, <2>2 DEF PostPush, Types, TypeOK
    <3> QED BY <3>1 DEF GiveIsComing
  <2> QED BY <2>1, <2>2
<1>5. ASSUME NEW p \in Producers, PostGive(p)
      PROVE  GiveIsComing'
  <2>1. HandOff
    BY <1>5 DEF PostGive
  <2>2. \E c \in Consumers : cpc'[c] # "blocked"
    <3>1. CASE \E c \in Consumers : cpc[c] # "blocked"
      BY <2>1, <3>1 DEF HandOff, Goes, Types, TypeOK
    <3>2. CASE \A c \in Consumers : cpc[c] = "blocked"
      <4>1. line # <<>>
        BY <3>2, EmptyTypes DEF TidyLine
      <4>2. Head(line) \in Consumers
        BY <4>1, TailEntries DEF Types, TypeOK
      <4> QED BY <2>1, <3>2, <4>1, <4>2 DEF HandOff, Goes, Types, TypeOK
    <3> QED BY <3>1, <3>2
  <2> QED BY <2>2 DEF GiveIsComing
<1>6. ASSUME NEW c \in Consumers, Take(c)
      PROVE  GiveIsComing'
  <2>1. queue = <<>> /\ queue' = queue
    BY <1>6 DEF Take, TakesWhenEmpty
  <2> QED BY <2>1 DEF GiveIsComing
<1>7. ASSUME NEW c \in Consumers,
             Pend(c) \/ Drain(c) \/ Retry(c) \/ Wake(c) \/ Expire(c) \/ TimeOut(c)
      PROVE  GiveIsComing'
  <2>1. cpc'[c] # "blocked"
    BY <1>7 DEF Pend, Drain, Retry, Wake, Expire, TimeOut, Pop, Goes, Types, TypeOK
  <2> QED BY <2>1 DEF GiveIsComing
<1> QED BY <1>1, <1>2, <1>3, <1>4, <1>5, <1>6, <1>7 DEF Next, PostStep, PendStep

\* On the simulation targets consumers never all sleep while an event is queued,
\* however many there are and whatever wake-ups are stolen or swallowed.
THEOREM SomebodyIsAwake ==
  Target = "sim" /\ Consumers # {} => (Spec => []NotAllAsleep)
<1> SUFFICES ASSUME Target = "sim", Consumers # {}
             PROVE  Spec => []NotAllAsleep
  OBVIOUS
<1>1. Init => WakeInv
  <2> SUFFICES ASSUME Init
               PROVE  WakeInv
    OBVIOUS
  <2>1. OneMidCall
    BY DEF Init, OneMidCall, MidCall
  <2>2. TidyLine
    BY EmptyTypes DEF Init, TidyLine
  <2>3. TakesWhenEmpty /\ GiveIsComing
    BY DEF Init, TakesWhenEmpty, GiveIsComing
  <2> QED BY <2>1, <2>2, <2>3, TypesInit DEF WakeInv
<1>2. WakeInv /\ [Next]_vars => WakeInv'
  BY TypesNext, AloneNext, TidyNext, TakesNext, GiveNext DEF WakeInv
<1>3. WakeInv => NotAllAsleep
  BY DEF WakeInv, GiveIsComing, NotAllAsleep, Quiet, MidCall
<1> QED BY <1>1, <1>2, <1>3, PTL DEF Spec

-----------------------------------------------------------------------------
(* The event queue: order.                                                 *)

Places == 1 .. Len(queue)

\* What is queued of a device is newer than what was delivered and not newer than
\* what was accepted.
Window ==
  /\ \A p \in Producers : got[p] <= posted[p]
  /\ \A i \in Places : /\ got[queue[i].dev] < queue[i].no
                       /\ queue[i].no <= posted[queue[i].dev]

\* The events of a device stand in the order they were accepted.
InOrder ==
  \A i, j \in Places : queue[i].dev = queue[j].dev /\ i < j => queue[i].no < queue[j].no

\* Nothing of a device that does not coalesce is missing.
AllThere ==
  \A p \in Producers \ Coalescing : \A n \in got[p] + 1 .. posted[p] :
    \E i \in Places : queue[i].dev = p /\ queue[i].no = n

\* A coalescing device has one event queued, and none while it pushes one.
OneOfEach ==
  \A p \in Coalescing :
    /\ \A i, j \in Places : queue[i].dev = p /\ queue[j].dev = p => i = j
    /\ ppc[p] = "push" => \A i \in Places : queue[i].dev # p

OrderInv == Types /\ Window /\ InOrder /\ AllThere /\ OneOfEach

\* what the places of the queue hold
LEMMA PlaceTypes ==
  ASSUME Types
  PROVE  /\ Len(queue) \in Nat /\ DOMAIN queue = Places
         /\ \A i \in Places : /\ queue[i] \in Event
                              /\ queue[i].dev \in Producers /\ queue[i].no \in Nat
         /\ \A p \in Producers : posted[p] \in Nat /\ got[p] \in Nat
<1>1. queue \in Seq(Event)
  BY DEF Types, TypeOK
<1>2. Len(queue) \in Nat /\ DOMAIN queue = Places /\ \A i \in Places : queue[i] \in Event
  BY <1>1, LenProperties, ElementOfSeq DEF Places
<1>3. \A i \in Places : queue[i].dev \in Producers /\ queue[i].no \in Nat
  BY <1>2 DEF Event
<1>4. \A p \in Producers : posted[p] \in Nat /\ got[p] \in Nat
  BY DEF Types, TypeOK
<1> QED BY <1>2, <1>3, <1>4

\* a step that leaves the queue and its history alone keeps the order
LEMMA OrderStays ==
  ASSUME OrderInv, queue' = queue, posted' = posted, got' = got,
         \A p \in Producers : ppc'[p] = "push" => ppc[p] = "push"
  PROVE  Window' /\ InOrder' /\ AllThere' /\ OneOfEach'
<1>1. Window' /\ InOrder' /\ AllThere'
  BY DEF OrderInv, Window, InOrder, AllThere, Places
<1>2. OneOfEach'
  BY DEF OrderInv, OneOfEach, Places
<1> QED BY <1>1, <1>2

\* so does one that empties the queue and forgets what it held
LEMMA OrderDropped ==
  ASSUME OrderInv, queue' = <<>>, posted' = posted, got' = posted
  PROVE  Window' /\ InOrder' /\ AllThere' /\ OneOfEach'
<1>1. Places' = {}
  BY EmptyTypes DEF Places
<1>2. \A p \in Producers : got'[p] + 1 .. posted'[p] = {} /\ got'[p] <= posted'[p]
  BY PlaceTypes DEF OrderInv
<1> QED BY <1>1, <1>2 DEF Window, InOrder, AllThere, OneOfEach

\* a coalesced event replaces the only one its device has queued
LEMMA OrderCoalesced ==
  ASSUME OrderInv, NEW p \in Producers, Coalesce(p)
  PROVE  Window' /\ InOrder' /\ AllThere' /\ OneOfEach'
<1>1. PICK i \in Places : /\ queue[i].dev = p
                          /\ queue' = [queue EXCEPT ![i].no = posted[p] + 1]
  BY DEF Coalesce, Queued, Places
<1>2. /\ p \in Coalescing /\ got' = got /\ ppc' = ppc
      /\ posted' = [posted EXCEPT ![p] = @ + 1]
  BY DEF Coalesce
<1>3. /\ posted'[p] = posted[p] + 1 /\ posted[p] \in Nat
      /\ \A q \in Producers : q # p => posted'[q] = posted[q]
  BY <1>2, PlaceTypes DEF OrderInv, Types, TypeOK
<1>4. /\ queue'[i] = [queue[i] EXCEPT !.no = posted[p] + 1]
      /\ \A j \in Places : j # i => queue'[j] = queue[j]
      /\ DOMAIN queue' = Places
  BY <1>1, PlaceTypes DEF OrderInv
<1>5. queue'[i].dev = p /\ queue'[i].no = posted[p] + 1
  <2>1. queue[i] \in [dev : Producers, no : 1 .. MaxPosts]
    BY PlaceTypes DEF OrderInv, Event
  <2> QED BY <1>1, <1>4, <2>1
<1>6. Places' = Places
  <2>1. posted[p] + 1 \in 1 .. MaxPosts
    BY DEF Coalesce, OrderInv, Types, TypeOK
  <2>2. queue'[i] \in Event
    BY <1>1, <1>4, <2>1, PlaceTypes DEF OrderInv, Event
  <2>3. queue' \in [1 .. Len(queue) -> Event]
    <3>1. queue' = [j \in Places |-> queue'[j]]
      BY <1>1, PlaceTypes DEF OrderInv
    <3>2. \A j \in Places : queue'[j] \in Event
      BY <1>4, <2>2, PlaceTypes DEF OrderInv
    <3> QED BY <3>1, <3>2 DEF Places
  <2>4. Len(queue') = Len(queue)
    BY <2>3, SeqDef, LenProperties, PlaceTypes DEF OrderInv
  <2> QED BY <2>4 DEF Places
<1>7. \A j \in Places : queue[j].dev = p => j = i
  BY <1>1, <1>2 DEF OrderInv, OneOfEach
<1>8. \A j \in Places : queue'[j].dev = queue[j].dev
  BY <1>1, <1>4, <1>5
<1>9. \A j \in Places : j # i => queue'[j] = queue[j] /\ queue[j].dev # p
  BY <1>4, <1>7
<1>10. Window'
  <2>4. \A q \in Producers : got'[q] <= posted'[q]
    BY <1>2, <1>3, PlaceTypes DEF OrderInv, Window
  <2> SUFFICES ASSUME NEW j \in Places
               PROVE  /\ got[queue'[j].dev] < queue'[j].no
                      /\ queue'[j].no <= posted'[queue'[j].dev]
    BY <1>2, <1>6, <2>4 DEF Window
  <2>1. /\ got[queue[j].dev] < queue[j].no /\ queue[j].no <= posted[queue[j].dev]
        /\ queue[j].no \in Nat /\ queue[j].dev \in Producers
        /\ got[p] \in Nat /\ got[queue[j].dev] \in Nat
    BY PlaceTypes DEF OrderInv, Window
  <2>2. CASE j = i
    BY <1>1, <1>3, <1>5, <2>1, <2>2
  <2>3. CASE j # i
    BY <1>3, <1>9, <2>1, <2>3
  <2> QED BY <2>2, <2>3
<1>11. InOrder'
  <2> SUFFICES ASSUME NEW j \in Places, NEW k \in Places,
                      queue'[j].dev = queue'[k].dev, j < k
               PROVE  queue'[j].no < queue'[k].no
    BY <1>6 DEF InOrder
  <2>1. queue[j].dev = queue[k].dev /\ queue[j].no < queue[k].no
    BY <1>8 DEF OrderInv, InOrder
  <2>2. j # k
    BY PlaceTypes DEF OrderInv, Places
  <2>3. j # i /\ k # i
    BY <1>1, <1>7, <2>1, <2>2
  <2> QED BY <1>9, <2>1, <2>3
<1>12. AllThere'
  <2> SUFFICES ASSUME NEW q \in Producers \ Coalescing, NEW n \in got[q] + 1 .. posted[q]
               PROVE  \E j \in Places : queue'[j].dev = q /\ queue'[j].no = n
    BY <1>2, <1>3, <1>6 DEF AllThere
  <2>1. PICK j \in Places : queue[j].dev = q /\ queue[j].no = n
    BY DEF OrderInv, AllThere
  <2>2. j # i
    BY <1>1, <1>2, <2>1
  <2> QED BY <1>9, <2>1, <2>2
<1>13. OneOfEach'
  BY <1>2, <1>6, <1>8 DEF OrderInv, OneOfEach
<1> QED BY <1>10, <1>11, <1>12, <1>13

\* a pushed event is the newest of its device and stands last
LEMMA OrderPushed ==
  ASSUME OrderInv, NEW p \in Producers, PostPush(p), Len(queue) < Ring
  PROVE  Window' /\ InOrder' /\ AllThere' /\ OneOfEach'
<1> DEFINE e == [dev |-> p, no |-> posted[p] + 1]
<1>1. /\ queue' = Append(queue, e) /\ posted' = [posted EXCEPT ![p] = @ + 1]
      /\ ppc[p] = "push" /\ ppc' = [ppc EXCEPT ![p] = "give"] /\ got' = got
  BY DEF PostPush
<1>2. e.dev = p /\ e.no = posted[p] + 1
  OBVIOUS
<1>3. /\ posted'[p] = posted[p] + 1 /\ posted[p] \in Nat
      /\ \A q \in Producers : q # p => posted'[q] = posted[q]
      /\ \A q \in Producers : ppc'[q] = "push" => q # p /\ ppc[q] = "push"
  BY <1>1, PlaceTypes DEF OrderInv, Types, TypeOK
<1> DEFINE last == Len(queue) + 1
<1>4. /\ Len(queue) \in Nat /\ Places' = Places \cup {last} /\ last \notin Places
      /\ \A j \in Places : queue'[j] = queue[j] /\ j < last /\ j \in Nat
      /\ last \in Nat /\ queue'[last] = e
  <2>1. e \in Event
    <3>1. posted[p] + 1 \in 1 .. MaxPosts
      BY <1>1 DEF OrderInv, Types, TypeOK, PushIsBounded
    <3> QED BY <3>1 DEF Event
  <2>2. queue \in Seq(Event)
    BY DEF OrderInv, Types, TypeOK
  <2> HIDE DEF e
  <2>3. /\ Len(queue') = Len(queue) + 1 /\ Len(queue) \in Nat
        /\ \A j \in 1 .. Len(queue) : queue'[j] = queue[j]
        /\ queue'[Len(queue) + 1] = e
    BY <1>1, <2>1, <2>2, AppendEntries
  <2> QED BY <2>3 DEF Places
<1> HIDE DEF e, last
<1>5. /\ queue'[last].dev = p /\ queue'[last].no = posted[p] + 1
  BY <1>2, <1>4
<1>6. \A j \in Places : /\ queue[j].dev \in Producers /\ queue[j].no \in Nat
                        /\ got[queue[j].dev] \in Nat /\ posted[queue[j].dev] \in Nat
                        /\ got[queue[j].dev] < queue[j].no
                        /\ queue[j].no <= posted[queue[j].dev]
  BY PlaceTypes DEF OrderInv, Window
<1>7. Window'
  <2>1. \A q \in Producers : got'[q] <= posted'[q]
    BY <1>1, <1>3, PlaceTypes DEF OrderInv, Window
  <2>2. ASSUME NEW j \in Places'
        PROVE  got'[queue'[j].dev] < queue'[j].no /\ queue'[j].no <= posted'[queue'[j].dev]
    <3>1. CASE j = last
      <4>1. got[p] \in Nat /\ got[p] <= posted[p]
        BY PlaceTypes DEF OrderInv, Window
      <4>2. queue'[j].dev = p /\ queue'[j].no = posted[p] + 1
        BY <1>5, <3>1
      <4>3. got'[p] = got[p] /\ posted'[p] = posted[p] + 1 /\ posted[p] \in Nat
        BY <1>1, <1>3
      <4> QED BY <4>1, <4>2, <4>3
    <3>2. CASE j \in Places
      <4>1. queue'[j] = queue[j] /\ got' = got
        BY <1>1, <1>4, <3>2
      <4>2. posted'[queue[j].dev] >= posted[queue[j].dev]
            /\ posted'[queue[j].dev] \in Nat
        BY <1>3, <1>6, <3>2
      <4> QED BY <1>6, <3>2, <4>1, <4>2
    <3> QED BY <1>4, <3>1, <3>2
  <2> QED BY <2>1, <2>2 DEF Window
<1>8. InOrder'
  <2> SUFFICES ASSUME NEW j \in Places', NEW k \in Places',
                      queue'[j].dev = queue'[k].dev, j < k
               PROVE  queue'[j].no < queue'[k].no
    BY DEF InOrder
  <2>1. j \in Places
    BY <1>4
  <2>2. CASE k = last
    <3>1. queue'[j] = queue[j] /\ queue[j].dev = p
      BY <1>4, <1>5, <2>1, <2>2
    <3>2. queue[j].no \in Nat /\ queue[j].no <= posted[p]
      BY <1>6, <2>1, <3>1
    <3> QED BY <1>3, <1>5, <2>2, <3>1, <3>2
  <2>3. CASE k \in Places
    BY <1>4, <2>1, <2>3 DEF OrderInv, InOrder
  <2> QED BY <1>4, <2>2, <2>3
<1>9. AllThere'
  <2> SUFFICES ASSUME NEW q \in Producers \ Coalescing, NEW n \in got'[q] + 1 .. posted'[q]
               PROVE  \E j \in Places' : queue'[j].dev = q /\ queue'[j].no = n
    BY DEF AllThere
  <2>1. CASE q = p /\ n = posted[p] + 1
    BY <1>4, <1>5, <2>1
  <2>2. CASE ~(q = p /\ n = posted[p] + 1)
    <3>1. n \in got[q] + 1 .. posted[q]
      BY <1>1, <1>3, <2>2, PlaceTypes DEF OrderInv
    <3>2. PICK j \in Places : queue[j].dev = q /\ queue[j].no = n
      BY <3>1 DEF OrderInv, AllThere
    <3> QED BY <1>4, <3>2
  <2> QED BY <2>1, <2>2
<1>10. OneOfEach'
  <2> SUFFICES ASSUME NEW q \in Coalescing
               PROVE  /\ \A i, j \in Places' :
                           queue'[i].dev = q /\ queue'[j].dev = q => i = j
                      /\ ppc'[q] = "push" => \A i \in Places' : queue'[i].dev # q
    BY DEF OneOfEach
  <2>1. /\ \A i, j \in Places : queue[i].dev = q /\ queue[j].dev = q => i = j
        /\ ppc[q] = "push" => \A i \in Places : queue[i].dev # q
        /\ q \in Producers
    BY DEF OrderInv, OneOfEach
  <2>2. CASE q = p
    BY <1>1, <1>3, <1>4, <2>1, <2>2
  <2>3. CASE q # p
    BY <1>3, <1>4, <1>5, <2>1, <2>3
  <2> QED BY <2>2, <2>3
<1> QED BY <1>7, <1>8, <1>9, <1>10

\* a pop takes the oldest event of its device
LEMMA OrderPopped ==
  ASSUME OrderInv, Target = "sim", NEW c \in Consumers, NEW w \in {"idle", "take"}, Pop(c, w)
  PROVE  /\ Window' /\ InOrder' /\ AllThere' /\ OneOfEach'
         /\ \A p \in Producers : got'[p] # got[p] =>
              \/ got'[p] = got[p] + 1
              \/ p \in Coalescing /\ got'[p] > got[p]
<1>1. CASE queue = <<>>
  <2>1. queue' = queue /\ posted' = posted /\ got' = got /\ ppc' = ppc
    BY <1>1 DEF Pop
  <2> QED BY <2>1, OrderStays
<1>2. CASE queue # <<>>
  <2> DEFINE h == queue[1].dev
             m == queue[1].no
  <2>1. queue \in Seq(Event)
    BY DEF OrderInv, Types, TypeOK
  <2>2. /\ Len(queue) \in Nat \ {0} /\ Head(queue) = queue[1]
        /\ Len(Tail(queue)) = Len(queue) - 1
        /\ \A j \in 1 .. Len(queue) - 1 : Tail(queue)[j] = queue[j + 1]
    BY <1>2, <2>1, TailEntries
  <2>3. /\ queue' = Tail(queue) /\ got' = [got EXCEPT ![h] = m]
        /\ posted' = posted /\ ppc' = ppc
    BY <1>2, <2>2 DEF Pop
  <2>4. /\ Places' = 1 .. Len(queue) - 1 /\ 1 \in Places
        /\ \A j \in Places' : j + 1 \in Places /\ queue'[j] = queue[j + 1]
        /\ \A j \in Places : j # 1 => j - 1 \in Places' /\ queue'[j - 1] = queue[j]
    <3>1. Places' = 1 .. Len(queue) - 1 /\ Places = 1 .. Len(queue)
      BY <2>2, <2>3 DEF Places
    <3>2. \A j \in 1 .. Len(queue) - 1 : queue'[j] = queue[j + 1]
      BY <2>2, <2>3
    <3> QED BY <2>2, <3>1, <3>2
  <2>5. \A j \in Places : /\ queue[j].dev \in Producers /\ queue[j].no \in Nat
                          /\ got[queue[j].dev] < queue[j].no
                          /\ queue[j].no <= posted[queue[j].dev]
    BY PlaceTypes DEF OrderInv, Window
  <2>6. /\ got'[h] = m /\ h \in Producers /\ m \in Nat /\ got[h] < m /\ m <= posted[h]
        /\ \A p \in Producers : p # h => got'[p] = got[p]
    BY <2>3, <2>4, <2>5 DEF OrderInv, Types, TypeOK
  <2>7. \A j \in Places : j # 1 /\ queue[j].dev = h => m < queue[j].no
    BY <2>4 DEF OrderInv, InOrder, Places
  <2> HIDE DEF h, m
  <2>8. Window'
    <3>1. \A p \in Producers : got'[p] <= posted'[p]
      BY <2>3, <2>6 DEF OrderInv, Window
    <3>2. ASSUME NEW j \in Places'
          PROVE  got'[queue'[j].dev] < queue'[j].no /\ queue'[j].no <= posted'[queue'[j].dev]
      <4>1. j + 1 # 1 /\ j + 1 \in Places /\ queue'[j] = queue[j + 1]
        BY <2>2, <2>4
      <4>2. CASE queue[j + 1].dev = h
        BY <2>3, <2>5, <2>6, <2>7, <4>1, <4>2
      <4>3. CASE queue[j + 1].dev # h
        BY <2>3, <2>5, <2>6, <4>1, <4>3
      <4> QED BY <4>2, <4>3
    <3> QED BY <3>1, <3>2 DEF Window
  <2>9. InOrder'
    <3> SUFFICES ASSUME NEW j \in Places', NEW k \in Places',
                        queue'[j].dev = queue'[k].dev, j < k
                 PROVE  queue'[j].no < queue'[k].no
      BY DEF InOrder
    <3>1. j + 1 \in Places /\ k + 1 \in Places /\ j + 1 < k + 1
      BY <2>2, <2>4
    <3> QED BY <2>4, <3>1 DEF OrderInv, InOrder
  <2>10. AllThere'
    <3> SUFFICES ASSUME NEW p \in Producers \ Coalescing, NEW n \in got'[p] + 1 .. posted'[p]
                 PROVE  \E j \in Places' : queue'[j].dev = p /\ queue'[j].no = n
      BY DEF AllThere
    <3>1. n \in got[p] + 1 .. posted[p] /\ (p = h => n # m)
      BY <2>3, <2>6, PlaceTypes DEF OrderInv
    <3>2. PICK j \in Places : queue[j].dev = p /\ queue[j].no = n
      BY <3>1 DEF OrderInv, AllThere
    <3>3. j # 1
      BY <3>1, <3>2 DEF h, m
    <3> QED BY <2>4, <3>2, <3>3
  <2>11. OneOfEach'
    <3>1. ASSUME NEW p \in Coalescing, NEW i \in Places', NEW j \in Places',
                 queue'[i].dev = p, queue'[j].dev = p
          PROVE  i = j
      <4>1. i + 1 \in Places /\ j + 1 \in Places /\ queue[i + 1].dev = p /\ queue[j + 1].dev = p
        BY <2>4, <3>1
      <4>2. i + 1 = j + 1
        BY <4>1 DEF OrderInv, OneOfEach
      <4> QED BY <2>2, <2>4, <4>2
    <3>2. ASSUME NEW p \in Coalescing, ppc'[p] = "push", NEW i \in Places'
          PROVE  queue'[i].dev # p
      BY <2>3, <2>4, <3>2 DEF OrderInv, OneOfEach
    <3> QED BY <3>1, <3>2 DEF OneOfEach
  <2>12. ASSUME NEW p \in Producers, got'[p] # got[p]
         PROVE  \/ got'[p] = got[p] + 1
                \/ p \in Coalescing /\ got'[p] > got[p]
    <3>1. p = h /\ got'[p] = m /\ got[p] < m /\ got[p] \in Nat
      BY <2>6, <2>12, PlaceTypes DEF OrderInv
    <3>2. CASE p \in Coalescing
      BY <2>6, <3>1, <3>2
    <3>3. CASE p \notin Coalescing
      <4>1. PICK j \in Places : queue[j].dev = p /\ queue[j].no = got[p] + 1
        <5>1. got[p] + 1 \in got[p] + 1 .. posted[p]
          BY <2>6, <3>1, PlaceTypes DEF OrderInv
        <5> QED BY <3>3, <5>1 DEF OrderInv, AllThere
      <4>2. j = 1
        BY <2>6, <2>7, <3>1, <4>1
      <4> QED BY <3>1, <4>1, <4>2 DEF m
    <3> QED BY <3>2, <3>3
  <2> QED BY <2>8, <2>9, <2>10, <2>11, <2>12
<1> QED BY <1>1, <1>2

\* every step keeps the order and delivers the next event of a device
LEMMA OrderNext ==
  ASSUME Target = "sim", OrderInv, [Next]_vars
  PROVE  /\ OrderInv'
         /\ \A p \in Producers : up' /\ got'[p] # got[p] =>
              \/ got'[p] = got[p] + 1
              \/ p \in Coalescing /\ got'[p] > got[p]
<1> DEFINE Kept == Window' /\ InOrder' /\ AllThere' /\ OneOfEach'
           Fair == \A p \in Producers : up' /\ got'[p] # got[p] =>
                     \/ got'[p] = got[p] + 1
                     \/ p \in Coalescing /\ got'[p] > got[p]
<1>1. ASSUME QueueInit \/ UNCHANGED vars
      PROVE  Kept /\ Fair
  BY <1>1, OrderStays DEF QueueInit, vars
<1>2. ASSUME QueueDeinit
      PROVE  Kept /\ Fair
  BY <1>2, OrderDropped DEF QueueDeinit
<1>3. ASSUME NEW p \in Producers, Coalesce(p)
      PROVE  Kept /\ Fair
  BY <1>3, OrderCoalesced DEF Coalesce
<1>4. ASSUME NEW p \in Producers, PostCheck(p)
      PROVE  Kept /\ Fair
  <2>1. queue' = queue /\ posted' = posted /\ got' = got
        /\ ppc' = [ppc EXCEPT ![p] = "push"]
        /\ (p \in Coalescing => \A i \in Places : queue[i].dev # p)
    BY <1>4 DEF PostCheck, Queued, Places
  <2>2. Window' /\ InOrder' /\ AllThere'
    BY <2>1 DEF OrderInv, Window, InOrder, AllThere, Places
  <2>3. OneOfEach'
    <3>1. \A q \in Producers : q # p => ppc'[q] = ppc[q]
      BY <2>1 DEF OrderInv, Types, TypeOK
    <3> QED BY <2>1, <3>1 DEF OrderInv, OneOfEach, Places
  <2> QED BY <2>1, <2>2, <2>3
<1>5. ASSUME NEW p \in Producers, PostPush(p)
      PROVE  Kept /\ Fair
  <2>1. CASE Len(queue) < Ring
    BY <1>5, <2>1, OrderPushed DEF PostPush
  <2>2. CASE ~(Len(queue) < Ring)
    <3>1. /\ queue' = queue /\ posted' = posted /\ got' = got
          /\ \A q \in Producers : ppc'[q] = "push" => ppc[q] = "push"
      BY <1>5, <2>2 DEF PostPush, OrderInv, Types, TypeOK
    <3> QED BY <3>1, OrderStays
  <2> QED BY <2>1, <2>2
<1>6. ASSUME NEW p \in Producers, PostGive(p)
      PROVE  Kept /\ Fair
  <2>1. /\ queue' = queue /\ posted' = posted /\ got' = got
        /\ \A q \in Producers : ppc'[q] = "push" => ppc[q] = "push"
    BY <1>6 DEF PostGive, OrderInv, Types, TypeOK
  <2> QED BY <2>1, OrderStays
<1>7. ASSUME NEW c \in Consumers, Pend(c) \/ Drain(c) \/ Retry(c)
      PROVE  Kept /\ Fair
  <2>1. PICK w \in {"idle", "take"} : Pop(c, w)
    BY <1>7 DEF Pend, Drain, Retry
  <2> QED BY <2>1, OrderPopped
<1>8. ASSUME NEW c \in Consumers, Take(c) \/ Wake(c) \/ Expire(c) \/ TimeOut(c)
      PROVE  Kept /\ Fair
  <2>1. queue' = queue /\ posted' = posted /\ got' = got /\ ppc' = ppc
    BY <1>8 DEF Take, Wake, Expire, TimeOut
  <2> QED BY <2>1, OrderStays
<1>9. Kept /\ Fair
  BY <1>1, <1>2, <1>3, <1>4, <1>5, <1>6, <1>7, <1>8 DEF Next, PostStep, PendStep
<1> QED BY <1>9, TypesNext DEF OrderInv

\* Each device's events are delivered in the order they were accepted, each one once
\* and none skipped but what a newer event of a coalescing device replaced.
THEOREM EventsArriveInFull == Target = "sim" => (Spec => DeliveredInFull)
<1> SUFFICES ASSUME Target = "sim"
             PROVE  Spec => DeliveredInFull
  OBVIOUS
<1>1. Init => OrderInv
  <2> SUFFICES ASSUME Init
               PROVE  OrderInv
    OBVIOUS
  <2>1. Places = {}
    BY EmptyTypes DEF Init, Places
  <2>2. \A p \in Producers : got[p] = 0 /\ posted[p] = 0 /\ ppc[p] = "idle"
    BY DEF Init
  <2> QED BY <2>1, <2>2, TypesInit DEF OrderInv, Window, InOrder, AllThere, OneOfEach
<1>2. OrderInv /\ [Next]_vars =>
        /\ OrderInv'
        /\ [\A p \in Producers : up' /\ got'[p] # got[p] =>
              \/ got'[p] = got[p] + 1
              \/ p \in Coalescing /\ got'[p] > got[p]]_vars
  BY OrderNext
<1> QED BY <1>1, <1>2, PTL DEF Spec, DeliveredInFull

-----------------------------------------------------------------------------
(* The event queue: a bounded FIFO.                                        *)

\* What the check has seen still holds at the push: nobody else has had a turn.
CheckHolds ==
  \A p \in Producers : ppc[p] = "push" =>
    /\ Len(queue) < Capacity
    /\ p \in Coalescing => Queued(p) = {}

\* Whoever is in a call has a queue.
CallsHaveQueue ==
  /\ \A p \in Producers : ppc[p] # "idle" => up
  /\ \A c \in Consumers : cpc[c] # "idle" => up

FifoInv == Types /\ CheckHolds /\ CallsHaveQueue

\* Only the producer that has checked can move before the push.
LEMMA CheckHoldsNext ==
  ASSUME Target = "sim", Types, CheckHolds, Next
  PROVE  CheckHolds'
<1> SUFFICES ASSUME NEW p \in Producers, ppc'[p] = "push"
             PROVE  /\ Len(queue') < Capacity
                    /\ p \in Coalescing => Queued(p)' = {}
  BY DEF CheckHolds
<1>1. ppc \in [Producers -> {"idle", "push", "give"}]
  BY DEF Types, TypeOK
<1>2. CASE ppc[p] = "push"
  <2>1. MidCall(p) /\ p \in Actors
    BY <1>2 DEF MidCall, Actors
  <2>2. ~Quiet /\ \A a \in Actors : Turn(a) => a = p
    BY <2>1, TurnIsAlone DEF Quiet, Actors
  <2>3. queue' = queue
    <3>1. CASE QueueInit \/ QueueDeinit
      BY <2>2, <3>1 DEF QueueInit, QueueDeinit
    <3>2. ASSUME NEW q \in Producers, Coalesce(q) \/ PostCheck(q)
          PROVE  FALSE
      BY <1>2, <2>2, <3>2 DEF Coalesce, PostCheck, Actors
    <3>3. ASSUME NEW q \in Producers, PostPush(q)
          PROVE  FALSE
      <4>1. q = p
        BY <2>2, <3>3 DEF PostPush, Actors
      <4>2. ppc'[p] # "push"
        BY <1>1, <3>3, <4>1 DEF PostPush
      <4> QED BY <4>2
    <3>4. ASSUME NEW q \in Producers, PostGive(q)
          PROVE  queue' = queue
      BY <3>4 DEF PostGive
    <3>5. ASSUME NEW c \in Consumers, PendStep(c)
          PROVE  queue' = queue
      <4>1. ~Turn(c)
        BY <2>2, QueueAssumption DEF Actors
      <4> QED BY <3>5, <4>1 DEF PendStep, Pend, Drain, Take, Wake, Expire, TimeOut, Retry
    <3> QED BY <3>1, <3>2, <3>3, <3>4, <3>5 DEF Next, PostStep
  <2> QED BY <1>2, <2>3 DEF CheckHolds, Queued
<1>3. CASE ppc[p] # "push"
  <2>1. ASSUME NEW q \in Producers, PostCheck(q) PROVE q = p
    BY <1>1, <1>3, <2>1 DEF PostCheck
  <2>2. ASSUME NEW q \in Producers, PostPush(q) \/ PostGive(q) PROVE FALSE
    BY <1>1, <1>3, <2>2 DEF PostPush, PostGive
  <2>3. ASSUME NEW c \in Consumers, PendStep(c) PROVE ppc' = ppc
    BY <2>3 DEF PendStep, Pend, Drain, Take, Wake, Expire, TimeOut, Retry, Pop
  <2>4. PostCheck(p)
    BY <1>3, <2>1, <2>2, <2>3 DEF Next, PostStep, QueueInit, QueueDeinit, Coalesce
  <2> QED BY <2>4 DEF PostCheck, Queued
<1> QED BY <1>2, <1>3

LEMMA CallsNext ==
  ASSUME Target = "sim", Types, CallsHaveQueue, Next
  PROVE  CallsHaveQueue'
<1> USE DEF Types, TypeOK
<1>1. CASE QueueInit
  BY <1>1 DEF QueueInit, CallsHaveQueue
<1>2. CASE QueueDeinit
  BY <1>2 DEF QueueDeinit, Quiet, MidCall, CallsHaveQueue
<1>3. ASSUME NEW p \in Producers, Coalesce(p) \/ PostCheck(p) \/ PostPush(p)
      PROVE  CallsHaveQueue'
  <2>1. up /\ up' = up /\ cpc' = cpc
    BY <1>3 DEF Coalesce, PostCheck, PostPush, CallsHaveQueue
  <2> QED BY <2>1 DEF CallsHaveQueue
<1>4. ASSUME NEW p \in Producers, PostGive(p)
      PROVE  CallsHaveQueue'
  <2>1. up /\ up' = up
    BY <1>4 DEF PostGive, CallsHaveQueue
  <2> QED BY <2>1 DEF CallsHaveQueue
<1>5. ASSUME NEW c \in Consumers, PendStep(c)
      PROVE  CallsHaveQueue'
  <2>1. up /\ up' = up
    BY <1>5 DEF PendStep, Pend, Drain, Take, Wake, Expire, TimeOut, Retry, Pop, CallsHaveQueue
  <2> QED BY <2>1 DEF CallsHaveQueue
<1> QED BY <1>1, <1>2, <1>3, <1>4, <1>5 DEF Next, PostStep

\* A pop hands out the head of the queue, or finds nothing.
LEMMA PopIsHandOut ==
  ASSUME Target = "sim", Types, up, NEW c \in Consumers, NEW w, Pop(c, w)
  PROVE  Fifo!HandOut \/ UNCHANGED Fifo!fifoVars
<1>1. CASE queue # <<>>
  BY <1>1 DEF Pop, Fifo!HandOut
<1>2. CASE queue = <<>>
  BY <1>2 DEF Pop, Fifo!fifoVars
<1> QED BY <1>1, <1>2

\* Every step of the event queue is one of the FIFO or leaves it alone.
LEMMA StepIsFifo ==
  ASSUME Target = "sim", FifoInv, Next
  PROVE  Fifo!FifoNext \/ UNCHANGED Fifo!fifoVars
<1> USE DEF FifoInv
<1>1. CASE QueueInit
  BY <1>1 DEF QueueInit, Fifo!Open, Fifo!FifoNext
<1>2. CASE QueueDeinit
  BY <1>2 DEF QueueDeinit, Fifo!Close, Fifo!FifoNext
<1>3. ASSUME NEW p \in Producers, Coalesce(p)
      PROVE  Fifo!FifoNext
  <2>1. Fifo!Renew(p)
    BY <1>3 DEF Coalesce, Queued, Fifo!Renew, Fifo!Of
  <2> QED BY <2>1 DEF Fifo!FifoNext
<1>4. ASSUME NEW p \in Producers, PostCheck(p) \/ PostGive(p)
      PROVE  UNCHANGED Fifo!fifoVars
  BY <1>4 DEF PostCheck, PostGive, Fifo!fifoVars
<1>5. ASSUME NEW p \in Producers, PostPush(p)
      PROVE  Fifo!FifoNext
  <2>1. /\ up /\ Len(queue) < Capacity
        /\ p \in Coalescing => Queued(p) = {}
    BY <1>5 DEF PostPush, CheckHolds, CallsHaveQueue
  <2>2. Len(queue) < Ring
    BY <2>1, QueueAssumption DEF Types, TypeOK
  <2>3. Fifo!Put(p)
    BY <1>5, <2>1, <2>2 DEF PostPush, Queued, Fifo!Put, Fifo!Of
  <2> QED BY <2>3 DEF Fifo!FifoNext
<1>6. ASSUME NEW c \in Consumers, PendStep(c)
      PROVE  Fifo!FifoNext \/ UNCHANGED Fifo!fifoVars
  <2>1. CASE Pend(c) \/ Drain(c) \/ Retry(c)
    <3>1. up
      BY <2>1 DEF Pend, Drain, Retry, CallsHaveQueue
    <3>2. PICK w \in {"idle", "take"} : Pop(c, w)
      BY <2>1 DEF Pend, Drain, Retry
    <3> QED BY <3>1, <3>2, PopIsHandOut DEF Fifo!FifoNext
  <2>2. CASE Take(c) \/ Wake(c) \/ Expire(c) \/ TimeOut(c)
    BY <2>2 DEF Take, Wake, Expire, TimeOut, Fifo!fifoVars
  <2> QED BY <1>6, <2>1, <2>2 DEF PendStep
<1> QED BY <1>1, <1>2, <1>3, <1>4, <1>5, <1>6 DEF Next, PostStep

\* On the simulation targets the event queue implements the bounded FIFO.
THEOREM QueueIsBoundedFifo == Target = "sim" => (Spec => IsBoundedFifo)
<1> SUFFICES ASSUME Target = "sim"
             PROVE  Spec => IsBoundedFifo
  OBVIOUS
<1>1. Init => FifoInv /\ Fifo!FifoInit
  <2>1. Init => CheckHolds /\ CallsHaveQueue /\ Fifo!FifoInit
    BY DEF Init, CheckHolds, CallsHaveQueue, Fifo!FifoInit
  <2> QED BY <2>1, TypesInit DEF FifoInv
<1>2. FifoInv /\ [Next]_vars => FifoInv' /\ [Fifo!FifoNext]_(Fifo!fifoVars)
  <2> SUFFICES ASSUME FifoInv, [Next]_vars
               PROVE  FifoInv' /\ [Fifo!FifoNext]_(Fifo!fifoVars)
    OBVIOUS
  <2>1. Types'
    BY TypesNext DEF FifoInv
  <2>2. CASE Next
    BY <2>1, <2>2, CheckHoldsNext, CallsNext, StepIsFifo DEF FifoInv
  <2>3. CASE UNCHANGED vars
    BY <2>1, <2>3 DEF vars, FifoInv, CheckHolds, CallsHaveQueue, Queued, Fifo!fifoVars
  <2> QED BY <2>2, <2>3
<1> QED BY <1>1, <1>2, PTL DEF Spec, IsBoundedFifo, Fifo!FifoSpec
=============================================================================
