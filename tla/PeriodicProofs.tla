---------------------------- MODULE PeriodicProofs ----------------------------
(***************************************************************************)
(* Theorems about Periodic for any entries, tasks, periods, durations of   *)
(* callbacks and length of the stop handshake.  Until a stop gives up on   *)
(* its task, an entry has one task, and from the place of that task, the   *)
(* tokens and the times left follow the handshake and the schedule.        *)
(***************************************************************************)
EXTENDS Periodic, TLAPS

USE PeriodicAssumption

-----------------------------------------------------------------------------
(* The inductive invariant.                                                *)

\* what a callback still has to run is no more than what it took on
CallbackTime == \A t \in Tasks : pc[t] = "callback" => due[t] <= ran[t]

Types == TypeOK /\ CallbackTime

\* No task is left with its timeout on semaphores that are gone.
Attached == \A t \in Tasks : pc[t] # "sleeping"

\* done_sem is given by a task that has ended.
DoneMeansGone == \A t \in Live : ~done[entry[t]]

\* The task of an entry that the application stops is on its way to the top of its
\* loop, and gets there in time unless its callback is too long.
Answers(t) ==
  \/ ran[t] >= StopWait \/ pc[t] = "stopping"
  \/ pc[t] = "top" /\ appDue > 0
  \/ pc[t] = "callback" /\ due[t] < appDue /\ wake[app]

StopIsAnswered == \A t \in Live : entry[t] = app => stopReq[app] /\ Answers(t)

\* The distance between two callbacks, now and when the wait will be over.
Spaced(t, distance) ==
  /\ distance >= period[entry[t]] - 1
  /\ ran[t] < period[entry[t]] => distance <= period[entry[t]]

\* next_wake is at most one unit behind the begin of a callback.
OnSchedule(t) ==
  /\ wake[entry[t]] => stopReq[entry[t]]
  /\ pc[t] = "callback" =>
       since[t] + due[t] = ran[t] /\ anchor[t] + since[t] \in {-1, 0}
  /\ pc[t] = "waiting" =>
       /\ Spaced(t, since[t] + due[t]) /\ since[t] + due[t] < Long
       /\ anchor[t] - due[t] \in {-1, 0}
  /\ pc[t] = "top" => \/ stopReq[entry[t]]
                      \/ /\ anchor[t] \in {-1, 0}
                         /\ since[t] = Long \/ Spaced(t, since[t])

Scheduled == \A t \in Live : changed[entry[t]] \/ OnSchedule(t)

Orderly ==
  StopDeletesTask /\ Attached /\ DoneMeansGone /\ StopIsAnswered /\ Scheduled

Inv == Types /\ (gaveUp \/ Orderly)

\* The history of callbacks knows of every one that is too long for a stop, and
\* a stop gives up on no other.
LongIsSeen ==
  /\ \A t \in Tasks : pc[t] = "stopping" \/ ran[t] >= StopWait => overlong
  /\ gaveUp => overlong

-----------------------------------------------------------------------------
(* Types.                                                                  *)

\* periods and durations are numbers
LEMMA TimesAreNumbers ==
  /\ \A k \in Periods : k \in Nat \ {0}
  /\ \A k \in Durations \cup {0} : k \in Nat
  /\ \A k \in Periods \cup {0} : k \in Nat
  /\ StopWait \in Nat /\ StopWait > 0 /\ 0 \in 0 .. StopWait /\ StopWait \in 0 .. StopWait
<1>1. \A k \in Periods : k \in Nat /\ k # 0
  OBVIOUS
<1>2. \A k \in Durations : k \in Nat
  OBVIOUS
<1> QED BY <1>1, <1>2

\* Long is longer than any period and callback
LEMMA LongIsLonger ==
  /\ Periods \cup Durations # {} /\ Longest \in Nat /\ Long = Longest + 2
  /\ \A k \in Periods \cup Durations : k <= Longest
<1>1. /\ Longest \in Periods \cup Durations
      /\ \A k \in Periods \cup Durations : k <= Longest
  BY TimesAreBounded DEF Longest
<1> QED BY <1>1 DEF Long

\* a wait is at least one unit, and next_wake is not behind after it was adjusted
LEMMA WaitType ==
  ASSUME NEW next \in Int
  PROVE  NextAnchor(next) \in Nat /\ WaitUntil(next) \in Nat \ {0}
BY DEF NextAnchor, WaitUntil

\* a token for wake_sem wakes a task that waits for it, or is kept
LEMMA WakeMoves ==
  ASSUME Types, NEW e \in Entries, NEW pcs, GiveWake(e, pcs)
  PROVE  /\ pcs \in [Tasks -> Points] /\ wake' \in [Entries -> BOOLEAN]
         /\ \A f \in Entries : f # e => wake'[f] = wake[f]
         /\ \A t \in Tasks : \/ pcs[t] = pc[t]
                             \/ pc[t] = "waiting" /\ entry[t] = e /\ pcs[t] = "top"
         /\ \/ wake'[e] /\ \A t \in Tasks : pcs[t] = pc[t]
                                            /\ (pc[t] = "waiting" => entry[t] # e)
            \/ wake' = wake /\ \E t \in Tasks : pc[t] = "waiting" /\ entry[t] = e
                                                /\ pcs[t] = "top"
<1> DEFINE sleepers == {t \in Tasks : pc[t] = "waiting" /\ entry[t] = e}
<1>1. CASE sleepers = {}
  <2>1. wake' = [wake EXCEPT ![e] = TRUE] /\ pcs = pc
    BY <1>1 DEF GiveWake
  <2> QED BY <1>1, <2>1 DEF Types, TypeOK
<1>2. CASE sleepers # {}
  <2>1. wake' = wake /\ \E t \in sleepers : pcs = [pc EXCEPT ![t] = "top"]
    BY <1>2 DEF GiveWake
  <2>2. PICK t \in sleepers : pcs = [pc EXCEPT ![t] = "top"]
    BY <2>1
  <2>3. /\ pcs \in [Tasks -> Points] /\ pcs[t] = "top"
        /\ \A u \in Tasks : u # t => pcs[u] = pc[u]
    BY <2>2 DEF Types, TypeOK, Points
  <2> QED BY <2>1, <2>2, <2>3 DEF Types, TypeOK
<1> QED BY <1>1, <1>2

\* a task goes to sleep until its next turn, or takes the token that waits for it
LEMMA RestType ==
  ASSUME Types, NEW t \in Tasks, NEW next \in Int, Rest(t, next)
  PROVE  /\ anchor' \in [Tasks -> Int] /\ due' \in [Tasks -> Nat]
         /\ pc' \in [Tasks -> Points] /\ wake' \in [Entries -> BOOLEAN]
         /\ pc'[t] \in {"top", "waiting", "sleeping"}
         /\ \A u \in Tasks : u # t => /\ pc'[u] = pc[u] /\ due'[u] = due[u]
                                      /\ anchor'[u] = anchor[u]
<1>1. NextAnchor(next) \in Int /\ WaitUntil(next) \in Nat
  BY WaitType
<1>2. /\ anchor' \in [Tasks -> Int]
      /\ \A u \in Tasks : u # t => anchor'[u] = anchor[u]
  BY <1>1 DEF Rest, Types, TypeOK
<1>3. CASE wake[entry[t]]
  <2>1. /\ wake' = [wake EXCEPT ![entry[t]] = FALSE] /\ due' = due
        /\ pc' = [pc EXCEPT ![t] = "top"]
    BY <1>3 DEF Rest
  <2> QED BY <1>2, <2>1 DEF Types, TypeOK, Points
<1>4. CASE ~wake[entry[t]]
  BY <1>1, <1>2, <1>4 DEF Rest, Types, TypeOK, Points
<1> QED BY <1>3, <1>4

\* next_wake after a callback is a number
LEMMA NextIsInt ==
  ASSUME Types, NEW t \in Tasks
  PROVE  /\ anchor[t] \in Int /\ period[entry[t]] \in Nat
         /\ anchor[t] + period[entry[t]] \in Int /\ entry[t] \in Entries
<1>1. entry[t] \in Entries /\ anchor[t] \in Int
  BY DEF Types, TypeOK
<1>2. period[entry[t]] \in Periods \cup {0}
  BY <1>1 DEF Types, TypeOK
<1>3. period[entry[t]] \in Nat
  BY <1>2, TimesAreNumbers
<1> QED BY <1>1, <1>3

\* what the entry table and the tasks look like after it is cleared
LEMMA ClearType ==
  ASSUME Types, NEW e \in Entries, Clear(e)
  PROVE  /\ kind' \in [Entries -> {"FREE", "TASK"}]
         /\ period' \in [Entries -> Periods \cup {0}]
         /\ stopReq' \in [Entries -> BOOLEAN] /\ wake' \in [Entries -> BOOLEAN]
         /\ done' \in [Entries -> BOOLEAN]
         /\ \A f \in Entries : f # e => /\ kind'[f] = kind[f] /\ period'[f] = period[f]
                                        /\ stopReq'[f] = stopReq[f]
                                        /\ wake'[f] = wake[f] /\ done'[f] = done[f]
         /\ Abandoned(e) \in [Tasks -> Points]
         /\ \A t \in Tasks : Abandoned(e)[t] = IF pc[t] = "waiting" /\ entry[t] = e
                                               THEN "sleeping" ELSE pc[t]
BY DEF Clear, Abandoned, Types, TypeOK, Points

\* calls by the application keep the types
LEMMA CallsType ==
  ASSUME Types, Calls
  PROVE  Types'
<1>1. CASE StopEnd
  <2>1. app \in Entries /\ Clear(app) /\ pc' = Abandoned(app)
    BY <1>1 DEF StopEnd, Types, TypeOK
  <2>2. gaveUp' \in BOOLEAN
    BY <1>1 DEF StopEnd, Types, TypeOK
  <2> QED BY <1>1, <2>1, <2>2, ClearType DEF StopEnd, Types, TypeOK, CallbackTime, bounds
<1>2. ASSUME NEW e \in Entries, StopBegin(e)
      PROVE  Types'
  <2>1. GiveWake(e, pc')
    BY <1>2 DEF StopBegin
  <2>2. /\ pc' \in [Tasks -> Points] /\ wake' \in [Entries -> BOOLEAN]
        /\ \A t \in Tasks : pc'[t] = "callback" => pc[t] = "callback"
    BY <2>1, WakeMoves
  <2>3. appDue' \in 0 .. StopWait /\ done' \in [Entries -> BOOLEAN]
    BY <1>2, TimesAreNumbers DEF StopBegin, Types, TypeOK
  <2> QED BY <1>2, <2>2, <2>3 DEF StopBegin, Types, TypeOK, CallbackTime, bounds, histVars
<1>3. ASSUME NEW e \in Entries, NEW p \in Periods, ChangePeriod(e, p)
      PROVE  Types'
  <2>1. GiveWake(e, pc')
    BY <1>3 DEF ChangePeriod
  <2>2. /\ pc' \in [Tasks -> Points] /\ wake' \in [Entries -> BOOLEAN]
        /\ \A t \in Tasks : pc'[t] = "callback" => pc[t] = "callback"
    BY <2>1, WakeMoves
  <2>3. changes' \in 0 .. MaxChanges /\ period' \in [Entries -> Periods \cup {0}]
        /\ changed' \in [Entries -> BOOLEAN]
    BY <1>3 DEF ChangePeriod, Types, TypeOK
  <2> QED BY <1>3, <2>2, <2>3 DEF ChangePeriod, Types, TypeOK, CallbackTime, appVars
<1>4. ASSUME NEW e \in Entries, NEW p \in Periods, NEW t \in Tasks, Start(e, t, p)
      PROVE  Types'
  <2>1. Long \in Nat
    BY LongIsLonger
  <2> QED BY <1>4, <2>1 DEF Start, Types, TypeOK, CallbackTime, Points, appVars
<1> QED BY <1>1, <1>2, <1>3, <1>4 DEF Calls

\* steps of a task keep the types
LEMMA TaskType ==
  ASSUME Types, NEW t \in Tasks, TaskStep(t)
  PROVE  Types'
<1>1. CASE Leave(t)
  <2>1. Long \in Nat
    BY LongIsLonger
  <2>2. appDue' \in 0 .. StopWait /\ done' \in [Entries -> BOOLEAN]
    BY <1>1, TimesAreNumbers DEF Leave, Types, TypeOK
  <2>3. since' \in [Tasks -> 0 .. Long] /\ due' \in [Tasks -> Nat]
    BY <1>1, <2>1 DEF Leave, Types, TypeOK
  <2> QED BY <1>1, <2>2, <2>3 DEF Leave, Types, TypeOK, CallbackTime, Points, bounds
<1>2. CASE FireNothing(t) \/ Return(t)
  <2>1. Rest(t, anchor[t] + period[entry[t]])
    BY <1>2 DEF FireNothing, Return
  <2> QED BY <1>2, <2>1, NextIsInt, RestType
          DEF FireNothing, Return, Types, TypeOK, CallbackTime, bounds, histVars, appVars
<1>3. CASE Expire(t)
  BY <1>3 DEF Expire, Types, TypeOK, CallbackTime, Points, entryVars, bounds, histVars,
              appVars
<1>4. CASE SelfStopBegin(t)
  <2>1. PICK pcs \in [Tasks -> Points] :
          GiveWake(entry[t], pcs) /\ pc' = [pcs EXCEPT ![t] = "stopping"]
    BY <1>4 DEF SelfStopBegin
  <2>2. /\ wake' \in [Entries -> BOOLEAN] /\ pc' \in [Tasks -> Points]
        /\ \A u \in Tasks : pc'[u] = "callback" => u # t /\ pc[u] = "callback"
    BY <2>1, WakeMoves, NextIsInt DEF Points
  <2>3. /\ due' = [due EXCEPT ![t] = IF done[entry[t]] THEN 0 ELSE StopWait]
        /\ stopReq' = [stopReq EXCEPT ![entry[t]] = TRUE]
        /\ done' = [done EXCEPT ![entry[t]] = FALSE]
        /\ gaveUp' = gaveUp /\ overlong' = TRUE
        /\ UNCHANGED <<kind, period, entry, anchor, appVars, bounds, since, ran, changed>>
    BY <1>4 DEF SelfStopBegin
  <2> QED BY <2>2, <2>3 DEF Types, TypeOK, CallbackTime, bounds, appVars
<1>5. CASE SelfStopEnd(t)
  <2>1. entry[t] \in Entries /\ Clear(entry[t])
    BY <1>5, NextIsInt DEF SelfStopEnd
  <2>2. NextAnchor(anchor[t]) \in Int /\ WaitUntil(anchor[t]) \in Nat
    BY NextIsInt, WaitType
  <2>3. /\ pc' = [Abandoned(entry[t]) EXCEPT ![t] = "sleeping"]
        /\ anchor' = [anchor EXCEPT ![t] = NextAnchor(anchor[t])]
        /\ due' = [due EXCEPT ![t] = WaitUntil(anchor[t])]
        /\ gaveUp' = TRUE
        /\ UNCHANGED <<entry, appVars, bounds, since, ran, changed, overlong>>
    BY <1>5 DEF SelfStopEnd, Types, TypeOK
  <2>4. /\ pc' \in [Tasks -> Points]
        /\ \A u \in Tasks : pc'[u] = "callback" => u # t /\ pc[u] = "callback"
    BY <2>1, <2>3, ClearType DEF Points
  <2> QED BY <2>1, <2>2, <2>3, <2>4, ClearType
          DEF Types, TypeOK, CallbackTime, bounds, appVars
<1>6. ASSUME NEW d \in Durations, Fire(t, d)
      PROVE  Types'
  <2>1. Long \in Nat
    BY LongIsLonger
  <2> QED BY <1>6, <2>1 DEF Fire, Types, TypeOK, CallbackTime, Points, entryVars, bounds,
                            appVars
<1> QED BY <1>1, <1>2, <1>3, <1>4, <1>5, <1>6 DEF TaskStep

\* the clock keeps the types
LEMMA TickType ==
  ASSUME Types, Tick
  PROVE  Types'
<1>1. Long \in Nat
  BY LongIsLonger
<1>2. /\ due' \in [Tasks -> Nat]
      /\ \A t \in Tasks : pc[t] = "callback" => due'[t] = due[t] - 1
  BY DEF Tick, Blocked, Types, TypeOK, Points
<1>3. anchor' \in [Tasks -> Int]
  BY DEF Tick, Types, TypeOK
<1>4. since' \in [Tasks -> 0 .. Long]
  BY <1>1 DEF Tick, Types, TypeOK
<1>5. appDue' \in 0 .. StopWait
  BY DEF Tick, Types, TypeOK
<1>6. CallbackTime'
  <2> SUFFICES ASSUME NEW t \in Tasks, pc[t] = "callback"
               PROVE  due'[t] <= ran[t]
    BY DEF Tick, CallbackTime
  <2>1. due[t] <= ran[t] /\ due[t] \in Nat /\ ran[t] \in Nat
    <3>1. due[t] <= ran[t] /\ due[t] \in Nat /\ ran[t] \in Durations \cup {0}
      BY DEF Types, TypeOK, CallbackTime
    <3> QED BY <3>1, TimesAreNumbers
  <2> QED BY <1>2, <2>1
<1> QED BY <1>2, <1>3, <1>4, <1>5, <1>6 DEF Tick, Types, TypeOK, entryVars, bounds

\* every step keeps the types
LEMMA TypesNext == Types /\ [Next]_vars => Types'
<1> SUFFICES ASSUME Types, [Next]_vars
             PROVE  Types'
  OBVIOUS
<1>1. CASE UNCHANGED vars
  BY <1>1 DEF vars, entryVars, taskVars, appVars, bounds, histVars, Types, TypeOK,
              CallbackTime
<1> QED BY <1>1, CallsType, TaskType, TickType DEF Next

\* at the start
LEMMA TypesInit == Init => Types
<1>1. Long \in Nat
  BY LongIsLonger
<1>2. 0 \in 0 .. Long /\ Long \in 0 .. Long /\ 0 \in 0 .. MaxStarts /\ 0 \in 0 .. MaxChanges
  BY <1>1
<1>3. Init => TypeOK
  <2> SUFFICES ASSUME Init
               PROVE  TypeOK
    OBVIOUS
  <2>1. /\ kind \in [Entries -> {"FREE", "TASK"}] /\ period \in [Entries -> Periods \cup {0}]
        /\ stopReq \in [Entries -> BOOLEAN] /\ wake \in [Entries -> BOOLEAN]
        /\ done \in [Entries -> BOOLEAN] /\ changed \in [Entries -> BOOLEAN]
    BY DEF Init
  <2>2. /\ pc \in [Tasks -> Points] /\ entry \in [Tasks -> Entries]
        /\ anchor \in [Tasks -> Int] /\ due \in [Tasks -> Nat]
        /\ since \in [Tasks -> 0 .. Long] /\ ran \in [Tasks -> Durations \cup {0}]
    BY <1>2 DEF Init, Points
  <2>3. app \in Entries \cup {Idle} /\ appDue \in 0 .. StopWait /\ gaveUp \in BOOLEAN
        /\ overlong \in BOOLEAN
    BY TimesAreNumbers DEF Init
  <2>4. starts \in 0 .. MaxStarts /\ changes \in 0 .. MaxChanges
    BY <1>2 DEF Init
  <2> QED BY <2>1, <2>2, <2>3, <2>4 DEF TypeOK
<1>4. Init => CallbackTime
  BY DEF Init, CallbackTime
<1> QED BY <1>3, <1>4 DEF Types

\* Entries, tasks, times and histories keep their types, whatever the number of
\* entries and tasks and the length of periods and callbacks.
THEOREM TypeCorrect == Spec => []TypeOK
<1>1. Types => TypeOK
  BY DEF Types
<1> QED BY <1>1, TypesInit, TypesNext, PTL DEF Spec

-----------------------------------------------------------------------------
(* Entries and their tasks.                                                *)

\* only a start makes a task, and only a start, a stop and a cleared entry
\* change the kind of an entry
LEMMA NobodyNew ==
  ASSUME Types,
         \/ \E e \in Entries : StopBegin(e) \/ \E p \in Periods : ChangePeriod(e, p)
         \/ Tick \/ UNCHANGED vars
         \/ \E t \in Tasks : \/ Leave(t) \/ FireNothing(t) \/ Return(t) \/ Expire(t)
                             \/ SelfStopBegin(t) \/ \E d \in Durations : Fire(t, d)
  PROVE  /\ kind' = kind /\ entry' = entry
         /\ \A t \in Tasks : pc'[t] # "none" => pc[t] # "none"
<1>1. ASSUME NEW e \in Entries, StopBegin(e) \/ \E p \in Periods : ChangePeriod(e, p)
      PROVE  /\ kind' = kind /\ entry' = entry
             /\ \A t \in Tasks : pc'[t] # "none" => pc[t] # "none"
  <2>1. GiveWake(e, pc') /\ kind' = kind /\ entry' = entry
    BY <1>1 DEF StopBegin, ChangePeriod
  <2> QED BY <2>1, WakeMoves
<1>2. CASE Tick \/ UNCHANGED vars
  BY <1>2 DEF Tick, vars, entryVars, taskVars
<1>3. ASSUME NEW t \in Tasks, Leave(t) \/ Expire(t) \/ \E d \in Durations : Fire(t, d)
      PROVE  /\ kind' = kind /\ entry' = entry
             /\ \A u \in Tasks : pc'[u] # "none" => pc[u] # "none"
  BY <1>3 DEF Leave, Expire, Fire, entryVars, Types, TypeOK
<1>4. ASSUME NEW t \in Tasks, FireNothing(t) \/ Return(t)
      PROVE  /\ kind' = kind /\ entry' = entry
             /\ \A u \in Tasks : pc'[u] # "none" => pc[u] # "none"
  <2>1. /\ kind' = kind /\ entry' = entry /\ pc[t] # "none"
        /\ Rest(t, anchor[t] + period[entry[t]])
    BY <1>4 DEF FireNothing, Return
  <2> QED BY <2>1, NextIsInt, RestType
<1>5. ASSUME NEW t \in Tasks, SelfStopBegin(t)
      PROVE  /\ kind' = kind /\ entry' = entry
             /\ \A u \in Tasks : pc'[u] # "none" => pc[u] # "none"
  <2>1. PICK pcs \in [Tasks -> Points] :
          GiveWake(entry[t], pcs) /\ pc' = [pcs EXCEPT ![t] = "stopping"]
    BY <1>5 DEF SelfStopBegin
  <2>2. /\ kind' = kind /\ entry' = entry /\ pc[t] # "none"
    BY <1>5 DEF SelfStopBegin
  <2> QED BY <2>1, <2>2, WakeMoves, NextIsInt
<1> QED BY <1>1, <1>2, <1>3, <1>4, <1>5

\* a stop that does not give up finds that the task has ended
LEMMA StopFindsNobody ==
  ASSUME Types, StopEnd, ~gaveUp'
  PROVE  /\ app \in Entries /\ \A t \in Live : entry[t] # app
         /\ pc' = pc /\ entry' = entry /\ Clear(app)
<1>1. app \in Entries /\ \A t \in Live : entry[t] # app
  BY DEF StopEnd, Live, Types, TypeOK
<1>2. \A t \in Tasks : Abandoned(app)[t] = pc[t]
  BY <1>1 DEF Abandoned, Live
<1>3. pc' = Abandoned(app) /\ Clear(app) /\ entry' = entry
  BY DEF StopEnd
<1> QED BY <1>1, <1>2, <1>3, ClearType DEF Types, TypeOK

\* a started entry was free, so nobody served it
LEMMA StartFindsNobody ==
  ASSUME Types, StopDeletesTask, NEW e \in Entries, NEW t \in Tasks, NEW p \in Periods,
         Start(e, t, p)
  PROVE  /\ \A u \in Live : entry[u] # e /\ u # t
         /\ entry'[t] = e /\ kind'[e] = "TASK" /\ pc'[t] = "top" /\ kind[e] = "FREE"
         /\ \A u \in Tasks : u # t => /\ entry'[u] = entry[u] /\ pc'[u] = pc[u]
                                      /\ since'[u] = since[u] /\ anchor'[u] = anchor[u]
                                      /\ ran'[u] = ran[u] /\ due'[u] = due[u]
         /\ \A f \in Entries : f # e => /\ kind'[f] = kind[f] /\ period'[f] = period[f]
                                        /\ stopReq'[f] = stopReq[f]
                                        /\ wake'[f] = wake[f] /\ done'[f] = done[f]
                                        /\ changed'[f] = changed[f]
         /\ ~done'[e] /\ ~wake'[e] /\ since'[t] = Long /\ anchor'[t] = 0
         /\ app = Idle /\ app' = app
<1>1. kind[e] = "FREE" /\ pc[t] = "none"
  BY DEF Start
<1>2. \A u \in Live : entry[u] # e /\ u # t
  BY <1>1 DEF StopDeletesTask, Live
<1> QED BY <1>1, <1>2 DEF Start, Types, TypeOK, appVars

\* a step that clears an entry under its own task gives up
LEMMA SelfStopGivesUp ==
  ASSUME NEW t \in Tasks, SelfStopEnd(t)
  PROVE  gaveUp'
BY DEF SelfStopEnd

\* the pairing of entries and tasks is kept until a stop gives up
LEMMA PairingNext ==
  ASSUME Types, StopDeletesTask, [Next]_vars, ~gaveUp'
  PROVE  StopDeletesTask'
<1>1. CASE StopEnd
  <2>1. \A f \in Entries : f # app => kind'[f] = kind[f]
    BY <1>1, StopFindsNobody, ClearType
  <2> QED BY <1>1, <2>1, StopFindsNobody, NextIsInt DEF StopDeletesTask, Live
<1>2. ASSUME NEW e \in Entries, NEW t \in Tasks, NEW p \in Periods, Start(e, t, p)
      PROVE  StopDeletesTask'
  BY <1>2, StartFindsNobody, NextIsInt DEF StopDeletesTask, Live
<1>3. ASSUME NEW t \in Tasks, SelfStopEnd(t)
      PROVE  FALSE
  BY <1>3, SelfStopGivesUp
<1>4. CASE kind' = kind /\ entry' = entry /\ \A t \in Tasks : pc'[t] # "none" => pc[t] # "none"
  BY <1>4 DEF StopDeletesTask, Live
<1> QED BY <1>1, <1>2, <1>3, <1>4, NobodyNew DEF Next, Calls, TaskStep

\* only a stop that gives up leaves a task on semaphores that are gone
LEMMA AttachedNext ==
  ASSUME Types, StopDeletesTask, Attached, [Next]_vars, ~gaveUp'
  PROVE  Attached'
<1>1. CASE StopEnd
  BY <1>1, StopFindsNobody DEF Attached
<1>2. ASSUME NEW e \in Entries, NEW t \in Tasks, NEW p \in Periods, Start(e, t, p)
      PROVE  Attached'
  BY <1>2, StartFindsNobody DEF Attached
<1>3. ASSUME NEW e \in Entries, StopBegin(e) \/ \E p \in Periods : ChangePeriod(e, p)
      PROVE  Attached'
  <2>1. GiveWake(e, pc')
    BY <1>3 DEF StopBegin, ChangePeriod
  <2> QED BY <2>1, WakeMoves DEF Attached
<1>4. CASE Tick \/ UNCHANGED vars
  BY <1>4 DEF Tick, vars, taskVars, Attached
<1>5. ASSUME NEW t \in Tasks, Leave(t) \/ Expire(t) \/ \E d \in Durations : Fire(t, d)
      PROVE  Attached'
  BY <1>5 DEF Leave, Expire, Fire, Types, TypeOK, Attached
<1>6. ASSUME NEW t \in Tasks, FireNothing(t) \/ Return(t)
      PROVE  Attached'
  <2>1. pc[t] # "none" /\ Rest(t, anchor[t] + period[entry[t]])
    BY <1>6 DEF FireNothing, Return
  <2>2. kind[entry[t]] = "TASK"
    BY <2>1 DEF StopDeletesTask, Live
  <2>3. pc'[t] # "sleeping"
    BY <2>1, <2>2 DEF Rest, Types, TypeOK
  <2> QED BY <2>1, <2>3, NextIsInt, RestType DEF Attached
<1>7. ASSUME NEW t \in Tasks, SelfStopBegin(t)
      PROVE  Attached'
  <2>1. PICK pcs \in [Tasks -> Points] :
          GiveWake(entry[t], pcs) /\ pc' = [pcs EXCEPT ![t] = "stopping"]
    BY <1>7 DEF SelfStopBegin
  <2> QED BY <2>1, WakeMoves, NextIsInt DEF Attached
<1>8. ASSUME NEW t \in Tasks, SelfStopEnd(t)
      PROVE  FALSE
  BY <1>8, SelfStopGivesUp
<1> QED BY <1>1, <1>2, <1>3, <1>4, <1>5, <1>6, <1>7, <1>8 DEF Next, Calls, TaskStep

\* done_sem is given when the task leaves, and taken or cleared before the entry is
\* started again
LEMMA DoneNext ==
  ASSUME Types, StopDeletesTask, DoneMeansGone, [Next]_vars, ~gaveUp'
  PROVE  DoneMeansGone'
<1>1. CASE StopEnd
  <2>1. \A f \in Entries : f # app => done'[f] = done[f]
    BY <1>1, StopFindsNobody, ClearType
  <2> QED BY <1>1, <2>1, StopFindsNobody, NextIsInt DEF DoneMeansGone, Live
<1>2. ASSUME NEW e \in Entries, NEW t \in Tasks, NEW p \in Periods, Start(e, t, p)
      PROVE  DoneMeansGone'
  BY <1>2, StartFindsNobody, NextIsInt DEF DoneMeansGone, Live
<1>3. ASSUME NEW t \in Tasks, Leave(t)
      PROVE  DoneMeansGone'
  <2>1. /\ pc[t] = "top" /\ pc'[t] = "none" /\ entry' = entry
        /\ \A u \in Tasks : u # t => pc'[u] = pc[u]
    BY <1>3 DEF Leave, Types, TypeOK
  <2>2. \A f \in Entries : f # entry[t] => done'[f] = done[f]
    BY <1>3 DEF Leave, Types, TypeOK
  <2>3. \A u \in Live : u # t => entry[u] # entry[t]
    BY <2>1 DEF StopDeletesTask, Live
  <2> QED BY <2>1, <2>2, <2>3, NextIsInt DEF DoneMeansGone, Live
<1>4. ASSUME NEW t \in Tasks, SelfStopEnd(t)
      PROVE  FALSE
  BY <1>4, SelfStopGivesUp
<1>5. ASSUME /\ entry' = entry /\ \A t \in Tasks : pc'[t] # "none" => pc[t] # "none"
             /\ \A e \in Entries : done'[e] => done[e]
      PROVE  DoneMeansGone'
  BY <1>5, NextIsInt DEF DoneMeansGone, Live
<1>6. ASSUME \/ \E e \in Entries : StopBegin(e) \/ \E p \in Periods : ChangePeriod(e, p)
             \/ Tick \/ UNCHANGED vars
             \/ \E t \in Tasks : \/ FireNothing(t) \/ Return(t) \/ Expire(t)
                                 \/ SelfStopBegin(t) \/ \E d \in Durations : Fire(t, d)
      PROVE  \A e \in Entries : done'[e] => done[e]
  BY <1>6 DEF StopBegin, ChangePeriod, Tick, vars, entryVars, FireNothing, Return, Expire,
              SelfStopBegin, Fire, Types, TypeOK
<1> QED BY <1>1, <1>2, <1>3, <1>4, <1>5, <1>6, NobodyNew DEF Next, Calls, TaskStep

-----------------------------------------------------------------------------
(* The handshake.                                                          *)

\* a step of one task leaves the others and their entries alone
LEMMA OthersStay ==
  ASSUME Types, StopDeletesTask, NEW u \in Tasks, TaskStep(u), ~gaveUp',
         NEW t \in Live, t # u
  PROVE  /\ entry' = entry /\ pc'[t] = pc[t] /\ due'[t] = due[t]
         /\ anchor'[t] = anchor[t] /\ since'[t] = since[t] /\ ran'[t] = ran[t]
         /\ stopReq'[entry[t]] = stopReq[entry[t]] /\ wake'[entry[t]] = wake[entry[t]]
         /\ period' = period /\ changed' = changed /\ app' = app
         /\ (entry[t] = app => appDue' = appDue)
<1>1. pc[u] # "none"
  BY DEF TaskStep, Leave, FireNothing, Return, Expire, SelfStopBegin, SelfStopEnd, Fire
<1>2. entry[t] # entry[u] /\ entry[t] \in Entries /\ entry[u] \in Entries
  BY <1>1, NextIsInt DEF StopDeletesTask, Live
<1>3. CASE Leave(u)
  BY <1>2, <1>3 DEF Leave, Types, TypeOK, bounds
<1>4. CASE Expire(u)
  BY <1>4 DEF Expire, Types, TypeOK, entryVars, appVars, bounds, histVars
<1>5. ASSUME NEW d \in Durations, Fire(u, d)
      PROVE  /\ entry' = entry /\ pc'[t] = pc[t] /\ due'[t] = due[t]
             /\ anchor'[t] = anchor[t] /\ since'[t] = since[t] /\ ran'[t] = ran[t]
             /\ stopReq' = stopReq /\ wake' = wake
             /\ period' = period /\ changed' = changed /\ app' = app /\ appDue' = appDue
  BY <1>5 DEF Fire, Types, TypeOK, entryVars, appVars, bounds
<1>6. CASE FireNothing(u) \/ Return(u)
  <2>1. /\ Rest(u, anchor[u] + period[entry[u]])
        /\ UNCHANGED <<kind, period, stopReq, done, entry, appVars, bounds, histVars>>
    BY <1>6 DEF FireNothing, Return
  <2>2. wake'[entry[t]] = wake[entry[t]]
    BY <1>2, <2>1 DEF Rest, Types, TypeOK
  <2> QED BY <2>1, <2>2, NextIsInt, RestType DEF appVars, histVars, Live
<1>7. CASE SelfStopBegin(u)
  <2>1. PICK pcs \in [Tasks -> Points] :
          GiveWake(entry[u], pcs) /\ pc' = [pcs EXCEPT ![u] = "stopping"]
    BY <1>7 DEF SelfStopBegin
  <2>2. pc'[t] = pc[t] /\ wake'[entry[t]] = wake[entry[t]]
    BY <1>2, <2>1, WakeMoves DEF Live
  <2>3. /\ UNCHANGED <<kind, period, entry, anchor, appVars, bounds, since, ran, changed>>
        /\ stopReq'[entry[t]] = stopReq[entry[t]] /\ due'[t] = due[t]
    BY <1>2, <1>7 DEF SelfStopBegin, Types, TypeOK
  <2> QED BY <2>2, <2>3 DEF appVars
<1>8. CASE SelfStopEnd(u)
  BY <1>8, SelfStopGivesUp
<1> QED BY <1>3, <1>4, <1>5, <1>6, <1>7, <1>8 DEF TaskStep

\* who waits when a stop begins is woken, and nobody else takes the token
LEMMA StopWakes ==
  ASSUME Types, StopDeletesTask, Attached, NEW e \in Entries, StopBegin(e),
         NEW t \in Live, entry[t] = e
  PROVE  \/ pc[t] = "waiting" /\ pc'[t] = "top"
         \/ pc[t] \in {"top", "callback", "stopping"} /\ pc'[t] = pc[t] /\ wake'[e]
<1>1. GiveWake(e, pc')
  BY DEF StopBegin
<1>2. \A u \in Tasks : pc[u] = "waiting" /\ entry[u] = e => u = t
  BY DEF StopDeletesTask, Live
<1>3. CASE pc[t] = "waiting"
  BY <1>1, <1>2, <1>3, WakeMoves DEF Live
<1>4. CASE pc[t] # "waiting"
  <2>1. wake'[e] /\ pc'[t] = pc[t]
    BY <1>1, <1>2, <1>4, WakeMoves DEF Live
  <2>2. pc[t] \in Points /\ pc[t] # "none" /\ pc[t] # "sleeping"
    BY DEF Types, TypeOK, Live, Attached
  <2> QED BY <1>4, <2>1, <2>2 DEF Points
<1> QED BY <1>3, <1>4

\* a call for another entry, or a change of period, hurts no stop under way
LEMMA AnswersNext ==
  ASSUME Types, Orderly, [Next]_vars, ~gaveUp'
  PROVE  StopIsAnswered'
<1> USE DEF Orderly
<1>1. CASE StopEnd
  <2>1. app' = Idle /\ entry' = entry
    BY <1>1 DEF StopEnd
  <2> QED BY <2>1, NextIsInt, IdleAssumption DEF StopIsAnswered, Live
<1>2. ASSUME NEW e \in Entries, NEW t \in Tasks, NEW p \in Periods, Start(e, t, p)
      PROVE  StopIsAnswered'
  <2>1. app' = Idle
    BY <1>2, StartFindsNobody
  <2>2. Types'
    BY <1>2, TypesNext DEF Next, Calls
  <2>3. \A u \in Tasks : entry'[u] \in Entries
    BY <2>2 DEF Types, TypeOK
  <2> QED BY <2>1, <2>3, IdleAssumption DEF StopIsAnswered, Live
<1>3. ASSUME NEW e \in Entries, StopBegin(e)
      PROVE  StopIsAnswered'
  <2> SUFFICES ASSUME NEW t \in Live', entry'[t] = app'
               PROVE  stopReq'[app'] /\ Answers(t)'
    BY DEF StopIsAnswered
  <2>1. /\ app' = e /\ entry' = entry /\ stopReq'[e] /\ due' = due /\ ran' = ran
        /\ appDue' = IF done[e] THEN 0 ELSE StopWait
    BY <1>3 DEF StopBegin, Types, TypeOK, histVars
  <2>2. t \in Live /\ entry[t] = e
    BY <1>3, <2>1, NobodyNew DEF Live
  <2>3. appDue' = StopWait
    BY <2>1, <2>2 DEF DoneMeansGone
  <2>4. CASE pc'[t] \in {"top", "stopping"}
    BY <2>1, <2>3, <2>4, TimesAreNumbers DEF Answers
  <2>5. CASE pc[t] = "callback" /\ pc'[t] = "callback" /\ wake'[e]
    <3>1. due[t] <= ran[t] /\ due[t] \in Nat /\ ran[t] \in Durations \cup {0}
      BY <2>2, <2>5 DEF Types, TypeOK, CallbackTime, Live
    <3>2. ran[t] \in Nat /\ StopWait \in Nat
      BY <3>1, TimesAreNumbers
    <3> QED BY <2>1, <2>3, <2>5, <3>1, <3>2 DEF Answers
  <2> QED BY <1>3, <2>1, <2>2, <2>4, <2>5, StopWakes
<1>4. ASSUME NEW e \in Entries, NEW p \in Periods, ChangePeriod(e, p)
      PROVE  StopIsAnswered'
  <2>1. /\ app' = app /\ appDue' = appDue /\ entry' = entry /\ stopReq' = stopReq
        /\ due' = due /\ ran' = ran /\ GiveWake(e, pc')
    BY <1>4 DEF ChangePeriod, appVars
  <2> SUFFICES ASSUME NEW t \in Live', entry'[t] = app'
               PROVE  stopReq'[app'] /\ Answers(t)'
    BY DEF StopIsAnswered
  <2>2. t \in Live /\ entry[t] = app /\ stopReq[app] /\ Answers(t) /\ app \in Entries
    BY <1>4, <2>1, NobodyNew, NextIsInt DEF Live, StopIsAnswered
  <2>3. pc'[t] = pc[t] \/ pc[t] = "waiting"
    BY <2>1, <2>2, WakeMoves DEF Live
  <2>4. wake[app] => wake'[app]
    BY <2>1, <2>2, WakeMoves
  <2> QED BY <2>1, <2>2, <2>3, <2>4 DEF Answers
<1>5. CASE Tick
  <2> SUFFICES ASSUME NEW t \in Live', entry'[t] = app'
               PROVE  stopReq'[app'] /\ Answers(t)'
    BY DEF StopIsAnswered
  <2>1. /\ pc' = pc /\ entry' = entry /\ app' = app /\ stopReq' = stopReq /\ wake' = wake
        /\ ran' = ran
    BY <1>5 DEF Tick, entryVars
  <2>2. t \in Live /\ entry[t] = app /\ stopReq[app] /\ Answers(t)
    BY <2>1 DEF Live, StopIsAnswered
  <2>3. pc[t] # "top" /\ appDue > 0 /\ appDue \in Nat /\ appDue' = appDue - 1
        /\ due'[t] = due[t] - 1 /\ due[t] \in Nat
    BY <1>5, <2>2, NextIsInt, IdleAssumption DEF Tick, Blocked, Live, Types, TypeOK
  <2> QED BY <2>1, <2>2, <2>3 DEF Answers
<1>6. ASSUME NEW u \in Tasks, TaskStep(u)
      PROVE  StopIsAnswered'
  <2> SUFFICES ASSUME NEW t \in Live', entry'[t] = app'
               PROVE  stopReq'[app'] /\ Answers(t)'
    BY DEF StopIsAnswered
  <2>1. ~SelfStopEnd(u)
    BY SelfStopGivesUp
  <2>2. t \in Live /\ entry' = entry
    BY <1>6, <2>1, NobodyNew DEF TaskStep, Live
  <2>3. CASE t # u
    <3>1. entry[t] = app /\ app' = app
      BY <1>6, <2>2, <2>3, OthersStay
    <3>2. stopReq[app] /\ Answers(t)
      BY <2>2, <3>1 DEF StopIsAnswered
    <3> QED BY <1>6, <2>2, <2>3, <3>1, <3>2, OthersStay DEF Answers
  <2>4. CASE t = u
    <3>1. app' = app
      BY <1>6, <2>1 DEF TaskStep, Leave, FireNothing, Return, Expire, SelfStopBegin, Fire,
                        appVars
    <3>2. stopReq[app] /\ Answers(t) /\ entry[t] = app /\ kind[app] = "TASK"
      BY <2>2, <3>1 DEF StopIsAnswered, StopDeletesTask
    <3>3. app \in Entries /\ t \in Tasks
      BY <3>2, <2>2, NextIsInt DEF Live
    <3>4. CASE Leave(u)
      BY <2>2, <2>4, <3>4 DEF Leave, Live, Types, TypeOK
    <3>5. CASE Expire(u)
      BY <2>4, <3>1, <3>2, <3>5 DEF Expire, Answers, entryVars, histVars
    <3>6. ASSUME NEW d \in Durations, Fire(u, d)
          PROVE  FALSE
      BY <2>4, <3>2, <3>6 DEF Fire
    <3>7. CASE FireNothing(u)
      BY <2>4, <3>2, <3>7 DEF FireNothing
    <3>8. CASE Return(u)
      <4>1. /\ Rest(u, anchor[u] + period[entry[u]]) /\ stopReq' = stopReq /\ ran' = ran
            /\ appDue' = appDue /\ due[t] = 0 /\ pc[t] = "callback"
        BY <2>4, <3>8 DEF Return, appVars, histVars
      <4>2. CASE ran[t] >= StopWait
        BY <3>1, <3>2, <4>1, <4>2 DEF Answers
      <4>3. CASE ~(ran[t] >= StopWait)
        <5>1. appDue > 0 /\ wake[app]
          BY <3>2, <4>1, <4>3 DEF Answers
        <5>2. pc'[t] = "top"
          BY <2>4, <3>2, <3>3, <4>1, <5>1 DEF Rest, Types, TypeOK
        <5> QED BY <3>1, <3>2, <4>1, <5>1, <5>2 DEF Answers
      <4> QED BY <4>2, <4>3
    <3>9. CASE SelfStopBegin(u)
      <4>1. PICK pcs \in [Tasks -> Points] : pc' = [pcs EXCEPT ![u] = "stopping"]
        BY <3>9 DEF SelfStopBegin
      <4>2. pc'[t] = "stopping"
        BY <2>4, <3>3, <4>1
      <4>3. stopReq'[app]
        BY <2>4, <3>2, <3>3, <3>9 DEF SelfStopBegin, Types, TypeOK
      <4> QED BY <3>1, <4>2, <4>3 DEF Answers
    <3> QED BY <1>6, <2>1, <3>4, <3>5, <3>6, <3>7, <3>8, <3>9 DEF TaskStep
  <2> QED BY <2>3, <2>4
<1>7. CASE UNCHANGED vars
  BY <1>7 DEF vars, entryVars, taskVars, appVars, histVars, StopIsAnswered, Answers, Live
<1> QED BY <1>1, <1>2, <1>3, <1>4, <1>5, <1>6, <1>7 DEF Next, Calls

-----------------------------------------------------------------------------
(* The schedule.                                                           *)

\* the types of what OnSchedule speaks about
LEMMA ScheduleTypes ==
  ASSUME Types, NEW t \in Tasks
  PROVE  /\ entry[t] \in Entries /\ period[entry[t]] \in Nat
         /\ period[entry[t]] <= Longest /\ Longest \in Nat /\ Long = Longest + 2
         /\ since[t] \in Nat /\ since[t] <= Long /\ due[t] \in Nat /\ anchor[t] \in Int
         /\ ran[t] \in Nat /\ ran[t] <= Longest
<1>1. /\ Longest \in Nat /\ Long = Longest + 2
      /\ \A k \in Periods \cup Durations : k <= Longest
  BY LongIsLonger
<1>2. entry[t] \in Entries /\ period[entry[t]] \in Nat /\ anchor[t] \in Int
  BY NextIsInt
<1>3. period[entry[t]] \in Periods \cup {0} /\ ran[t] \in Durations \cup {0}
  BY <1>2 DEF Types, TypeOK
<1>4. period[entry[t]] <= Longest /\ ran[t] \in Nat /\ ran[t] <= Longest
  <2>1. ran[t] \in Nat
    BY <1>3, TimesAreNumbers
  <2>2. \A k \in (Periods \cup {0}) \cup (Durations \cup {0}) : k <= Longest
    BY <1>1
  <2> QED BY <1>3, <2>1, <2>2
<1>5. since[t] \in 0 .. Long /\ due[t] \in Nat
  BY DEF Types, TypeOK
<1> QED BY <1>1, <1>2, <1>4, <1>5

\* a task that nothing happens to stays on schedule
LEMMA ScheduleStays ==
  ASSUME Scheduled, NEW t \in Live, entry'[t] = entry[t], pc'[t] = pc[t],
         due'[t] = due[t], anchor'[t] = anchor[t], since'[t] = since[t], ran'[t] = ran[t],
         stopReq'[entry[t]] = stopReq[entry[t]], wake'[entry[t]] = wake[entry[t]],
         period'[entry[t]] = period[entry[t]], changed'[entry[t]] = changed[entry[t]]
  PROVE  changed'[entry'[t]] \/ OnSchedule(t)'
BY DEF Scheduled, OnSchedule, Spaced

\* the wait that follows a callback ends within a period of its begin, or right
\* after a callback that overran
LEMMA ReturnIsScheduled ==
  ASSUME Types, Orderly, NEW t \in Live, Return(t)
  PROVE  changed'[entry'[t]] \/ OnSchedule(t)'
<1> DEFINE P    == period[entry[t]]
           next == anchor[t] + P
<1>1. /\ Rest(t, next) /\ pc[t] = "callback" /\ due[t] = 0 /\ kind[entry[t]] = "TASK"
      /\ stopReq' = stopReq /\ period' = period /\ entry' = entry /\ changed' = changed
      /\ since' = since /\ ran' = ran
  BY DEF Return, histVars, Orderly, StopDeletesTask
<1>2. CASE changed[entry[t]]
  BY <1>1, <1>2
<1>3. CASE ~changed[entry[t]]
  <2>1. t \in Tasks /\ OnSchedule(t)
    BY <1>3 DEF Orderly, Scheduled, Live
  <2>2. /\ entry[t] \in Entries /\ P \in Nat /\ P <= Longest /\ Longest \in Nat
        /\ Long = Longest + 2 /\ since[t] \in Nat /\ anchor[t] \in Int
        /\ ran[t] \in Nat /\ ran[t] <= Longest
    BY <2>1, ScheduleTypes
  <2>3. since[t] = ran[t] /\ anchor[t] + ran[t] \in {-1, 0}
    BY <1>1, <2>1, <2>2 DEF OnSchedule
  <2>4. CASE wake[entry[t]]
    <3>1. stopReq[entry[t]] /\ pc'[t] = "top" /\ ~wake'[entry[t]]
      BY <1>1, <2>1, <2>2, <2>4 DEF Rest, OnSchedule, Types, TypeOK
    <3> QED BY <1>1, <3>1 DEF OnSchedule
  <2>5. CASE ~wake[entry[t]]
    <3>1. /\ pc'[t] = "waiting" /\ wake' = wake
          /\ due'[t] = WaitUntil(next) /\ anchor'[t] = NextAnchor(next)
      BY <1>1, <2>1, <2>2, <2>5 DEF Rest, Types, TypeOK
    <3> DEFINE distance == since[t] + WaitUntil(next)
    <3>2. CASE next <= 0
      <4>1. WaitUntil(next) = 1 /\ NextAnchor(next) = 0
        BY <3>2 DEF WaitUntil, NextAnchor
      <4>2. distance = ran[t] + 1 /\ ran[t] >= P - 1
        BY <2>2, <2>3, <3>2, <4>1
      <4>3. /\ distance >= P - 1 /\ (ran[t] < P => distance <= P) /\ distance < Long
            /\ NextAnchor(next) - WaitUntil(next) \in {-1, 0}
        BY <2>2, <4>1, <4>2
      <4> HIDE DEF next, P, distance
      <4> QED BY <1>1, <2>5, <3>1, <4>3 DEF OnSchedule, Spaced, P, distance
    <3>3. CASE ~(next <= 0)
      <4>1. WaitUntil(next) = next /\ NextAnchor(next) = next
        BY <3>3 DEF WaitUntil, NextAnchor
      <4>2. distance = P \/ distance = P - 1
        BY <2>2, <2>3, <4>1
      <4>3. /\ distance >= P - 1 /\ (ran[t] < P => distance <= P) /\ distance < Long
            /\ NextAnchor(next) - WaitUntil(next) \in {-1, 0}
        BY <2>2, <4>1, <4>2
      <4> HIDE DEF next, P, distance
      <4> QED BY <1>1, <2>5, <3>1, <4>3 DEF OnSchedule, Spaced, P, distance
    <3> QED BY <3>2, <3>3
  <2> QED BY <2>4, <2>5
<1> QED BY <1>2, <1>3

\* as time passes, what is left of a wait or a callback turns into distance
LEMMA TickIsScheduled ==
  ASSUME Types, Orderly, Tick, NEW t \in Live
  PROVE  changed'[entry'[t]] \/ OnSchedule(t)'
<1>1. /\ pc' = pc /\ entry' = entry /\ stopReq' = stopReq /\ wake' = wake
      /\ period' = period /\ changed' = changed /\ ran' = ran
      /\ t \in Tasks /\ pc[t] # "none"
  BY DEF Tick, entryVars, Live
<1>2. pc[t] # "top" /\ due[t] > 0 /\ due'[t] = due[t] - 1 /\ anchor'[t] = anchor[t] - 1
  BY <1>1 DEF Tick, Blocked
<1>3. since'[t] = IF since[t] = Long THEN since[t] ELSE since[t] + 1
  BY <1>1 DEF Tick
<1>4. CASE changed[entry[t]]
  BY <1>1, <1>4
<1>5. CASE ~changed[entry[t]]
  <2>1. OnSchedule(t)
    BY <1>5 DEF Orderly, Scheduled
  <2>2. /\ entry[t] \in Entries /\ period[entry[t]] \in Nat /\ Longest \in Nat
        /\ Long = Longest + 2 /\ since[t] \in Nat /\ due[t] \in Nat /\ anchor[t] \in Int
        /\ ran[t] \in Nat /\ ran[t] <= Longest
    BY <1>1, ScheduleTypes
  <2>3. CASE pc[t] = "callback"
    <3>1. since[t] + due[t] = ran[t] /\ anchor[t] + since[t] \in {-1, 0}
      BY <2>1, <2>3 DEF OnSchedule
    <3>2. since'[t] = since[t] + 1
      BY <1>2, <1>3, <2>2, <3>1
    <3>3. since'[t] + due'[t] = ran[t] /\ anchor'[t] + since'[t] \in {-1, 0}
      BY <1>2, <2>2, <3>1, <3>2
    <3> QED BY <1>1, <2>1, <2>3, <3>3 DEF OnSchedule
  <2>4. CASE pc[t] = "waiting"
    <3>1. /\ Spaced(t, since[t] + due[t]) /\ since[t] + due[t] < Long
          /\ anchor[t] - due[t] \in {-1, 0}
      BY <2>1, <2>4 DEF OnSchedule
    <3>2. since'[t] = since[t] + 1
      BY <1>2, <1>3, <2>2, <3>1
    <3>3. since'[t] + due'[t] = since[t] + due[t] /\ anchor'[t] - due'[t] \in {-1, 0}
      BY <1>2, <2>2, <3>1, <3>2
    <3> QED BY <1>1, <2>1, <2>4, <3>1, <3>3 DEF OnSchedule, Spaced
  <2>5. CASE pc[t] \notin {"callback", "waiting"}
    BY <1>1, <1>2, <2>1, <2>5 DEF OnSchedule
  <2> QED BY <2>3, <2>4, <2>5
<1> QED BY <1>4, <1>5

\* a stop that begins lets its task leave without another callback
LEMMA StopIsScheduled ==
  ASSUME Types, Orderly, NEW e \in Entries, StopBegin(e), NEW t \in Live
  PROVE  changed'[entry'[t]] \/ OnSchedule(t)'
<1>1. /\ GiveWake(e, pc') /\ stopReq' = [stopReq EXCEPT ![e] = TRUE]
      /\ UNCHANGED <<kind, period, entry, anchor, due, since, ran, changed>>
  BY DEF StopBegin, histVars
<1>2. t \in Tasks /\ entry[t] \in Entries
  BY NextIsInt DEF Live
<1>3. CASE entry[t] # e
  <2>1. pc'[t] = pc[t] /\ wake'[entry[t]] = wake[entry[t]]
        /\ stopReq'[entry[t]] = stopReq[entry[t]]
    BY <1>1, <1>2, <1>3, WakeMoves DEF Types, TypeOK
  <2> QED BY <1>1, <2>1, ScheduleStays DEF Orderly
<1>4. CASE entry[t] = e
  <2>1. stopReq'[e]
    BY <1>1 DEF Types, TypeOK
  <2>2. pc'[t] = "top" \/ pc'[t] = pc[t]
    BY <1>4, StopWakes DEF Orderly
  <2> QED BY <1>1, <1>4, <2>1, <2>2 DEF Orderly, Scheduled, OnSchedule, Spaced
<1> QED BY <1>3, <1>4

\* the steps of a task itself
LEMMA StepIsScheduled ==
  ASSUME Types, Orderly, NEW t \in Live, TaskStep(t), ~gaveUp', t \in Live'
  PROVE  changed'[entry'[t]] \/ OnSchedule(t)'
<1> USE DEF Orderly
<1>1. t \in Tasks /\ entry[t] \in Entries /\ kind[entry[t]] = "TASK"
  BY NextIsInt DEF Live, StopDeletesTask
<1>2. changed[entry[t]] \/ OnSchedule(t)
  BY DEF Scheduled
<1>3. CASE Leave(t)
  BY <1>1, <1>3 DEF Leave, Live, Types, TypeOK
<1>4. CASE Return(t)
  BY <1>4, ReturnIsScheduled
<1>5. CASE FireNothing(t)
  BY <1>1, <1>5 DEF FireNothing
<1>6. CASE SelfStopEnd(t)
  BY <1>1, <1>6, SelfStopGivesUp
<1>7. CASE SelfStopBegin(t)
  <2>1. PICK pcs \in [Tasks -> Points] : pc' = [pcs EXCEPT ![t] = "stopping"]
    BY <1>7 DEF SelfStopBegin
  <2>2. /\ pc'[t] = "stopping" /\ stopReq'[entry[t]] /\ entry' = entry
    BY <1>1, <1>7, <2>1 DEF SelfStopBegin, Types, TypeOK
  <2> QED BY <2>2 DEF OnSchedule
<1>8. CASE Expire(t)
  <2>1. /\ pc[t] = "waiting" /\ due[t] = 0 /\ pc'[t] = "top"
        /\ UNCHANGED <<entry, anchor, since, ran, period, changed, stopReq, wake>>
    BY <1>1, <1>8 DEF Expire, Attached, Types, TypeOK, entryVars, histVars
  <2>2. since[t] \in Nat /\ anchor[t] \in Int
    BY <1>1, ScheduleTypes
  <2>3. CASE changed[entry[t]]
    BY <2>1, <2>3
  <2>4. CASE OnSchedule(t)
    <3>1. anchor[t] \in {-1, 0} /\ Spaced(t, since[t])
          /\ (wake[entry[t]] => stopReq[entry[t]])
      BY <2>1, <2>2, <2>4 DEF OnSchedule
    <3> QED BY <2>1, <3>1 DEF OnSchedule, Spaced
  <2> QED BY <1>2, <2>3, <2>4
<1>9. ASSUME NEW d \in Durations, Fire(t, d)
      PROVE  changed'[entry'[t]] \/ OnSchedule(t)'
  <2>1. /\ pc[t] = "top" /\ ~stopReq[entry[t]] /\ pc'[t] = "callback"
        /\ due'[t] = d /\ ran'[t] = d /\ since'[t] = 0
        /\ UNCHANGED <<entry, anchor, period, changed, stopReq, wake>>
    BY <1>1, <1>9 DEF Fire, Types, TypeOK, entryVars
  <2>2. d \in Nat /\ anchor[t] \in Int
    BY <1>1, ScheduleTypes, TimesAreNumbers
  <2>3. CASE changed[entry[t]]
    BY <2>1, <2>3
  <2>4. CASE OnSchedule(t)
    <3>1. anchor[t] \in {-1, 0} /\ (wake[entry[t]] => stopReq[entry[t]])
      BY <2>1, <2>4 DEF OnSchedule
    <3> QED BY <2>1, <2>2, <3>1 DEF OnSchedule
  <2> QED BY <1>2, <2>3, <2>4
<1> QED BY <1>3, <1>4, <1>5, <1>6, <1>7, <1>8, <1>9 DEF TaskStep

\* every task stays on schedule until a stop gives up
LEMMA ScheduledNext ==
  ASSUME Types, Orderly, [Next]_vars, ~gaveUp'
  PROVE  Scheduled'
<1> USE DEF Orderly
<1> SUFFICES ASSUME NEW t \in Live'
             PROVE  changed'[entry'[t]] \/ OnSchedule(t)'
  BY DEF Scheduled
<1>1. CASE StopEnd
  <2>1. /\ t \in Live /\ entry[t] # app /\ pc' = pc /\ entry' = entry /\ Clear(app)
        /\ app \in Entries
    BY <1>1, StopFindsNobody DEF Live
  <2>2. entry[t] \in Entries
    BY <2>1, NextIsInt DEF Live
  <2>3. UNCHANGED <<anchor, due, since, ran, changed>>
    BY <1>1 DEF StopEnd, Clear, appVars, bounds, StopEnd
  <2> QED BY <2>1, <2>2, <2>3, ClearType, ScheduleStays
<1>2. ASSUME NEW e \in Entries, NEW u \in Tasks, NEW p \in Periods, Start(e, u, p)
      PROVE  changed'[entry'[t]] \/ OnSchedule(t)'
  <2>1. CASE t = u
    BY <1>2, <2>1, StartFindsNobody DEF OnSchedule
  <2>2. CASE t # u
    <3>1. t \in Live /\ entry[t] # e /\ entry[t] \in Entries
      BY <1>2, <2>2, StartFindsNobody, NextIsInt DEF Live
    <3> QED BY <1>2, <2>2, <3>1, StartFindsNobody, ScheduleStays DEF Live
  <2> QED BY <2>1, <2>2
<1>3. ASSUME NEW e \in Entries, StopBegin(e)
      PROVE  changed'[entry'[t]] \/ OnSchedule(t)'
  <2>1. t \in Live
    BY <1>3, NobodyNew DEF Live
  <2> QED BY <1>3, <2>1, StopIsScheduled
<1>4. ASSUME NEW e \in Entries, NEW p \in Periods, ChangePeriod(e, p)
      PROVE  changed'[entry'[t]] \/ OnSchedule(t)'
  <2>1. t \in Live /\ t \in Tasks /\ entry[t] \in Entries
    BY <1>4, NobodyNew, NextIsInt DEF Live
  <2>2. /\ GiveWake(e, pc') /\ period' = [period EXCEPT ![e] = p]
        /\ changed' = [changed EXCEPT ![e] = TRUE]
        /\ UNCHANGED <<kind, stopReq, done, entry, anchor, due, since, ran>>
    BY <1>4 DEF ChangePeriod
  <2>3. CASE entry[t] = e
    BY <2>1, <2>2, <2>3 DEF Types, TypeOK
  <2>4. CASE entry[t] # e
    <3>1. /\ pc'[t] = pc[t] /\ wake'[entry[t]] = wake[entry[t]]
          /\ period'[entry[t]] = period[entry[t]] /\ changed'[entry[t]] = changed[entry[t]]
      BY <2>1, <2>2, <2>4, WakeMoves DEF Types, TypeOK
    <3> QED BY <2>1, <2>2, <3>1, ScheduleStays
  <2> QED BY <2>3, <2>4
<1>5. CASE Tick
  <2>1. t \in Live
    BY <1>5, NobodyNew DEF Live
  <2> QED BY <1>5, <2>1, TickIsScheduled
<1>6. ASSUME NEW u \in Tasks, TaskStep(u)
      PROVE  changed'[entry'[t]] \/ OnSchedule(t)'
  <2>1. t \in Live
    BY <1>6, SelfStopGivesUp, NobodyNew DEF TaskStep, Live
  <2>2. CASE t = u
    BY <1>6, <2>1, <2>2, StepIsScheduled
  <2>3. CASE t # u
    BY <1>6, <2>1, <2>3, OthersStay, ScheduleStays
  <2> QED BY <2>2, <2>3
<1>7. CASE UNCHANGED vars
  <2>1. t \in Live
    BY <1>7 DEF vars, taskVars, Live
  <2> QED BY <1>7, <2>1, ScheduleStays DEF vars, entryVars, taskVars, histVars
<1> QED BY <1>1, <1>2, <1>3, <1>4, <1>5, <1>6, <1>7 DEF Next, Calls

-----------------------------------------------------------------------------
(* The theorems.                                                           *)

\* at the start
LEMMA InvInit == Init => Inv
<1>1. Init => Live = {} /\ \A t \in Tasks : pc[t] # "sleeping"
  BY DEF Init, Live
<1> QED BY <1>1, TypesInit
        DEF Inv, Orderly, StopDeletesTask, Attached, DoneMeansGone, StopIsAnswered,
            Scheduled

\* a stop that has given up stays given up
LEMMA GivenUpStays ==
  ASSUME [Next]_vars, ~gaveUp'
  PROVE  ~gaveUp
BY DEF Next, Calls, TaskStep, vars, histVars, StopEnd, StopBegin, ChangePeriod, Start, Leave,
       FireNothing, Return, Expire, SelfStopBegin, SelfStopEnd, Fire, Tick

\* every step keeps the invariant
LEMMA InvNext == Inv /\ [Next]_vars => Inv'
<1> SUFFICES ASSUME Inv, [Next]_vars, ~gaveUp'
             PROVE  Orderly'
  BY TypesNext DEF Inv
<1>1. Types /\ Orderly
  BY GivenUpStays DEF Inv
<1> QED BY <1>1, PairingNext, AttachedNext, DoneNext, AnswersNext, ScheduledNext
        DEF Orderly

\* a stop gives up only on a callback that is too long or stops itself
LEMMA LongGivesUp ==
  ASSUME Inv, [Next]_vars, ~gaveUp, gaveUp'
  PROVE  \E t \in Live : pc[t] = "stopping" \/ ran[t] >= StopWait
<1>1. CASE StopEnd
  <2>1. PICK t \in Live : entry[t] = app
    BY <1>1 DEF StopEnd, Live
  <2>2. Answers(t) /\ appDue = 0 /\ due[t] \in Nat
    BY <1>1, <2>1 DEF Inv, Orderly, StopIsAnswered, StopEnd, Types, TypeOK, Live
  <2> QED BY <2>2 DEF Answers
<1>2. ASSUME NEW t \in Tasks, SelfStopEnd(t)
      PROVE  \E u \in Live : pc[u] = "stopping"
  BY <1>2 DEF SelfStopEnd, Live
<1> QED BY <1>1, <1>2
     DEF Next, Calls, TaskStep, vars, histVars, StopBegin, ChangePeriod, Start, Leave,
         FireNothing, Return, Expire, SelfStopBegin, Fire, Tick

\* a callback is timed when it begins, and a self-stop is noted when it begins
LEMMA CallbacksAreSeen ==
  ASSUME Types, LongIsSeen, [Next]_vars, NEW t \in Tasks,
         pc'[t] = "stopping" \/ ran'[t] >= StopWait
  PROVE  overlong'
<1>1. pc[t] = "stopping" \/ ran[t] >= StopWait => overlong
  BY DEF LongIsSeen
<1>2. CASE \E e \in Entries : StopBegin(e) \/ \E p \in Periods : ChangePeriod(e, p)
  <2>1. PICK e \in Entries : GiveWake(e, pc') /\ ran' = ran /\ overlong' = overlong
    BY <1>2 DEF StopBegin, ChangePeriod, histVars
  <2>2. pc'[t] = pc[t] \/ pc'[t] = "top"
    BY <2>1, WakeMoves
  <2> QED BY <1>1, <2>1, <2>2
<1>3. CASE \E u \in Tasks : FireNothing(u) \/ Return(u)
  <2>1. PICK u \in Tasks : /\ Rest(u, anchor[u] + period[entry[u]])
                           /\ ran' = ran /\ overlong' = overlong
    BY <1>3 DEF FireNothing, Return, histVars
  <2>2. pc'[t] = pc[t] \/ pc'[t] \in {"top", "waiting", "sleeping"}
    BY <2>1, NextIsInt, RestType
  <2> QED BY <1>1, <2>1, <2>2
<1>4. CASE StopEnd
  <2>1. ran' = ran /\ overlong' = overlong /\ (pc'[t] = pc[t] \/ pc'[t] = "sleeping")
    BY <1>4 DEF StopEnd, Abandoned
  <2> QED BY <1>1, <2>1
<1>5. ASSUME NEW u \in Tasks, SelfStopEnd(u)
      PROVE  overlong'
  <2>1. pc[u] = "stopping" /\ overlong' = overlong
    BY <1>5 DEF SelfStopEnd
  <2> QED BY <2>1 DEF LongIsSeen
<1>6. CASE \E u \in Tasks : SelfStopBegin(u)
  BY <1>6 DEF SelfStopBegin
<1>7. ASSUME NEW u \in Tasks, NEW d \in Durations, Fire(u, d)
      PROVE  overlong'
  <2>1. /\ pc'[t] = "callback" \/ pc'[t] = pc[t]
        /\ ran'[t] = d \/ ran'[t] = ran[t]
        /\ overlong' = (overlong \/ d >= StopWait)
    BY <1>7 DEF Fire, Types, TypeOK
  <2> QED BY <1>1, <2>1
<1>8. ASSUME NEW u \in Tasks,
             Leave(u) \/ \E e \in Entries : \E p \in Periods : Start(e, u, p)
      PROVE  overlong'
  <2>1. /\ pc'[t] \in {"none", "top"} \/ pc'[t] = pc[t]
        /\ ran'[t] = 0 \/ ran'[t] = ran[t]
        /\ overlong' = overlong
    BY <1>8 DEF Leave, Start, Types, TypeOK
  <2> QED BY <1>1, <2>1, TimesAreNumbers
<1>9. CASE \E u \in Tasks : Expire(u)
  <2>1. /\ pc'[t] = "top" \/ pc'[t] = pc[t]
        /\ ran' = ran /\ overlong' = overlong
    BY <1>9 DEF Expire, histVars, Types, TypeOK
  <2> QED BY <1>1, <2>1
<1>10. CASE Tick \/ UNCHANGED vars
  BY <1>1, <1>10 DEF Tick, vars, taskVars, histVars
<1> QED BY <1>2, <1>3, <1>4, <1>5, <1>6, <1>7, <1>8, <1>9, <1>10 DEF Next, Calls, TaskStep

\* no callback is forgotten
LEMMA OverlongStays ==
  ASSUME [Next]_vars, overlong
  PROVE  overlong'
BY DEF Next, Calls, TaskStep, vars, histVars, StopEnd, StopBegin, ChangePeriod, Start, Leave,
       FireNothing, Return, Expire, SelfStopBegin, SelfStopEnd, Fire, Tick

\* the history knows of every long callback
LEMMA LongIsSeenNext == Inv /\ LongIsSeen /\ [Next]_vars => LongIsSeen'
<1> SUFFICES ASSUME Inv, LongIsSeen, [Next]_vars
             PROVE  LongIsSeen'
  OBVIOUS
<1>1. \A t \in Tasks : pc'[t] = "stopping" \/ ran'[t] >= StopWait => overlong'
  BY CallbacksAreSeen DEF Inv
<1>2. ASSUME gaveUp' PROVE overlong'
  <2>1. overlong
    BY <1>2, LongGivesUp DEF LongIsSeen, Live
  <2> QED BY <2>1, OverlongStays
<1> QED BY <1>1, <1>2 DEF LongIsSeen

\* While every callback is shorter than a stop waits and none stops its own entry,
\* wink_periodic_stop never gives an entry back while its task can still run, and no
\* entry is served by two tasks, for any periods, durations and length of the wait.
THEOREM StopWaitsForTask == Spec => []HandshakeDeletesTask
<1>1. Init => LongIsSeen
  BY TimesAreNumbers DEF Init, LongIsSeen
<1>2. Inv /\ LongIsSeen => HandshakeDeletesTask
  BY DEF Inv, Orderly, LongIsSeen, HandshakeDeletesTask
<1> QED BY <1>1, <1>2, InvInit, InvNext, LongIsSeenNext, PTL DEF Spec

\* A stop gives up only on a callback that blocks at least as long as the stop waits,
\* or on one that stops itself.
THEOREM OnlyLongIsGivenUp == Spec => GivesUpOnlyOnLong
BY LongGivesUp, InvInit, InvNext, PTL DEF Spec, GivesUpOnlyOnLong

\* Callbacks begin at most one period apart unless one overran, and never closer than
\* the period less the retry sleep, however long they take.
THEOREM ScheduleIsKept == Spec => NoDriftNoBurst
<1>1. ASSUME Inv, [Next]_vars, NEW t \in Tasks, pc[t] = "top", pc'[t] = "callback",
             ~gaveUp, ~changed[entry[t]], since[t] < Long
      PROVE  /\ since[t] >= period[entry[t]] - 1
             /\ ran[t] < period[entry[t]] => since[t] <= period[entry[t]]
  <2>1. ~stopReq[entry[t]]
    <3>1. CASE \E u \in Tasks : \E d \in Durations : Fire(u, d)
      BY <1>1, <3>1 DEF Fire, Inv, Types, TypeOK
    <3>2. CASE \E u \in Tasks : FireNothing(u) \/ Return(u)
      <4>1. PICK u \in Tasks : Rest(u, anchor[u] + period[entry[u]])
        BY <3>2 DEF FireNothing, Return
      <4> QED BY <1>1, <4>1, NextIsInt, RestType DEF Inv
    <3>3. CASE \E u \in Tasks : SelfStopBegin(u)
      <4>1. PICK u \in Tasks : SelfStopBegin(u)
        BY <3>3
      <4>2. PICK pcs \in [Tasks -> Points] :
              GiveWake(entry[u], pcs) /\ pc' = [pcs EXCEPT ![u] = "stopping"]
        BY <4>1 DEF SelfStopBegin
      <4> QED BY <1>1, <4>2, WakeMoves, NextIsInt DEF Inv
    <3>4. CASE \E e \in Entries : StopBegin(e) \/ \E p \in Periods : ChangePeriod(e, p)
      <4>1. PICK e \in Entries : GiveWake(e, pc')
        BY <3>4 DEF StopBegin, ChangePeriod
      <4> QED BY <1>1, <4>1, WakeMoves DEF Inv
    <3>5. CASE StopEnd \/ \E u \in Tasks : SelfStopEnd(u)
      <4>1. pc \in [Tasks -> Points]
        BY <1>1 DEF Inv, Types, TypeOK
      <4>2. ASSUME NEW e PROVE Abandoned(e)[t] # "callback"
        BY <1>1 DEF Abandoned
      <4>3. ~StopEnd
        BY <1>1, <4>2 DEF StopEnd
      <4>4. ASSUME NEW u \in Tasks PROVE ~SelfStopEnd(u)
        <5> SUFFICES ASSUME SelfStopEnd(u) PROVE FALSE
          OBVIOUS
        <5>1. pc' = [Abandoned(entry[u]) EXCEPT ![u] = "sleeping"]
          BY DEF SelfStopEnd
        <5>2. Abandoned(entry[u]) \in [Tasks -> {Abandoned(entry[u])[x] : x \in Tasks}]
          BY DEF Abandoned
        <5>3. pc'[t] = IF t = u THEN "sleeping" ELSE Abandoned(entry[u])[t]
          BY <5>1, <5>2
        <5> QED BY <1>1, <4>2, <5>3
      <4> QED BY <3>5, <4>3, <4>4
    <3>6. CASE \E u \in Tasks : \/ Leave(u) \/ Expire(u)
                                \/ \E e \in Entries : \E p \in Periods : Start(e, u, p)
      BY <1>1, <3>6 DEF Leave, Expire, Start, Inv, Types, TypeOK
    <3>7. CASE Tick \/ UNCHANGED vars
      BY <1>1, <3>7 DEF Tick, vars, taskVars
    <3> QED BY <1>1, <3>1, <3>2, <3>3, <3>4, <3>5, <3>6, <3>7 DEF Next, Calls, TaskStep
  <2>2. OnSchedule(t) /\ since[t] \in Nat /\ Long \in Nat
    BY <1>1, LongIsLonger, ScheduleTypes DEF Inv, Orderly, Scheduled, Live
  <2> QED BY <1>1, <2>1, <2>2 DEF OnSchedule, Spaced
<1>2. Inv /\ [Next]_vars =>
        [\A t \in Tasks :
           LET e == entry[t] IN
           /\ pc[t] = "top" /\ pc'[t] = "callback"
           /\ ~gaveUp /\ ~changed[e] /\ since[t] < Long
           => /\ since[t] >= period[e] - 1
              /\ ran[t] < period[e] => since[t] <= period[e]]_vars
  BY <1>1
<1> QED BY <1>2, InvInit, InvNext, PTL DEF Spec, NoDriftNoBurst
=============================================================================
