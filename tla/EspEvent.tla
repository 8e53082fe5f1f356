------------------------------ MODULE EspEvent ------------------------------
(***************************************************************************)
(* The default event loop of the ESP-IDF layer: a bounded queue of posted  *)
(* events, a semaphore that counts them, and two tasks that take events:   *)
(* the loop's own task and an application that runs whatever is pending    *)
(* (SNTP does, while it waits for a sync).  A handler may block, so both   *)
(* may be inside handlers at the same time.                                *)
(*                                                                         *)
(* What a handler does belongs to the modules that extend this one, which  *)
(* have one handler here.                                                  *)
(***************************************************************************)
EXTENDS Naturals, Sequences, FiniteSets

CONSTANTS QueueCapacity   \* slots of the queue

ASSUME QueueAssumption == QueueCapacity \in Nat \ {0}

VARIABLES
    queue,   \* events posted and not yet taken
    sem,     \* count of the loop's semaphore
    job      \* per task, the calls for the event in hand that have not returned

loopVars == <<queue, sem, job>>

Runners == {"sys_evt", "app"}

LoopInit ==
    /\ queue = <<>>
    /\ sem = 0
    /\ job = [r \in Runners |-> 0]

\* Events posted in one step: what does not fit is dropped, whatever the time-out.
Accepted(evs) ==
    LET room == QueueCapacity - Len(queue)
    IN  SubSeq(evs, 1, IF Len(evs) > room THEN room ELSE Len(evs))

\* mutant: only the first event of an empty queue gives the semaphore
PostedToEmpty(evs) ==
    /\ queue' = queue \o Accepted(evs)
    /\ sem' = IF queue = <<>> /\ evs # <<>> /\ sem < QueueCapacity THEN sem + 1 ELSE sem

\* Each event accepted gives the semaphore, which is full at the queue's capacity.
Posted(evs) ==
    LET given == sem + Len(Accepted(evs))
    IN  /\ queue' = queue \o Accepted(evs)
        /\ sem' = IF given > QueueCapacity THEN QueueCapacity ELSE given

\* A task without a handler to return from takes an event.  The loop's own task
\* waits for the semaphore and may find that the application has been faster.
MayTake(r) ==
    /\ job[r] = 0
    /\ IF r = "sys_evt" THEN sem > 0 ELSE queue # <<>>

\* The application takes the semaphore if it can, and leaves it alone while the
\* loop's own task is inside a handler.
SemAfter(r) ==
    IF sem > 0 /\ (r = "sys_evt" \/ job["sys_evt"] = 0) THEN sem - 1 ELSE sem

\* A call returns, and the task makes the next one or is done with the event.
Continue(r) ==
    /\ job[r] > 0
    /\ job' = [job EXCEPT ![r] = @ - 1]
    /\ UNCHANGED <<queue, sem>>
=============================================================================
