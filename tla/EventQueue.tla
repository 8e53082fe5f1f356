------------------------------ MODULE EventQueue ------------------------------
(***************************************************************************)
(* The global event queue: runtime/src/wink_event.c over the ring buffer   *)
(* and the binary semaphore of a target.  Target "sim" is host and WASM    *)
(* (osal/common/pal_osal_ringbuf.c, hand-off semaphore): an actor that is  *)
(* inside a call runs alone until it blocks.  Target "esp32" is FreeRTOS   *)
(* (osal/freertos_esp32): actors interleave between any two OSAL calls.    *)
(*                                                                         *)
(* A producer posts events of one device, numbered in the order they are   *)
(* accepted; Coalescing producers post WINK_EVENT_DISTANCE_READY.  A post  *)
(* to a full queue is refused and changes nothing.  The byte ring of       *)
(* the ESP32 is taken not to wrap inside an event.                         *)
(***************************************************************************)
EXTENDS Naturals, Sequences, FiniteSets

CONSTANTS
  Target,      \* "sim" or "esp32"
  Producers,   \* tasks, soft timers and interrupt handlers that post
  Coalescing,  \* those whose events are coalesced
  Consumers,   \* tasks that pend
  Timed,       \* those that pend with a timeout, as the main loop does
  Capacity,    \* s_queue.capacity
  Ring,        \* events that fit into the ring, rounded up to a power of two
  MaxPosts     \* bound on the events of each producer

ASSUME QueueAssumption ==
  /\ Target \in {"sim", "esp32"}
  /\ Coalescing \subseteq Producers /\ Timed \subseteq Consumers
  /\ Producers \cap Consumers = {}
  /\ Capacity \in Nat \ {0} /\ Ring \in Nat /\ Ring >= Capacity
  /\ MaxPosts \in Nat

VARIABLES
  up,      \* s_queue.initialized
  queue,   \* the ring buffer
  token,   \* count of s_queue.sem
  line,    \* its waiters on the simulation targets, head first
  ppc,     \* where each producer is in wink_event_post
  cpc,     \* where each consumer is in wink_event_pend
  posted,  \* history: number of the last event accepted
  got      \* history: number of the last event delivered

vars == <<up, queue, token, line, ppc, cpc, posted, got>>

Event == [dev : Producers, no : 1 .. MaxPosts]

TypeOK ==
  /\ up \in BOOLEAN
  /\ queue \in Seq(Event) /\ Len(queue) <= Ring
  /\ token \in {0, 1}
  /\ line \in Seq(Consumers)
  /\ ppc \in [Producers -> {"idle", "push", "give"}]
  /\ cpc \in [Consumers -> {"idle", "take", "blocked", "woken", "expired",
                            "retry"}]
  /\ posted \in [Producers -> 0 .. MaxPosts]
  /\ got \in [Producers -> 0 .. MaxPosts]

Init ==
  /\ up = FALSE
  /\ queue = <<>>
  /\ token = 0
  /\ line = <<>>
  /\ ppc = [p \in Producers |-> "idle"]
  /\ cpc = [c \in Consumers |-> "idle"]
  /\ posted = [p \in Producers |-> 0]
  /\ got = [p \in Producers |-> 0]

\* an actor in the middle of a call, which a simulation target never preempts
MidCall(a) == \/ a \in Producers /\ ppc[a] # "idle"
              \/ a \in Consumers /\ cpc[a] \in {"take", "retry"}

Turn(a) == Target = "sim" => \A b \in (Producers \cup Consumers) \ {a} : ~MidCall(b)

Quiet == \A a \in Producers \cup Consumers : ~MidCall(a)

Goes(c, where) == cpc' = [cpc EXCEPT ![c] = where]

\* wink_event_queue_init; a second call changes nothing
QueueInit ==
  /\ ~up
  /\ up' = TRUE
  /\ UNCHANGED <<queue, token, line, ppc, cpc, posted, got>>

\* wink_event_queue_deinit, when nobody pends: what is queued is dropped
QueueDeinit ==
  /\ up /\ Quiet
  /\ \A c \in Consumers : cpc[c] = "idle"
  /\ up' = FALSE
  /\ queue' = <<>>
  /\ token' = 0
  /\ line' = <<>>
  /\ got' = posted
  /\ UNCHANGED <<ppc, cpc, posted>>

-----------------------------------------------------------------------------
(* wink_event_post.                                                        *)

Queued(p) == {i \in 1 .. Len(queue) : queue[i].dev = p}

\* mutant: the comparison stops before the device
CoalesceAnyDevice(p) ==
  /\ Target = "sim" /\ p \in Coalescing
  /\ up /\ Turn(p) /\ ppc[p] = "idle" /\ posted[p] < MaxPosts
  /\ \E i \in 1 .. Len(queue) :
       queue' = [queue EXCEPT ![i] = [dev |-> p, no |-> posted[p] + 1]]
  /\ posted' = [posted EXCEPT ![p] = @ + 1]
  /\ UNCHANGED <<up, token, line, ppc, cpc, got>>

\* pal_os_ringbuf_coalesce_event: the queued event is overwritten in place
Coalesce(p) ==
  /\ Target = "sim" /\ p \in Coalescing
  /\ up /\ Turn(p) /\ ppc[p] = "idle" /\ posted[p] < MaxPosts
  /\ \E i \in Queued(p) : queue' = [queue EXCEPT ![i].no = posted[p] + 1]
  /\ posted' = [posted EXCEPT ![p] = @ + 1]
  /\ UNCHANGED <<up, token, line, ppc, cpc, got>>

\* mutant: the check lets one event too many through
PostCheckLate(p) ==
  /\ up /\ Turn(p) /\ ppc[p] = "idle" /\ posted[p] < MaxPosts
  /\ Target = "sim" /\ p \in Coalescing => Queued(p) = {}
  /\ Len(queue) <= Capacity
  /\ ppc' = [ppc EXCEPT ![p] = "push"]
  /\ UNCHANGED <<up, queue, token, line, cpc, posted, got>>

\* the check against the logical capacity
PostCheck(p) ==
  /\ up /\ Turn(p) /\ ppc[p] = "idle" /\ posted[p] < MaxPosts
  /\ Target = "sim" /\ p \in Coalescing => Queued(p) = {}
  /\ Len(queue) < Capacity
  /\ ppc' = [ppc EXCEPT ![p] = "push"]
  /\ UNCHANGED <<up, queue, token, line, cpc, posted, got>>

\* pal_os_ringbuf_push
PostPush(p) ==
  /\ Turn(p) /\ ppc[p] = "push"
  /\ IF Len(queue) < Ring
     THEN /\ queue' = Append(queue, [dev |-> p, no |-> posted[p] + 1])
          /\ posted' = [posted EXCEPT ![p] = @ + 1]
          /\ ppc' = [ppc EXCEPT ![p] = "give"]
     ELSE /\ ppc' = [ppc EXCEPT ![p] = "idle"]
          /\ UNCHANGED <<queue, posted>>
  /\ UNCHANGED <<up, token, line, cpc, got>>

\* mutant: the semaphore counts
HandOffCounting ==
  IF line = <<>>
  THEN token' = token + 1 /\ UNCHANGED <<line, cpc>>
  ELSE /\ line' = Tail(line)
       /\ IF cpc[Head(line)] = "blocked" THEN Goes(Head(line), "woken")
          ELSE UNCHANGED cpc
       /\ UNCHANGED token

\* pal_os_sem_give on a simulation target: hand the token to the head of the
\* line, which ignores it when its timeout has fired
HandOff ==
  IF line = <<>>
  THEN token' = 1 /\ UNCHANGED <<line, cpc>>
  ELSE /\ line' = Tail(line)
       /\ IF cpc[Head(line)] = "blocked" THEN Goes(Head(line), "woken")
          ELSE UNCHANGED cpc
       /\ UNCHANGED token

\* xSemaphoreGive: refused when the token is there, else it wakes one waiter
Signal ==
  LET asleep == {c \in Consumers : cpc[c] = "blocked"} IN
  /\ token' = 1
  /\ IF token = 0 /\ asleep # {} THEN \E c \in asleep : Goes(c, "woken")
     ELSE UNCHANGED cpc
  /\ UNCHANGED line

PostGive(p) ==
  /\ Turn(p) /\ ppc[p] = "give"
  /\ IF Target = "sim" THEN HandOff ELSE Signal
  /\ ppc' = [ppc EXCEPT ![p] = "idle"]
  /\ UNCHANGED <<up, queue, posted, got>>

-----------------------------------------------------------------------------
(* wink_event_pend.                                                        *)

\* pal_os_ringbuf_pop; a pop that fails leaves the consumer at otherwise
Pop(c, otherwise) ==
  /\ IF queue # <<>> /\ (Target = "sim" \/ Len(queue) = 1)
     THEN /\ got' = [got EXCEPT ![Head(queue).dev] = Head(queue).no]
          /\ queue' = Tail(queue)
          /\ Goes(c, "idle")
     ELSE \* xRingbufferReceive returned nothing, or more than one event:
          \* these are handed back to the ring, that is, freed
          /\ queue' = <<>>
          /\ Goes(c, otherwise)
          /\ UNCHANGED got
  /\ UNCHANGED <<up, token, line, ppc, posted>>

\* mutant: pend waits for the semaphore without looking into the ring
PendOnToken(c) ==
  /\ up /\ Turn(c) /\ cpc[c] = "idle"
  /\ Goes(c, "take")
  /\ UNCHANGED <<up, queue, token, line, ppc, posted, got>>

\* the first pop; a pend with timeout 0 ends there
Pend(c)  == up /\ Turn(c) /\ cpc[c] = "idle" /\ Pop(c, "take")
Drain(c) == up /\ Turn(c) /\ cpc[c] = "idle" /\ Pop(c, "idle")

\* pal_os_sem_take
Take(c) ==
  /\ Turn(c) /\ cpc[c] = "take"
  /\ IF token = 1
     THEN token' = 0 /\ Goes(c, "retry") /\ UNCHANGED line
     ELSE /\ Goes(c, "blocked")
          /\ line' = IF Target = "sim" THEN Append(line, c) ELSE line
          /\ UNCHANGED token
  /\ UNCHANGED <<up, queue, ppc, posted, got>>

\* a woken consumer runs: it was handed the token, or has to try again
Wake(c) ==
  /\ Turn(c) /\ cpc[c] = "woken"
  /\ Goes(c, IF Target = "sim" THEN "retry" ELSE "take")
  /\ UNCHANGED <<up, queue, token, line, ppc, posted, got>>

\* the timeout fires; on a simulation target the consumer stays in line ...
Expire(c) ==
  /\ Target = "sim" => Quiet
  /\ c \in Timed /\ cpc[c] = "blocked"
  /\ Goes(c, IF Target = "sim" THEN "expired" ELSE "idle")
  /\ UNCHANGED <<up, queue, token, line, ppc, posted, got>>

\* hsq_remove: the wait ring closes the gap that entry i leaves; a consumer is in
\* line at most once
WithoutPlace(q, i) == [j \in 1 .. Len(q) - 1 |-> IF j < i THEN q[j] ELSE q[j + 1]]

\* ... until it runs and returns WINK_ERR_TIMEOUT
TimeOut(c) ==
  /\ Turn(c) /\ cpc[c] = "expired"
  /\ \/ \E i \in 1 .. Len(line) : line[i] = c /\ line' = WithoutPlace(line, i)
     \/ (\A i \in 1 .. Len(line) : line[i] # c) /\ UNCHANGED line
  /\ Goes(c, "idle")
  /\ UNCHANGED <<up, queue, token, ppc, posted, got>>

\* the pop after the wait: pend waits again, or its time is over
Retry(c) ==
  /\ Turn(c) /\ cpc[c] = "retry"
  /\ \/ Pop(c, "take")
     \/ c \in Timed /\ Pop(c, "idle")

-----------------------------------------------------------------------------
PostStep(p) == PostPush(p) \/ PostGive(p)

PendStep(c) == Pend(c) \/ Drain(c) \/ Take(c) \/ Wake(c) \/ Expire(c)
               \/ TimeOut(c) \/ Retry(c)

Next ==
  \/ QueueInit \/ QueueDeinit
  \/ \E p \in Producers : Coalesce(p) \/ PostCheck(p) \/ PostStep(p)
  \/ \E c \in Consumers : PendStep(c)

\* A call that has begun goes on, timeouts fire, and a consumer that is done
\* with an event pends again.
Fairness ==
  /\ \A p \in Producers : WF_vars(PostStep(p))
  /\ \A c \in Consumers : WF_vars(PendStep(c))

Spec == Init /\ [][Next]_vars
FairSpec == Spec /\ Fairness

-----------------------------------------------------------------------------
\* Consumers never all sleep while an event is queued: whatever wakeups were
\* stolen, swallowed by a timeout or left over from earlier events, somebody
\* is awake to find it.
NotAllAsleep ==
  queue # <<>> /\ Quiet => \E c \in Consumers : cpc[c] # "blocked"

\* Each device's events are delivered in the order they were accepted, each
\* one once and none skipped; of coalesced events the newest is delivered.
DeliveredInFull ==
  [][\A p \in Producers : up' /\ got'[p] # got[p] =>
       \/ got'[p] = got[p] + 1
       \/ p \in Coalescing /\ got'[p] > got[p]]_vars

Fifo == INSTANCE BoundedFifo WITH
  Devices <- Producers, Merged <- Coalescing,
  open <- up, items <- queue, last <- posted, dealt <- got

\* On the simulation targets the queue is a bounded FIFO, although the check for room
\* and the push are two calls on a ring that holds more, and coalescing and the wait
\* come in between: what the check has seen still holds at the push, and an event
\* leaves the queue only by being handed out.
IsBoundedFifo == Fifo!FifoSpec

\* An accepted event is delivered, or superseded by a newer one of its device.
EventIsDelivered ==
  \A p \in Producers : \A n \in 1 .. MaxPosts :
    (posted[p] = n) ~> (got[p] >= n)
=============================================================================
