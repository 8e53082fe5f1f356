----------------------------- MODULE MqttClient -----------------------------
(***************************************************************************)
(* The simulated MQTT client of the ESP-IDF layer on the default event     *)
(* loop: client slots, connecting by a delayed work item of the timer      *)
(* daemon, the network broker that tells clients of interfaces coming and  *)
(* going, the subscription table, and the pump that hands events to the    *)
(* application's callbacks.                                                *)
(*                                                                         *)
(* Tasks are fibers and no call of the client blocks, so a call is one     *)
(* action.  Calls come from any task and from callbacks at any time, by    *)
(* owners of a handle that has not been destroyed.                         *)
(***************************************************************************)
EXTENDS EspEvent, FiniteSetsExt

CONSTANTS
    MaxClients,    \* client slots
    MaxSubs,       \* slots of the subscription table
    Netifs, Sta,   \* network interfaces, and the one meant when none is named
    Filters,       \* topic filters: sequences of levels
    Topics,        \* topics: sequences of levels
    Configs,       \* what a configuration may name as callbacks: {} or {"config"}
    PostResults,   \* whether a work item is accepted: a subset of BOOLEAN
    Rebinding,     \* whether a started client may be bound to another interface
    MaxToken       \* bound: how often a client's token is renewed

ASSUME ClientAssumption ==
    /\ MaxClients \in Nat \ {0}
    /\ MaxSubs \in Nat
    /\ Sta \in Netifs
    /\ Configs \subseteq SUBSET {"config"}
    /\ PostResults \subseteq BOOLEAN
    /\ Rebinding \in BOOLEAN
    /\ MaxToken \in Nat

VARIABLES
    client,         \* s_clients
    global_token,   \* s_global_mqtt_token
    subs,           \* s_subscriptions
    pending,        \* connect work items the timer daemon holds
    up,             \* the broker's readiness per interface
    \* histories
    born,           \* the first token of the client in a slot
    heard,          \* the last connection event a client's first callback was given
    asked,          \* the filters a client has ever subscribed
    off             \* a connection that nobody is to bring back

clientVars == <<client, global_token, subs, pending, up, born, heard, asked, off>>
vars == <<loopVars, clientVars>>

Slots == 1..MaxClients
SubSlots == 1..MaxSubs
Callbacks == {"registered", "config"}

Zero == [initialized |-> FALSE, started |-> FALSE, connected |-> FALSE,
         token |-> 0, work |-> 0, netif |-> Sta, cb |-> {}]
NoSub == [client |-> 0, filter |-> <<>>]

Init ==
    /\ LoopInit
    /\ client = [c \in Slots |-> Zero]
    /\ global_token = 0
    /\ subs = [i \in SubSlots |-> NoSub]
    /\ pending = {}
    /\ up = [n \in Netifs |-> FALSE]
    /\ born = [c \in Slots |-> 0]
    /\ heard = [c \in Slots |-> "nothing"]
    /\ asked = [c \in Slots |-> {}]
    /\ off = [c \in Slots |-> FALSE]

-----------------------------------------------------------------------------
(* Helpers *)

\* The numbers in S, the smallest first: a scan over a table by index.
InOrder(S) ==
    CHOOSE o \in [1..Cardinality(S) -> S] :
        \A i, j \in 1..Cardinality(S) : i < j => o[i] < o[j]

\* Filter against topic, level by level.  "#" closes a filter and stands for any
\* rest, the empty one only where no "+" comes before it.
TopicMatch(f, t) ==
    LET n == Len(f)
        Agree(m) == m <= Len(t) /\ \A i \in 1..m : f[i] # "#" /\ f[i] \in {"+", t[i]}
    IN  \/ Len(t) = n /\ Agree(n)
        \/ /\ n > 0
           /\ f[n] = "#"
           /\ Agree(n - 1)
           /\ Len(t) = n - 1 /\ n > 1 => f[n - 1] # "+"

\* An event of client c, whose record is rec, with what the pump needs of it.  A
\* NOTICE is an ERROR, SUBSCRIBED, UNSUBSCRIBED or PUBLISHED.
Envelope(c, rec, id, of) ==
    [slot |-> c, token |-> rec.token, born |-> born[c],
     id |-> id, of |-> of, cb |-> rec.cb]

\* Generations of work items do not repeat: a number past every one still in use.
FreshWork == 1 + Max({w.id : w \in pending} \union {client[c].work : c \in Slots})

\* The items left when those of the clients in cs are cancelled.
Uncancelled(cs) == {w \in pending : \A c \in cs : client[c].work # w.id}

\* mutant: the new items are asked for first, and the ids to cancel are theirs
CancelledTooLate(cs, items) == pending

\* The items the daemon holds once those of the clients in cs are replaced.
Replaced(cs, items) == Uncancelled(cs) \union items

\* A client's record with a work item asked for, and the item if it was accepted.
Asking(rec, n, ok) == [rec EXCEPT !.work = IF ok THEN n ELSE 0]
Item(rec, n, ok) == IF ok THEN {[id |-> n, token |-> rec.token]} ELSE {}

\* The callback that is called first.
First(c) == IF "registered" \in client[c].cb THEN "registered" ELSE "config"

Renewal == global_token < MaxToken

-----------------------------------------------------------------------------
(* Life cycle *)

ClientInit(c, n, cb) ==
    /\ Renewal
    /\ ~client[c].initialized
    /\ \A d \in 1..(c - 1) : client[d].initialized
    /\ global_token' = global_token + 1
    /\ client' = [client EXCEPT ![c] = [Zero EXCEPT !.initialized = TRUE, !.netif = n,
                                                    !.token = global_token + 1, !.cb = cb]]
    /\ born' = [born EXCEPT ![c] = global_token + 1]
    /\ heard' = [heard EXCEPT ![c] = "nothing"]
    /\ asked' = [asked EXCEPT ![c] = {}]
    /\ off' = [off EXCEPT ![c] = FALSE]
    /\ UNCHANGED <<subs, pending, up, loopVars>>

RegisterEvent(c) ==
    /\ client[c].initialized
    /\ client' = [client EXCEPT ![c].cb = @ \union {"registered"}]
    /\ heard' = IF "registered" \in client[c].cb THEN heard ELSE [heard EXCEPT ![c] = "nothing"]
    /\ UNCHANGED <<global_token, subs, pending, up, born, asked, off, loopVars>>

SetNetif(c, n) ==
    /\ client[c].initialized
    /\ client[c].started => Rebinding
    /\ client' = [client EXCEPT ![c].netif = n]
    /\ UNCHANGED <<global_token, subs, pending, up, born, heard, asked, off, loopVars>>

\* A refused work item takes the start back.
Start(c, ok) ==
    /\ Renewal
    /\ client[c].initialized /\ ~client[c].started
    /\ LET rec == [client[c] EXCEPT !.started = ok, !.token = global_token + 1]
           n == FreshWork
       IN  /\ client' = [client EXCEPT ![c] = Asking(rec, n, ok)]
           /\ pending' = Replaced({c}, Item(rec, n, ok))
    /\ global_token' = global_token + 1
    /\ off' = [off EXCEPT ![c] = FALSE]
    /\ UNCHANGED <<subs, up, born, heard, asked, loopVars>>

\* The record of a client stopped now, and what the application is told of it.
Stopped(c) == [client[c] EXCEPT !.token = global_token + 1, !.work = 0,
                                !.started = FALSE, !.connected = FALSE]

\* mutant: the event is posted before the token is renewed
FarewellTooEarly(c) ==
    IF client[c].connected THEN <<Envelope(c, client[c], "DISCONNECTED", <<>>)>> ELSE <<>>

Farewell(c) ==
    IF client[c].connected THEN <<Envelope(c, Stopped(c), "DISCONNECTED", <<>>)>> ELSE <<>>

Stop(c) ==
    /\ Renewal
    /\ client[c].initialized
    /\ client' = [client EXCEPT ![c] = Stopped(c)]
    /\ pending' = Uncancelled({c})
    /\ global_token' = global_token + 1
    /\ Posted(Farewell(c))
    /\ UNCHANGED job
    /\ UNCHANGED <<subs, up, born, heard, asked, off>>

\* The event goes out under the old token, so the renewal that follows discards it.
Reconnect(c, ok) ==
    /\ Renewal
    /\ client[c].initialized
    /\ Posted(<<Envelope(c, client[c], "DISCONNECTED", <<>>)>>)
    /\ LET rec == [client[c] EXCEPT !.connected = FALSE, !.started = ok,
                                    !.token = global_token + 1]
           n == FreshWork
       IN  /\ client' = [client EXCEPT ![c] = Asking(rec, n, ok)]
           /\ pending' = Replaced({c}, Item(rec, n, ok))
    /\ global_token' = global_token + 1
    /\ off' = [off EXCEPT ![c] = ~ok]
    /\ UNCHANGED job
    /\ UNCHANGED <<subs, up, born, heard, asked>>

\* A pending connect and the start stay as they are.
Disconnect(c) ==
    /\ client[c].initialized /\ client[c].connected
    /\ client' = [client EXCEPT ![c].connected = FALSE]
    /\ Posted(<<Envelope(c, client[c], "DISCONNECTED", <<>>)>>)
    /\ off' = [off EXCEPT ![c] = TRUE]
    /\ UNCHANGED job
    /\ UNCHANGED <<global_token, subs, pending, up, born, heard, asked>>

\* mutant: the subscriptions of a destroyed client stay
SubsWithout0(c) == subs

SubsWithout(c) == [i \in SubSlots |-> IF subs[i].client = c THEN NoSub ELSE subs[i]]

Destroy(c) ==
    /\ Renewal
    /\ client[c].initialized
    /\ Posted(Farewell(c) \o <<Envelope(c, Stopped(c), "DELETED", <<>>)>>)
    /\ client' = [client EXCEPT ![c] = Zero]
    /\ pending' = Uncancelled({c})
    /\ subs' = SubsWithout(c)
    /\ global_token' = global_token + 1
    /\ UNCHANGED job
    /\ UNCHANGED <<up, born, heard, asked, off>>

-----------------------------------------------------------------------------
(* Network and connecting *)

Loss(c, rec) == <<Envelope(c, rec, "NOTICE", <<>>), Envelope(c, rec, "DISCONNECTED", <<>>)>>

\* What the clients in cs post, in the order of their slots: two events each.
Losses(cs) ==
    [k \in 1..(2 * Cardinality(cs)) |->
        LET c == InOrder(cs)[(k + 1) \div 2] IN Loss(c, client[c])[2 - (k % 2)]]

NetDown(n) ==
    LET hit == {c \in Slots : /\ client[c].initialized /\ client[c].netif = n
                              /\ client[c].started /\ client[c].connected}
    IN  /\ up' = [up EXCEPT ![n] = FALSE]
        /\ client' = [c \in Slots |->
                        IF c \in hit THEN [client[c] EXCEPT !.connected = FALSE] ELSE client[c]]
        /\ Posted(Losses(hit))
        /\ UNCHANGED job
        /\ UNCHANGED <<global_token, subs, pending, born, heard, asked, off>>

\* One client at a time gets its answer, so a refusal of one item touches one client.
NetUp(n, ok) ==
    LET hit == {c \in Slots : /\ client[c].initialized /\ client[c].netif = n
                              /\ client[c].started /\ ~client[c].connected}
        rank(c) == Cardinality({d \in hit : d <= c})
        token(c) == global_token + rank(c)
        id(c) == FreshWork + rank(c) - 1
        rec(c) == [client[c] EXCEPT !.token = token(c)]
    IN  /\ global_token + Cardinality(hit) <= MaxToken
        /\ up' = [up EXCEPT ![n] = TRUE]
        /\ client' = [c \in Slots |->
                        IF c \in hit THEN Asking(rec(c), id(c), ok[c]) ELSE client[c]]
        /\ pending' = Replaced(hit, UNION {Item(rec(c), id(c), ok[c]) : c \in hit})
        /\ global_token' = global_token + Cardinality(hit)
        /\ off' = [c \in Slots |-> IF c \in hit THEN ~ok[c] ELSE off[c]]
        /\ UNCHANGED <<subs, born, heard, asked, loopVars>>

\* The daemon runs a connect item that is due; it finds its client by the token.
ConnectWork(w) ==
    /\ w \in pending
    /\ pending' = pending \ {w}
    /\ LET mine == {c \in Slots : client[c].initialized /\ client[c].token = w.token}
       IN  IF mine = {} \/ ~client[Min(mine)].started
           THEN UNCHANGED <<client, queue, sem>>
           ELSE LET c == Min(mine)
                    ready == up[client[c].netif]
                    rec == [client[c] EXCEPT !.work = 0, !.connected = ready]
                IN  /\ client' = [client EXCEPT ![c] = rec]
                    /\ Posted(IF ready THEN <<Envelope(c, rec, "CONNECTED", <<>>)>>
                                       ELSE Loss(c, rec))
    /\ UNCHANGED job
    /\ UNCHANGED <<global_token, subs, up, born, heard, asked, off>>

-----------------------------------------------------------------------------
(* Messages *)

Subscribed(c, f) == \E i \in SubSlots : subs[i] = [client |-> c, filter |-> f]

\* A filter already there only changes its QoS; a full table refuses.
Subscribe(c, f) ==
    /\ client[c].initialized
    /\ IF Subscribed(c, f)
       THEN UNCHANGED subs
       ELSE \E i \in SubSlots :
               /\ subs[i] = NoSub
               /\ \A j \in 1..(i - 1) : subs[j] # NoSub
               /\ subs' = [subs EXCEPT ![i] = [client |-> c, filter |-> f]]
    /\ Posted(<<Envelope(c, client[c], "NOTICE", <<>>)>>)
    /\ asked' = [asked EXCEPT ![c] = @ \union {f}]
    /\ UNCHANGED job
    /\ UNCHANGED <<client, global_token, pending, up, born, heard, off>>

Unsubscribe(c, f) ==
    /\ client[c].initialized
    /\ Subscribed(c, f)
    /\ subs' = [i \in SubSlots |->
                  IF subs[i] = [client |-> c, filter |-> f] THEN NoSub ELSE subs[i]]
    /\ Posted(<<Envelope(c, client[c], "NOTICE", <<>>)>>)
    /\ UNCHANGED job
    /\ UNCHANGED <<client, global_token, pending, up, born, heard, asked, off>>

\* A message on topic t goes to every matching subscription of a connected client.
DataFor(t) ==
    LET hit == {i \in SubSlots : /\ subs[i] # NoSub
                                 /\ TopicMatch(subs[i].filter, t)
                                 /\ client[subs[i].client].connected}
        to(j) == subs[InOrder(hit)[j]].client
    IN  [j \in 1..Cardinality(hit) |-> Envelope(to(j), client[to(j)], "DATA", t)]

\* With a QoS above 0 the publisher is told, too.
Publish(c, t, confirmed) ==
    /\ client[c].started /\ client[c].connected
    /\ Posted(DataFor(t) \o
              IF confirmed THEN <<Envelope(c, client[c], "NOTICE", <<>>)>> ELSE <<>>)
    /\ UNCHANGED job
    /\ UNCHANGED clientVars

\* A message from outside.
Inject(t) ==
    /\ DataFor(t) # <<>>
    /\ Posted(DataFor(t))
    /\ UNCHANGED job
    /\ UNCHANGED clientVars

-----------------------------------------------------------------------------
(* Handing events to the application *)

\* mutant: the pump trusts the slot
LivesInSlot(ev) == client[ev.slot].initialized

\* The pump passes on what the client of today has posted, and every farewell.
Lives(ev) ==
    \/ ev.id = "DELETED"
    \/ client[ev.slot].initialized /\ client[ev.slot].token = ev.token

\* The callbacks an envelope names, the registered one first.
UserCalls(ev) ==
    (IF "registered" \in ev.cb THEN <<"registered">> ELSE <<>>) \o
    (IF "config" \in ev.cb THEN <<"config">> ELSE <<>>)

\* The calls a task makes for an event it takes: the pump checks it and calls the
\* callbacks.
CallsFor(ev) == IF Lives(ev) THEN UserCalls(ev) ELSE <<>>

\* What the client's first callback learns from these calls for ev.
Heard(ev, calls) ==
    IF /\ ev.id \in {"CONNECTED", "DISCONNECTED"} /\ ev.born = born[ev.slot]
       /\ calls # <<>> /\ Head(calls) = First(ev.slot)
    THEN [heard EXCEPT ![ev.slot] = ev.id] ELSE heard

\* A task takes an event and makes its first call.
Take(r) ==
    /\ MayTake(r)
    /\ sem' = SemAfter(r)
    /\ IF queue = <<>>
       THEN UNCHANGED <<queue, job, heard>>
       ELSE LET ev == Head(queue)
                calls == CallsFor(ev)
            IN  /\ queue' = Tail(queue)
                /\ job' = [job EXCEPT ![r] = Len(calls)]
                /\ heard' = Heard(ev, calls)
    /\ UNCHANGED <<client, global_token, subs, pending, up, born, asked, off>>

\* The callback a task is in returns, and the task calls the next one.
CallReturns(r) == Continue(r) /\ UNCHANGED clientVars

-----------------------------------------------------------------------------
LifeCycle ==
    \E c \in Slots :
       \/ \E n \in Netifs, cb \in Configs : ClientInit(c, n, cb)
       \/ RegisterEvent(c)
       \/ \E n \in Netifs : SetNetif(c, n)
       \/ \E ok \in PostResults : Start(c, ok) \/ Reconnect(c, ok)
       \/ Stop(c) \/ Disconnect(c) \/ Destroy(c)

Network == \E n \in Netifs : NetDown(n) \/ \E ok \in [Slots -> PostResults] : NetUp(n, ok)

Messages ==
    \/ \E c \in Slots :
          \/ \E f \in Filters : Subscribe(c, f) \/ Unsubscribe(c, f)
          \/ \E t \in Topics, confirmed \in BOOLEAN : Publish(c, t, confirmed)
    \/ \E t \in Topics : Inject(t)

Daemon(c) == \E w \in pending : w.token = client[c].token /\ ConnectWork(w)

Next ==
    \/ LifeCycle \/ Network \/ Messages
    \/ \E w \in pending : ConnectWork(w)
    \/ \E r \in Runners : Take(r) \/ CallReturns(r)

Spec == Init /\ [][Next]_vars

\* The timer daemon runs the items that are due.
Fairness == \A c \in Slots : WF_vars(Daemon(c))

FairSpec == Spec /\ Fairness

-----------------------------------------------------------------------------
(* Properties *)

Client ==
    [initialized : BOOLEAN, started : BOOLEAN, connected : BOOLEAN, token : 0..MaxToken,
     work : Nat, netif : Netifs, cb : SUBSET Callbacks]

Event ==
    [slot : Slots, token : 0..MaxToken, born : 0..MaxToken,
     id : {"CONNECTED", "DISCONNECTED", "DELETED", "DATA", "NOTICE"},
     of : Topics \union {<<>>}, cb : SUBSET Callbacks]

\* Types of the variables.
TypeOK ==
    /\ queue \in Seq(Event) /\ Len(queue) <= QueueCapacity
    /\ sem \in 0..QueueCapacity
    /\ job \in [Runners -> 0..2]
    /\ client \in [Slots -> Client]
    /\ global_token \in 0..MaxToken
    /\ subs \in [SubSlots -> [client : 0..MaxClients, filter : Filters \union {<<>>}]]
    /\ pending \subseteq [id : Nat, token : 1..MaxToken] /\ IsFiniteSet(pending)
    /\ up \in [Netifs -> BOOLEAN]
    /\ born \in [Slots -> 0..MaxToken]
    /\ heard \in [Slots -> {"nothing", "CONNECTED", "DISCONNECTED"}]
    /\ asked \in [Slots -> SUBSET Filters]
    /\ off \in [Slots -> BOOLEAN]

\* No event waits in the queue without a count of the semaphore to wake the loop
\* for it, although the application takes events past the semaphore.
LoopIsAwake == Len(queue) <= sem

\* An event that the pump hands to a client is of the client that lives in the slot
\* today, never of one destroyed before it, unless it is the farewell of one; and a
\* message is on a topic for which this client has subscribed.
DeliveriesAreDue ==
    queue # <<>> =>
      LET ev == Head(queue)
      IN  (CallsFor(ev) # <<>> /\ ev.id # "DELETED") =>
             /\ client[ev.slot].initialized /\ ev.born = born[ev.slot]
             /\ ev.id = "DATA" => \E f \in asked[ev.slot] : TopicMatch(f, ev.of)

\* Whether ev is a connection event for the first callback of client c.
IsWord(c, ev) ==
    /\ ev.slot = c /\ ev.token = client[c].token
    /\ First(c) \in ev.cb
    /\ ev.id \in {"CONNECTED", "DISCONNECTED"}

\* Where such events wait.
Words(c) == {i \in DOMAIN queue : IsWord(c, queue[i])}

\* What the callback will have heard last once the queue is empty.
LastWord(c) == IF Words(c) = {} THEN heard[c] ELSE queue[Max(Words(c))].id

Right(c) == First(c) \in client[c].cb => (LastWord(c) = "CONNECTED" <=> client[c].connected)

\* Why it may be wrong after a step: the loop's queue has no room for all that is
\* posted (a loss of the network posts two events per client), the application
\* reconnects, or a client that is down has its token renewed with the news still on
\* its way.
Excuse(c) ==
    \/ Len(queue) > QueueCapacity - 2 * MaxClients /\ Len(queue') = QueueCapacity
    \/ \E ok \in PostResults : Reconnect(c, ok)
    \/ /\ ~client[c].connected
       /\ client'[c].token # client[c].token
       /\ Words(c) # {}

\* A callback that will have heard the truth about its connection goes on to, unless
\* there is an excuse.
TruthIsTold ==
    [][\A c \in Slots :
          (Right(c) /\ client'[c].cb = client[c].cb /\ ~Right(c)') => Excuse(c)]_vars

\* A started client on an interface that stays up is connected again, whatever came
\* in between, unless the application has disconnected it or the daemon had no room.
ComesBack ==
    \A c \in Slots :
       (client[c].started /\ up[client[c].netif] /\ ~off[c]) ~>
          (client[c].connected \/ ~client[c].started \/ ~up[client[c].netif] \/ off[c])
=============================================================================
