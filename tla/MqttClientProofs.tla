-------------------------- MODULE MqttClientProofs --------------------------
(***************************************************************************)
(* Theorems about EspEvent and MqttClient, for any number of clients,      *)
(* subscriptions, interfaces and topics and every length of the queue.     *)
(*                                                                         *)
(* The argument: a token is never given twice, so an event that carries    *)
(* the token of a client in use was posted for it as it is now; and a step *)
(* that changes whether a client is connected either posts the event that  *)
(* says so as the last word, or finds the queue full, or renews the token. *)
(***************************************************************************)
EXTENDS MqttClient, SequenceTheorems, FiniteSetTheorems, WellFoundedInduction, TLAPS

USE QueueAssumption, ClientAssumption

-----------------------------------------------------------------------------
(* The inductive invariant.                                                *)

\* A record that is not in use is as it was at the start; nobody is connected
\* who is not started; and every token has been given.
ClientsOk ==
    \A c \in Slots :
       /\ ~client[c].initialized => client[c] = Zero
       /\ client[c].connected => client[c].started
       /\ client[c].token <= global_token

\* A row in use belongs to a client in use, which has asked for its filter.
SubsOk ==
    \A i \in SubSlots :
       \/ subs[i] = NoSub
       \/ /\ subs[i].client \in Slots
          /\ client[subs[i].client].initialized
          /\ subs[i].filter \in asked[subs[i].client]

\* An event under the token of the client in its slot is of that client, names no
\* callback that it has not, and is on a topic it has asked for.
Genuine(ev) ==
    (client[ev.slot].initialized /\ ev.token = client[ev.slot].token) =>
       /\ ev.born = born[ev.slot]
       /\ ev.cb \subseteq client[ev.slot].cb
       /\ ev.id = "DATA" => \E f \in asked[ev.slot] : TopicMatch(f, ev.of)

EventsOk ==
    \A i \in DOMAIN queue : queue[i].token <= global_token /\ Genuine(queue[i])

IInv == TypeOK /\ ClientsOk /\ SubsOk /\ EventsOk /\ LoopIsAwake

-----------------------------------------------------------------------------
(* Numbers, and the operators that choose.                                 *)

\* A set of numbers that is not empty has a least one.
LEMMA Least ==
  ASSUME NEW S, S \subseteq Nat, S # {}
  PROVE  \E x \in S : \A y \in S : x <= y
<1> DEFINE Less == {ss \in Nat \X Nat : ss[1] < ss[2]}
<1>1. IsWellFoundedOn(Less, Nat)
  BY NatLessThanWellFounded DEF OpToRel
<1>2. \A x, y \in Nat : x < y => <<x, y>> \in Less
  OBVIOUS
<1> HIDE DEF Less
<1>3. PICK x \in S : \A y \in S : ~(<<y, x>> \in Less)
  BY <1>1, WFMin
<1>4. \A y \in S : ~(y < x)
  BY <1>2, <1>3
<1> QED BY <1>4

LEMMA MinIsLeast ==
  ASSUME NEW S, S \subseteq Nat, S # {}
  PROVE  Min(S) \in S /\ \A y \in S : Min(S) <= y
<1>1. \E x \in S : \A y \in S : x =< y
  BY Least
<1> QED BY <1>1 DEF Min

\* One that is bounded as well has a greatest.
LEMMA MaxIsGreatest ==
  ASSUME NEW S, S \subseteq Nat, S # {}, NEW n \in Nat, \A x \in S : x <= n
  PROVE  Max(S) \in S /\ \A y \in S : y <= Max(S)
<1> DEFINE T == {k \in Nat : \E x \in S : k = n - x}
<1>1. T \subseteq Nat /\ T # {}
  <2>1. PICK x \in S : TRUE
    OBVIOUS
  <2>2. n - x \in T
    BY <2>1
  <2> QED BY <2>2
<1>2. PICK k \in T : \A m \in T : k <= m
  BY <1>1, Least
<1>3. PICK x \in S : k = n - x
  BY <1>2
<1>4. \A y \in S : x >= y
  <2> TAKE y \in S
  <2>1. n - y \in T
    OBVIOUS
  <2>2. k <= n - y
    BY <1>2, <2>1
  <2> QED BY <1>3, <2>2
<1> QED BY <1>3, <1>4 DEF Max

\* A finite set of numbers that is not empty has a greatest: if each had one above
\* it, stepping to the next would be an injection that misses the least.
LEMMA FiniteHasMax ==
  ASSUME NEW S, S \subseteq Nat, S # {}, IsFiniteSet(S)
  PROVE  Max(S) \in S /\ \A y \in S : y <= Max(S)
<1>1. \E x \in S : \A y \in S : x >= y
  <2> SUFFICES ASSUME \A x \in S : \E y \in S : x < y
               PROVE  FALSE
    BY SMT
  <2> DEFINE above(x) == {y \in S : x < y}
             next == [x \in S |-> Min(above(x))]
  <2>1. \A x \in S : /\ next[x] \in S /\ x < next[x]
                     /\ \A y \in S : x < y => next[x] <= y
    <3> TAKE x \in S
    <3>1. above(x) \subseteq Nat /\ above(x) # {}
      OBVIOUS
    <3>2. Min(above(x)) \in above(x) /\ \A y \in above(x) : Min(above(x)) <= y
      BY <3>1, MinIsLeast
    <3> QED BY <3>2
  <2>2. next \in [S -> S]
    BY <2>1
  <2> HIDE DEF next
  <2>3. \A x, y \in S : next[x] = next[y] => x = y
    <3> SUFFICES ASSUME NEW x \in S, NEW y \in S, next[x] = next[y], x < y
                 PROVE  FALSE
      BY SMT
    <3>1. next[x] <= y /\ y < next[y] /\ next[x] \in Nat /\ next[y] \in Nat
      BY <2>1
    <3> QED BY <3>1
  <2>4. next \in Injection(S, S)
    BY <2>2, <2>3 DEF Injection, IsInjective
  <2>5. next \in Surjection(S, S)
    BY <2>4, FS_Injection
  <2>6. PICK least \in S : \A y \in S : least <= y
    BY Least
  <2>7. PICK x \in S : next[x] = least
    BY <2>5 DEF Surjection
  <2> QED BY <2>1, <2>6, <2>7
<1> QED BY <1>1 DEF Max

\* The set of a function's values is finite if its domain is.
LEMMA ImageIsFinite ==
  ASSUME NEW S, IsFiniteSet(S), NEW f, DOMAIN f = S
  PROVE  IsFiniteSet({f[x] : x \in S})
<1> DEFINE T == {f[x] : x \in S}
           g == [x \in S |-> f[x]]
<1>1. g \in Surjection(S, T)
  BY DEF Surjection
<1> QED BY <1>1, FS_Surjection

\* What the scan in order is: every number once, each below the next.
LEMMA OrderExists ==
  ASSUME NEW S, S \subseteq Nat, IsFiniteSet(S)
  PROVE  \E o \in [1..Cardinality(S) -> S] :
            \A i, j \in 1..Cardinality(S) : i < j => o[i] < o[j]
<1> DEFINE n == Cardinality(S)
           upTo(x) == {y \in S : y <= x}
           rank == [x \in S |-> Cardinality(upTo(x))]
<1>1. n \in Nat
  BY FS_CardinalityType
<1>2. \A x \in S : rank[x] \in 1..n
  <2> TAKE x \in S
  <2>1. IsFiniteSet(upTo(x)) /\ Cardinality(upTo(x)) <= n
    BY FS_Subset
  <2>2. Cardinality(upTo(x)) \in Nat /\ Cardinality(upTo(x)) # 0
    <3>1. x \in upTo(x)
      OBVIOUS
    <3> QED BY <2>1, <3>1, FS_EmptySet, FS_CardinalityType
  <2> QED BY <1>1, <2>1, <2>2
<1>3. \A x, y \in S : x < y => rank[x] < rank[y]
  <2> SUFFICES ASSUME NEW x \in S, NEW y \in S, x < y
               PROVE  Cardinality(upTo(x)) < Cardinality(upTo(y))
    OBVIOUS
  <2>1. upTo(x) \in SUBSET upTo(y) /\ upTo(x) # upTo(y)
    <3>1. y \in upTo(y) /\ y \notin upTo(x)
      BY SMT
    <3>2. \A z \in upTo(x) : z \in upTo(y)
      BY SMT
    <3> QED BY <3>1, <3>2
  <2>2. IsFiniteSet(upTo(y))
    BY FS_Subset
  <2>3. /\ Cardinality(upTo(x)) <= Cardinality(upTo(y))
        /\ Cardinality(upTo(x)) # Cardinality(upTo(y))
        /\ IsFiniteSet(upTo(x))
    BY <2>1, <2>2, FS_Subset
  <2>4. Cardinality(upTo(x)) \in Nat /\ Cardinality(upTo(y)) \in Nat
    BY <2>2, <2>3, FS_CardinalityType
  <2> QED BY <2>3, <2>4
<1> HIDE DEF rank
<1>4. rank \in [S -> 1..n]
  BY <1>2 DEF rank
<1>5. \A x, y \in S : rank[x] = rank[y] => x = y
  <2> SUFFICES ASSUME NEW x \in S, NEW y \in S, rank[x] = rank[y], x < y
               PROVE  FALSE
    BY SMT
  <2>1. rank[x] \in Nat /\ rank[y] \in Nat
    BY <1>1, <1>2
  <2> QED BY <1>3, <2>1
<1>6. rank \in Surjection(S, 1..n)
  <2>1. rank \in Injection(S, 1..n)
    BY <1>4, <1>5 DEF Injection, IsInjective
  <2>2. IsFiniteSet(1..n) /\ Cardinality(1..n) = n
    BY <1>1, FS_Interval
  <2> QED BY <2>1, <2>2, FS_Injection
<1> DEFINE o == [i \in 1..n |-> CHOOSE x \in S : rank[x] = i]
<1>7. \A i \in 1..n : o[i] \in S /\ rank[o[i]] = i
  <2> TAKE i \in 1..n
  <2>1. \E x \in S : rank[x] = i
    BY <1>6 DEF Surjection
  <2> QED BY <2>1
<1> HIDE DEF o
<1>8. o \in [1..n -> S]
  BY <1>7 DEF o
<1>9. ASSUME NEW i \in 1..n, NEW j \in 1..n, i < j
      PROVE  o[i] < o[j]
  <2>1. o[i] \in Nat /\ o[j] \in Nat
    BY <1>7
  <2>2. o[i] # o[j] /\ ~(o[j] < o[i])
    <3>1. rank[o[i]] = i /\ rank[o[j]] = j
      BY <1>7
    <3>2. ~(j < i) /\ i # j
      BY <1>1, <1>9
    <3>3. o[j] < o[i] => rank[o[j]] < rank[o[i]]
      BY <1>3, <1>7, Zenon
    <3> QED BY <3>1, <3>2, <3>3, Zenon
  <2> QED BY <2>1, <2>2
<1> QED BY <1>8, <1>9

LEMMA InOrderIs ==
  ASSUME NEW S, S \subseteq Nat, IsFiniteSet(S)
  PROVE  /\ Cardinality(S) \in Nat
         /\ InOrder(S) \in [1..Cardinality(S) -> S]
         /\ \A x \in S : \E i \in 1..Cardinality(S) : InOrder(S)[i] = x
         /\ \A i, j \in 1..Cardinality(S) : InOrder(S)[i] = InOrder(S)[j] => i = j
<1> DEFINE n == Cardinality(S)
           o == InOrder(S)
<1>1. n \in Nat
  BY FS_CardinalityType
<1>2. o \in [1..n -> S] /\ \A i, j \in 1..n : i < j => o[i] < o[j]
  BY OrderExists DEF InOrder
<1> HIDE DEF o
<1>3. \A i, j \in 1..n : o[i] = o[j] => i = j
  <2> SUFFICES ASSUME NEW i \in 1..n, NEW j \in 1..n, o[i] = o[j], i < j
               PROVE  FALSE
    BY <1>1
  <2>1. o[i] \in Nat /\ o[j] \in Nat
    BY <1>2
  <2> QED BY <1>2, <2>1
<1>4. o \in Injection(1..n, S)
  BY <1>2, <1>3 DEF Injection, IsInjective
<1>5. Cardinality(1..n) = n
  BY <1>1, FS_Interval
<1>6. o \in Surjection(1..n, S)
  BY <1>4, <1>5, FS_Injection
<1>7. \A x \in S : \E i \in 1..n : o[i] = x
  BY <1>6 DEF Surjection
<1> QED BY <1>1, <1>2, <1>3, <1>7 DEF o

-----------------------------------------------------------------------------
(* The queue.                                                              *)

\* What posting does: the queue grows by the first of the events, by all if there is
\* room, and the semaphore goes along.
LEMMA PostedIs ==
  ASSUME TypeOK, NEW evs \in Seq(Event), Posted(evs)
  PROVE  /\ queue' \in Seq(Event) /\ sem' \in 0..QueueCapacity
         /\ Len(queue') = IF Len(queue) + Len(evs) <= QueueCapacity
                          THEN Len(queue) + Len(evs) ELSE QueueCapacity
         /\ \A i \in 1..Len(queue) : queue'[i] = queue[i]
         /\ \A i \in 1..Len(queue') :
               i > Len(queue) => /\ i - Len(queue) \in 1..Len(evs)
                                 /\ queue'[i] = evs[i - Len(queue)]
         /\ LoopIsAwake => LoopIsAwake'
<1> DEFINE room == QueueCapacity - Len(queue)
           n == IF Len(evs) > room THEN room ELSE Len(evs)
           a == Accepted(evs)
<1>1. /\ queue \in Seq(Event) /\ Len(queue) \in Nat /\ Len(queue) <= QueueCapacity
      /\ Len(evs) \in Nat /\ QueueCapacity \in Nat /\ sem \in 0..QueueCapacity
  BY DEF TypeOK
<1>2. n \in Nat /\ n <= Len(evs) /\ Len(queue) + n <= QueueCapacity
  BY <1>1
<1>3. a = SubSeq(evs, 1, n)
  BY DEF Accepted
<1> HIDE DEF n, a
<1>4. /\ a \in Seq(Event) /\ Len(a) = n
      /\ \A i \in 1..n : a[i] = evs[i]
  <2>1. \A i \in 1..n : evs[i] \in Event
    BY <1>1, <1>2, ElementOfSeq
  <2>2. /\ SubSeq(evs, 1, n) \in Seq(Event)
        /\ Len(SubSeq(evs, 1, n)) = IF 1 <= n THEN n - 1 + 1 ELSE 0
        /\ \A i \in 1..(n - 1 + 1) : SubSeq(evs, 1, n)[i] = evs[1 + i - 1]
    BY <1>2, <2>1, SubSeqProperties
  <2> QED BY <1>2, <1>3, <2>2
<1>5. queue' = queue \o a /\ sem' = IF sem + Len(a) > QueueCapacity THEN QueueCapacity
                                                                     ELSE sem + Len(a)
  BY DEF Posted, a
<1>6. /\ queue' \in Seq(Event) /\ Len(queue') = Len(queue) + n
      /\ \A i \in 1..(Len(queue) + n) :
            queue'[i] = IF i <= Len(queue) THEN queue[i] ELSE a[i - Len(queue)]
  <2>1. /\ queue \o a \in Seq(Event) /\ Len(queue \o a) = Len(queue) + Len(a)
        /\ \A i \in 1..(Len(queue) + Len(a)) :
              (queue \o a)[i] = IF i <= Len(queue) THEN queue[i] ELSE a[i - Len(queue)]
    BY <1>1, <1>4, ConcatProperties
  <2> QED BY <1>4, <1>5, <2>1
<1>7. Len(queue') = IF Len(queue) + Len(evs) <= QueueCapacity
                    THEN Len(queue) + Len(evs) ELSE QueueCapacity
  BY <1>1, <1>6 DEF n
<1>8. \A i \in 1..Len(queue) : queue'[i] = queue[i]
  BY <1>1, <1>2, <1>6
<1>9. \A i \in 1..Len(queue') :
         i > Len(queue) => /\ i - Len(queue) \in 1..Len(evs)
                           /\ queue'[i] = evs[i - Len(queue)]
  BY <1>1, <1>2, <1>4, <1>6
<1>10. sem' \in 0..QueueCapacity /\ (LoopIsAwake => LoopIsAwake')
  BY <1>1, <1>2, <1>4, <1>5, <1>6 DEF LoopIsAwake
<1> QED BY <1>6, <1>7, <1>8, <1>9, <1>10

\* A step that leaves the queue alone posts nothing.
LEMMA NothingPosted ==
  ASSUME TypeOK, queue' = queue, sem' = sem
  PROVE  <<>> \in Seq(Event) /\ Posted(<<>>)
<1>1. Accepted(<<>>) = <<>>
  BY DEF TypeOK, Accepted
<1>2. queue \o <<>> = queue
  BY ConcatEmptySeq DEF TypeOK
<1>3. sem + Len(Accepted(<<>>)) = sem /\ ~(sem > QueueCapacity)
  <2>1. Len(Accepted(<<>>)) = 0
    BY <1>1, EmptySeq
  <2>2. sem \in Nat /\ sem <= QueueCapacity
    BY DEF TypeOK
  <2> QED BY <2>1, <2>2
<1>4. queue' = queue \o Accepted(<<>>)
  BY <1>1, <1>2
<1> QED BY <1>3, <1>4, EmptySeq DEF Posted

\* Taking an event shortens the queue by its head, and by one count at most.
LEMMA TakeIs ==
  ASSUME TypeOK, NEW r \in Runners, Take(r), queue # <<>>
  PROVE  /\ queue' = Tail(queue) /\ queue' \in Seq(Event)
         /\ Len(queue) \in Nat \ {0} /\ Len(queue') = Len(queue) - 1
         /\ \A i \in 1..Len(queue') : queue'[i] = queue[i + 1]
         /\ Head(queue) = queue[1] /\ Head(queue) \in Event
<1>1. queue' = Tail(queue)
  BY DEF Take
<1>2. queue \in Seq(Event) /\ Len(queue) \in Nat \ {0}
  BY EmptySeq DEF TypeOK
<1> QED BY <1>1, <1>2

LEMMA SemStays == TypeOK => \A r \in Runners : SemAfter(r) \in 0..QueueCapacity /\ SemAfter(r) >= sem - 1
BY DEF TypeOK, SemAfter

-----------------------------------------------------------------------------
(* Events.                                                                 *)

LEMMA ZeroType == Zero \in Client
BY DEF Zero, Client

LEMMA EnvelopeType ==
  ASSUME TypeOK, NEW c \in Slots, NEW rec \in Client, NEW of \in Topics \union {<<>>},
         NEW id \in {"CONNECTED", "DISCONNECTED", "DELETED", "DATA", "NOTICE"}
  PROVE  Envelope(c, rec, id, of) \in Event
<1>1. born[c] \in 0..MaxToken
  BY DEF TypeOK
<1> QED BY <1>1 DEF Envelope, Event, Client

\* One event and two are sequences.
LEMMA OneEvent ==
  ASSUME NEW S, NEW e \in S
  PROVE  <<e>> \in Seq(S) /\ Len(<<e>>) = 1 /\ <<e>>[1] = e
OBVIOUS

LEMMA TwoEvents ==
  ASSUME NEW S, NEW e \in S, NEW f \in S
  PROVE  /\ <<e, f>> \in Seq(S) /\ Len(<<e, f>>) = 2
         /\ <<e, f>>[1] = e /\ <<e, f>>[2] = f
OBVIOUS

LEMMA OneAndOne ==
  ASSUME NEW S, NEW e \in S, NEW f \in S
  PROVE  <<e>> \o <<f>> = <<e, f>>
<1>1. <<e>> \in Seq(S) /\ <<f>> \in Seq(S) /\ Len(<<e>>) = 1 /\ Len(<<f>>) = 1
      /\ <<e>>[1] = e /\ <<f>>[1] = f
  BY OneEvent
<1>2. /\ <<e>> \o <<f>> \in Seq(S) /\ Len(<<e>> \o <<f>>) = 2
      /\ (<<e>> \o <<f>>)[1] = e /\ (<<e>> \o <<f>>)[2] = f
  BY <1>1, ConcatProperties
<1>3. <<e, f>> \in Seq(S) /\ Len(<<e, f>>) = 2 /\ <<e, f>>[1] = e /\ <<e, f>>[2] = f
  BY TwoEvents
<1>4. \A i \in 1..2 : (<<e>> \o <<f>>)[i] = <<e, f>>[i]
  BY <1>2, <1>3
<1> QED BY <1>2, <1>3, <1>4, SeqEqual

\* The tables are finite.
LEMMA TablesAreFinite ==
  /\ \A cs \in SUBSET Slots : /\ cs \subseteq Nat /\ IsFiniteSet(cs)
                              /\ Cardinality(cs) \in Nat /\ Cardinality(cs) <= MaxClients
  /\ \A is \in SUBSET SubSlots : is \subseteq Nat /\ IsFiniteSet(is)
<1>1. IsFiniteSet(Slots) /\ Cardinality(Slots) = MaxClients /\ Slots \subseteq Nat
  BY FS_Interval DEF Slots
<1>2. IsFiniteSet(SubSlots) /\ SubSlots \subseteq Nat
  BY FS_Interval DEF SubSlots
<1> QED BY <1>1, <1>2, FS_Subset, FS_CardinalityType

\* What a loss of the network posts: two events for each client it hits, the second
\* of which says that it is disconnected.
LEMMA LossesAre ==
  ASSUME TypeOK, NEW cs \in SUBSET Slots
  PROVE  /\ Losses(cs) \in Seq(Event)
         /\ Len(Losses(cs)) <= 2 * MaxClients
         /\ \A k \in 1..Len(Losses(cs)) : \E c \in cs :
               Losses(cs)[k] \in {Envelope(c, client[c], "NOTICE", <<>>),
                                  Envelope(c, client[c], "DISCONNECTED", <<>>)}
         /\ \A c \in cs : \E k \in 1..Len(Losses(cs)) :
               Losses(cs)[k] = Envelope(c, client[c], "DISCONNECTED", <<>>)
<1> DEFINE n == Cardinality(cs)
           o == InOrder(cs)
           e(k) == LET c == o[(k + 1) \div 2] IN Loss(c, client[c])[2 - (k % 2)]
<1>1. /\ cs \subseteq Nat /\ IsFiniteSet(cs) /\ n \in Nat /\ n <= MaxClients
  BY TablesAreFinite
<1>2. /\ o \in [1..n -> cs]
      /\ \A c \in cs : \E i \in 1..n : o[i] = c
  BY <1>1, InOrderIs
<1> HIDE DEF n, o
<1>3. \A c \in cs : /\ client[c] \in Client
                    /\ Loss(c, client[c])[1] = Envelope(c, client[c], "NOTICE", <<>>)
                    /\ Loss(c, client[c])[2] = Envelope(c, client[c], "DISCONNECTED", <<>>)
  BY DEF TypeOK, Loss
<1>4. \A c \in cs : /\ Envelope(c, client[c], "NOTICE", <<>>) \in Event
                    /\ Envelope(c, client[c], "DISCONNECTED", <<>>) \in Event
  BY <1>3, EnvelopeType
<1>5. \A k \in 1..(2 * n) : /\ (k + 1) \div 2 \in 1..n
                            /\ 2 - (k % 2) \in {1, 2}
  BY <1>1
<1>6. \A k \in 1..(2 * n) : \E c \in cs :
         e(k) \in {Envelope(c, client[c], "NOTICE", <<>>),
                   Envelope(c, client[c], "DISCONNECTED", <<>>)}
  <2> TAKE k \in 1..(2 * n)
  <2>1. o[(k + 1) \div 2] \in cs
    BY <1>2, <1>5
  <2> QED BY <1>3, <1>5, <2>1
<1>7. \A k \in 1..(2 * n) : e(k) \in Event
  BY <1>4, <1>6
<1>8. Losses(cs) = [k \in 1..(2 * n) |-> e(k)]
  BY DEF Losses, n, o
<1> HIDE DEF e
<1>9. 2 * n \in Nat /\ 2 * n <= 2 * MaxClients
  BY <1>1
<1>10. Losses(cs) \in Seq(Event)
  BY <1>7, <1>8, <1>9, IsASeq
<1>11. Len(Losses(cs)) = 2 * n
  BY <1>8, <1>9
<1>12. \A c \in cs : \E k \in 1..(2 * n) :
          e(k) = Envelope(c, client[c], "DISCONNECTED", <<>>)
  <2> TAKE c \in cs
  <2>1. PICK i \in 1..n : o[i] = c
    BY <1>2
  <2>2. 2 * i \in 1..(2 * n) /\ (2 * i + 1) \div 2 = i /\ 2 - ((2 * i) % 2) = 2
    BY <1>1
  <2>3. e(2 * i) = Loss(c, client[c])[2]
    BY <2>1, <2>2 DEF e
  <2> QED BY <1>3, <2>2, <2>3
<1> QED BY <1>6, <1>8, <1>9, <1>10, <1>11, <1>12

\* A message is posted to clients that have asked for it.
LEMMA DataIs ==
  ASSUME TypeOK, SubsOk, NEW t \in Topics
  PROVE  /\ DataFor(t) \in Seq(Event)
         /\ \A k \in 1..Len(DataFor(t)) : \E c \in Slots :
               /\ DataFor(t)[k] = Envelope(c, client[c], "DATA", t)
               /\ \E f \in asked[c] : TopicMatch(f, t)
<1> DEFINE hit == {i \in SubSlots : /\ subs[i] # NoSub
                                    /\ TopicMatch(subs[i].filter, t)
                                    /\ client[subs[i].client].connected}
           n == Cardinality(hit)
           to(j) == subs[InOrder(hit)[j]].client
           e(j) == Envelope(to(j), client[to(j)], "DATA", t)
<1>1. hit \in SUBSET SubSlots
  OBVIOUS
<1>2. n \in Nat /\ InOrder(hit) \in [1..n -> hit]
  <2>1. hit \subseteq Nat /\ IsFiniteSet(hit)
    BY <1>1, TablesAreFinite
  <2> QED BY <2>1, InOrderIs
<1>3. \A i \in hit : /\ subs[i].client \in Slots
                     /\ \E f \in asked[subs[i].client] : TopicMatch(f, t)
  BY DEF SubsOk
<1>4. DataFor(t) = [j \in 1..n |-> e(j)]
  BY DEF DataFor
<1> HIDE DEF hit, n
<1>5. \A j \in 1..n : /\ to(j) \in Slots
                      /\ \E f \in asked[to(j)] : TopicMatch(f, t)
  BY <1>2, <1>3
<1>6. \A j \in 1..n : e(j) \in Event
  <2>1. \A c \in Slots : client[c] \in Client
    BY DEF TypeOK
  <2> QED BY <1>5, <2>1, EnvelopeType
<1> HIDE DEF e
<1>7. DataFor(t) \in Seq(Event)
  BY <1>2, <1>4, <1>6, IsASeq
<1>8. Len(DataFor(t)) = n
  BY <1>2, <1>4
<1> QED BY <1>4, <1>5, <1>7, <1>8 DEF e

-----------------------------------------------------------------------------
(* One step.                                                               *)

ClientTypes ==
    /\ client \in [Slots -> Client]
    /\ global_token \in 0..MaxToken
    /\ subs \in [SubSlots -> [client : 0..MaxClients, filter : Filters \union {<<>>}]]
    /\ pending \subseteq [id : Nat, token : 1..MaxToken] /\ IsFiniteSet(pending)
    /\ up \in [Netifs -> BOOLEAN]
    /\ born \in [Slots -> 0..MaxToken]
    /\ heard \in [Slots -> {"nothing", "CONNECTED", "DISCONNECTED"}]
    /\ asked \in [Slots -> SUBSET Filters]
    /\ off \in [Slots -> BOOLEAN]

\* Nothing an event of client c was posted with has been taken back, unless the
\* client is out of use or has a new token.
Onward(c) ==
    \/ ~client'[c].initialized
    \/ client'[c].token > global_token
    \/ /\ client[c].initialized /\ client'[c].token = client[c].token
       /\ born'[c] = born[c]
       /\ client[c].cb \subseteq client'[c].cb
       /\ asked[c] \subseteq asked'[c]

ClientsMove ==
    /\ ClientTypes' /\ ClientsOk' /\ SubsOk'
    /\ global_token <= global_token'
    /\ \A c \in Slots : Onward(c)

\* An event that is genuine after the step.
GenuineNext(ev) ==
    (client'[ev.slot].initialized /\ ev.token = client'[ev.slot].token) =>
       /\ ev.born = born'[ev.slot]
       /\ ev.cb \subseteq client'[ev.slot].cb
       /\ ev.id = "DATA" => \E f \in asked'[ev.slot] : TopicMatch(f, ev.of)

\* What a step posts is genuine.
Posting ==
    \E evs \in Seq(Event) :
       /\ Posted(evs) /\ UNCHANGED job
       /\ \A k \in 1..Len(evs) : evs[k].token <= global_token' /\ GenuineNext(evs[k])

\* Numbers of work items are numbers.
LEMMA FreshWorkType == TypeOK => FreshWork \in Nat /\ FreshWork # 0
<1> SUFFICES ASSUME TypeOK PROVE FreshWork \in Nat /\ FreshWork # 0
  OBVIOUS
<1> DEFINE W == {w.id : w \in pending}
           C == {client[c].work : c \in Slots}
<1>1. IsFiniteSet(C) /\ C \subseteq Nat /\ C # {}
  <2> DEFINE f == [c \in Slots |-> client[c].work]
  <2>1. DOMAIN f = Slots /\ C = {f[c] : c \in Slots}
    OBVIOUS
  <2>2. \A c \in Slots : client[c].work \in Nat
    BY DEF TypeOK, Client
  <2>3. 1 \in Slots /\ IsFiniteSet(Slots)
    BY TablesAreFinite DEF Slots
  <2>4. C \subseteq Nat /\ C # {}
    BY <2>2, <2>3
  <2> HIDE DEF f, C
  <2>5. IsFiniteSet(C)
    BY <2>1, <2>3, ImageIsFinite
  <2> QED BY <2>4, <2>5
<1>2. IsFiniteSet(W) /\ W \subseteq Nat
  <2> DEFINE f == [w \in pending |-> w.id]
  <2>1. DOMAIN f = pending /\ W = {f[w] : w \in pending}
    OBVIOUS
  <2>2. W \subseteq Nat /\ IsFiniteSet(pending)
    BY DEF TypeOK
  <2> HIDE DEF f, W
  <2>3. IsFiniteSet(W)
    BY <2>1, <2>2, ImageIsFinite
  <2> QED BY <2>2, <2>3
<1>3. IsFiniteSet(W \union C) /\ W \union C \subseteq Nat /\ W \union C # {}
  BY <1>1, <1>2, FS_Union
<1>4. Max(W \union C) \in Nat
  BY <1>3, FiniteHasMax
<1> QED BY <1>4 DEF FreshWork

LEMMA PendingType ==
  ASSUME TypeOK, NEW cs, NEW items, items \subseteq [id : Nat, token : 1..MaxToken],
         IsFiniteSet(items)
  PROVE  /\ Replaced(cs, items) \subseteq [id : Nat, token : 1..MaxToken]
         /\ IsFiniteSet(Replaced(cs, items))
         /\ Uncancelled(cs) \subseteq [id : Nat, token : 1..MaxToken]
         /\ IsFiniteSet(Uncancelled(cs))
<1>1. Uncancelled(cs) \in SUBSET pending
  BY DEF Uncancelled
<1>2. /\ Uncancelled(cs) \subseteq [id : Nat, token : 1..MaxToken]
      /\ IsFiniteSet(Uncancelled(cs))
  BY <1>1, FS_Subset DEF TypeOK
<1> QED BY <1>2, FS_Union DEF Replaced

LEMMA ItemType ==
  ASSUME NEW rec \in Client, rec.token # 0, NEW n \in Nat, NEW ok \in BOOLEAN
  PROVE  /\ Item(rec, n, ok) \subseteq [id : Nat, token : 1..MaxToken]
         /\ IsFiniteSet(Item(rec, n, ok))
         /\ Asking(rec, n, ok) \in Client
<1>1. rec.token \in 1..MaxToken
  BY DEF Client
<1>2. Item(rec, n, ok) \subseteq [id : Nat, token : 1..MaxToken]
  BY <1>1 DEF Item
<1>3. IsFiniteSet(Item(rec, n, ok))
  BY FS_Singleton, FS_EmptySet DEF Item
<1>4. Asking(rec, n, ok) \in Client
  BY DEF Asking, Client
<1> QED BY <1>2, <1>3, <1>4

Known == TypeOK /\ ClientsOk /\ SubsOk

LEMMA ClientType ==
  ASSUME Known, NEW c \in Slots
  PROVE  /\ client[c] \in Client /\ client[c].token <= global_token
         /\ client[c].token \in Nat /\ global_token \in Nat /\ MaxToken \in Nat
         /\ born[c] \in 0..MaxToken
BY DEF Known, TypeOK, ClientsOk, Client

LEMMA KnownTypes ==
  Known => /\ global_token \in 0..MaxToken
           /\ pending \subseteq [id : Nat, token : 1..MaxToken] /\ IsFiniteSet(pending)
           /\ up \in [Netifs -> BOOLEAN] /\ off \in [Slots -> BOOLEAN]
           /\ heard \in [Slots -> {"nothing", "CONNECTED", "DISCONNECTED"}]
BY DEF Known, TypeOK

\* An event of a client that has its token is genuine if it is no message.
LEMMA PostIsGenuine ==
  ASSUME NEW c \in Slots, NEW rec \in Client, NEW of,
         NEW id, id # "DATA", rec.token <= global_token',
         \/ ~client'[c].initialized
         \/ client'[c].token # rec.token
         \/ born'[c] = born[c] /\ rec.cb \subseteq client'[c].cb,
         NEW ev, ev = Envelope(c, rec, id, of)
  PROVE  ev.token <= global_token' /\ GenuineNext(ev)
BY DEF Envelope, GenuineNext

\* Steps that post nothing, one event, or two.
LEMMA PostsNothing ==
  ASSUME TypeOK, UNCHANGED loopVars PROVE Posting
<1>1. <<>> \in Seq(Event) /\ Posted(<<>>)
  BY NothingPosted DEF loopVars
<1>2. \A k \in 1..Len(<<>>) : FALSE
  BY EmptySeq
<1> QED BY <1>1, <1>2 DEF Posting, loopVars

LEMMA PostsNone ==
  ASSUME Posted(<<>>), UNCHANGED job PROVE Posting
<1>1. \A k \in 1..Len(<<>>) : FALSE
  BY EmptySeq
<1> QED BY <1>1, EmptySeq DEF Posting

LEMMA PostsOne ==
  ASSUME NEW e \in Event, Posted(<<e>>), UNCHANGED job,
         e.token <= global_token', GenuineNext(e)
  PROVE  Posting
<1> DEFINE evs == <<e>>
<1>1. evs \in Seq(Event) /\ Len(evs) = 1 /\ evs[1] = e
  BY OneEvent
<1>2. \A k \in 1..Len(evs) : evs[k] = e
  BY <1>1
<1> QED BY <1>1, <1>2 DEF Posting

LEMMA PostsTwo ==
  ASSUME NEW e \in Event, NEW f \in Event, Posted(<<e, f>>), UNCHANGED job,
         e.token <= global_token', GenuineNext(e),
         f.token <= global_token', GenuineNext(f)
  PROVE  Posting
<1> DEFINE evs == <<e, f>>
<1>1. evs \in Seq(Event) /\ Len(evs) = 2 /\ evs[1] = e /\ evs[2] = f
  BY TwoEvents
<1>2. \A k \in 1..Len(evs) : evs[k] = e \/ evs[k] = f
  BY <1>1
<1> QED BY <1>1, <1>2 DEF Posting

\* Clients that stay as they are move on.
LEMMA ClientsRest ==
  ASSUME Known, UNCHANGED clientVars PROVE ClientsMove
BY DEF Known, TypeOK, ClientsOk, SubsOk, ClientsMove, ClientTypes, Onward, clientVars

\* From here on a lemma per action, first of the life cycle: a client taken into use.
LEMMA InitMoves ==
  ASSUME Known, NEW c \in Slots, NEW n \in Netifs, NEW cb \in Configs, ClientInit(c, n, cb)
  PROVE  ClientsMove /\ Posting
<1> DEFINE rec == [Zero EXCEPT !.initialized = TRUE, !.netif = n,
                               !.token = global_token + 1, !.cb = cb]
<1> USE DEF Known
<1>1. /\ global_token \in Nat /\ global_token < MaxToken /\ MaxToken \in Nat
      /\ global_token' = global_token + 1
  BY DEF ClientInit, Renewal, TypeOK
<1>2. rec \in Client /\ rec.token = global_token + 1 /\ rec.initialized /\ ~rec.connected
  <2>1. cb \in SUBSET Callbacks
    BY DEF Callbacks
  <2>2. Zero \in Client /\ ~Zero.connected
    BY ZeroType DEF Zero
  <2>3. global_token + 1 \in 0..MaxToken
    BY <1>1
  <2> QED BY <2>1, <2>2, <2>3 DEF Client
<1> HIDE DEF rec
<1>3. client' = [client EXCEPT ![c] = rec]
  BY DEF ClientInit, rec
<1>4. ClientTypes'
  <2>1. /\ client' \in [Slots -> Client] /\ global_token' \in 0..MaxToken
        /\ born' \in [Slots -> 0..MaxToken]
    BY <1>1, <1>2, <1>3 DEF ClientInit, TypeOK
  <2>2. /\ heard' \in [Slots -> {"nothing", "CONNECTED", "DISCONNECTED"}]
        /\ asked' \in [Slots -> SUBSET Filters] /\ off' \in [Slots -> BOOLEAN]
    BY DEF ClientInit, TypeOK
  <2>3. UNCHANGED <<subs, pending, up>>
    BY DEF ClientInit
  <2> QED BY <2>1, <2>2, <2>3 DEF TypeOK, ClientTypes
<1>5. ClientsOk'
  BY <1>1, <1>2, <1>3, ClientType DEF ClientsOk, TypeOK
<1>6. SubsOk'
  BY <1>2, <1>3 DEF SubsOk, ClientInit, TypeOK
<1>7. \A d \in Slots : Onward(d)
  <2> TAKE d \in Slots
  <2>1. CASE d = c
    BY <1>1, <1>2, <1>3, <2>1 DEF Onward, TypeOK
  <2>2. CASE d # c
    BY <1>3, <2>2 DEF Onward, TypeOK, ClientInit
  <2> QED BY <2>1, <2>2
<1>8. Posting
  BY PostsNothing DEF ClientInit
<1> QED BY <1>1, <1>4, <1>5, <1>6, <1>7, <1>8 DEF ClientsMove

\* A client in use that stays in use, keeps its callbacks, and keeps its token or has
\* a new one.
StaysInUse(c) ==
    \/ client'[c] = client[c]
    \/ /\ client[c].initialized /\ client'[c].initialized
       /\ client[c].cb \subseteq client'[c].cb
       /\ client'[c].connected => client'[c].started
       /\ client'[c].token <= global_token'
       /\ client'[c].token = client[c].token \/ client'[c].token > global_token

\* The rest of the state after a step that touches no subscription.
RestFits ==
    /\ UNCHANGED <<subs, born, asked>>
    /\ client' \in [Slots -> Client]
    /\ global_token' \in 0..MaxToken /\ global_token <= global_token'
    /\ pending' \subseteq [id : Nat, token : 1..MaxToken] /\ IsFiniteSet(pending')
    /\ up' \in [Netifs -> BOOLEAN] /\ off' \in [Slots -> BOOLEAN]
    /\ heard' \in [Slots -> {"nothing", "CONNECTED", "DISCONNECTED"}]

LEMMA ClientsInUse ==
  ASSUME Known, RestFits, \A c \in Slots : StaysInUse(c)
  PROVE  ClientsMove
<1>1. ClientTypes'
  BY DEF Known, TypeOK, ClientTypes, RestFits
<1>2. \A c \in Slots : client[c].token <= global_token'
  BY ClientType DEF RestFits
<1>3. ClientsOk'
  BY <1>2 DEF Known, ClientsOk, StaysInUse
<1>4. SubsOk'
  BY DEF Known, SubsOk, StaysInUse, RestFits
<1>5. \A c \in Slots : Onward(c)
  BY DEF Onward, StaysInUse, RestFits
<1> QED BY <1>1, <1>3, <1>4, <1>5 DEF ClientsMove, RestFits

\* A step that moves one client.
LEMMA OneClient ==
  ASSUME Known, NEW c \in Slots, NEW rec \in Client, client' = [client EXCEPT ![c] = rec]
  PROVE  /\ client' \in [Slots -> Client] /\ client'[c] = rec
         /\ \A d \in Slots : d # c => client'[d] = client[d]
<1>1. client \in [Slots -> Client]
  BY DEF Known, TypeOK
<1> QED BY <1>1

\* A callback registered.
LEMMA RegisterMoves ==
  ASSUME Known, NEW c \in Slots, RegisterEvent(c)
  PROVE  ClientsMove /\ Posting
<1> DEFINE rec == [client[c] EXCEPT !.cb = @ \union {"registered"}]
<1>1. /\ rec \in Client /\ rec.initialized = client[c].initialized
      /\ rec.connected = client[c].connected /\ rec.started = client[c].started
      /\ rec.token = client[c].token /\ client[c].cb \subseteq rec.cb
  BY ClientType DEF Client, Callbacks
<1>2. client' = [client EXCEPT ![c] = rec]
  BY DEF RegisterEvent
<1> HIDE DEF rec
<1>3. heard' \in [Slots -> {"nothing", "CONNECTED", "DISCONNECTED"}]
  BY DEF RegisterEvent, Known, TypeOK
<1>4. ClientsMove
  <2>1. /\ client[c].initialized /\ UNCHANGED <<global_token, subs, born, asked, pending, up, off>>
    BY DEF RegisterEvent
  <2>2. client[c].connected => client[c].started
    BY DEF Known, ClientsOk
  <2>3. rec.token <= global_token /\ global_token \in Nat
    BY <1>1, ClientType
  <2>4. /\ client' \in [Slots -> Client] /\ client'[c] = rec
        /\ \A d \in Slots : d # c => client'[d] = client[d]
    BY <1>1, <1>2, OneClient
  <2>5. RestFits
    BY <1>3, <2>1, <2>3, <2>4, KnownTypes DEF RestFits
  <2>6. \A d \in Slots : StaysInUse(d)
    BY <1>1, <2>1, <2>2, <2>3, <2>4 DEF StaysInUse
  <2> QED BY <2>5, <2>6, ClientsInUse
<1>5. Posting
  BY PostsNothing DEF RegisterEvent, Known
<1> QED BY <1>4, <1>5

\* A client bound to an interface.
LEMMA SetNetifMoves ==
  ASSUME Known, NEW c \in Slots, NEW n \in Netifs, SetNetif(c, n)
  PROVE  ClientsMove /\ Posting
<1> DEFINE rec == [client[c] EXCEPT !.netif = n]
<1>1. /\ rec \in Client /\ rec.initialized = client[c].initialized
      /\ rec.connected = client[c].connected /\ rec.started = client[c].started
      /\ rec.token = client[c].token /\ client[c].cb \subseteq rec.cb
  BY ClientType DEF Client
<1>2. client' = [client EXCEPT ![c] = rec]
  BY DEF SetNetif
<1> HIDE DEF rec
<1>3. ClientsMove
  <2>1. /\ client[c].initialized
        /\ UNCHANGED <<global_token, subs, born, asked, pending, up, heard, off>>
    BY DEF SetNetif
  <2>2. client[c].connected => client[c].started
    BY DEF Known, ClientsOk
  <2>3. rec.token <= global_token /\ global_token \in Nat
    BY <1>1, ClientType
  <2>4. /\ client' \in [Slots -> Client] /\ client'[c] = rec
        /\ \A d \in Slots : d # c => client'[d] = client[d]
    BY <1>1, <1>2, OneClient
  <2>5. RestFits
    BY <2>1, <2>3, <2>4, KnownTypes DEF RestFits
  <2>6. \A d \in Slots : StaysInUse(d)
    BY <1>1, <2>1, <2>2, <2>3, <2>4 DEF StaysInUse
  <2> QED BY <2>5, <2>6, ClientsInUse
<1>4. Posting
  BY PostsNothing DEF SetNetif, Known
<1> QED BY <1>3, <1>4

\* A record that gets a new token and is not connected.
LEMMA RenewedMoves ==
  ASSUME Known, NEW c \in Slots, NEW new \in Client,
         Renewal, global_token' = global_token + 1,
         new.token = global_token + 1, new.initialized, client[c].initialized,
         new.cb = client[c].cb, ~new.connected,
         client' = [client EXCEPT ![c] = new],
         pending' \subseteq [id : Nat, token : 1..MaxToken], IsFiniteSet(pending'),
         off' \in [Slots -> BOOLEAN], UNCHANGED <<subs, up, born, heard, asked>>
  PROVE  ClientsMove
<1>1. global_token' \in 0..MaxToken
  BY DEF Known, TypeOK, Renewal
<1>2. global_token + 1 > global_token /\ global_token <= global_token'
  BY ClientType
<1>3. /\ client' \in [Slots -> Client] /\ client'[c] = new
      /\ \A d \in Slots : d # c => client'[d] = client[d]
  BY OneClient
<1>4. RestFits
  BY <1>1, <1>2, <1>3, KnownTypes DEF RestFits
<1>5. \A d \in Slots : StaysInUse(d)
  BY <1>2, <1>3 DEF StaysInUse
<1> QED BY <1>4, <1>5, ClientsInUse

\* The same with a work item asked for.
LEMMA AskingMoves ==
  ASSUME Known, NEW c \in Slots, NEW rec \in Client, NEW n \in Nat, NEW ok \in BOOLEAN,
         Renewal, global_token' = global_token + 1,
         rec.token = global_token + 1, rec.initialized, client[c].initialized,
         rec.cb = client[c].cb, ~rec.connected,
         client' = [client EXCEPT ![c] = Asking(rec, n, ok)],
         pending' = Replaced({c}, Item(rec, n, ok)),
         off' \in [Slots -> BOOLEAN], UNCHANGED <<subs, up, born, heard, asked>>
  PROVE  ClientsMove
<1> DEFINE new == Asking(rec, n, ok)
<1>1. rec.token # 0
  BY ClientType
<1>2. /\ new \in Client /\ new.token = global_token + 1 /\ new.initialized
      /\ new.cb = client[c].cb /\ ~new.connected
  BY <1>1, ItemType DEF Asking, Client
<1>3. pending' \subseteq [id : Nat, token : 1..MaxToken] /\ IsFiniteSet(pending')
  BY <1>1, ItemType, PendingType DEF Known
<1> HIDE DEF new
<1>4. client' = [client EXCEPT ![c] = new]
  BY DEF new
<1> QED BY <1>2, <1>3, <1>4, RenewedMoves

\* A client started: it is down, and has a new token.
LEMMA StartMoves ==
  ASSUME Known, NEW c \in Slots, NEW ok \in PostResults, Start(c, ok)
  PROVE  ClientsMove /\ Posting
<1> DEFINE rec == [client[c] EXCEPT !.started = ok, !.token = global_token + 1]
<1>1. ok \in BOOLEAN /\ FreshWork \in Nat
  BY FreshWorkType DEF Known
<1>2. global_token + 1 \in 0..MaxToken
  BY ClientType DEF Start, Renewal
<1>3. ~client[c].connected
  BY DEF Start, Known, ClientsOk
<1>4. /\ rec \in Client /\ rec.token = global_token + 1 /\ rec.cb = client[c].cb
      /\ rec.initialized = client[c].initialized /\ ~rec.connected
  <2>1. client[c] \in Client
    BY ClientType
  <2> QED BY <1>1, <1>2, <1>3, <2>1 DEF Client
<1>5. /\ client' = [client EXCEPT ![c] = Asking(rec, FreshWork, ok)]
      /\ pending' = Replaced({c}, Item(rec, FreshWork, ok))
  BY DEF Start
<1> HIDE DEF rec
<1>6. ClientsMove
  <2>1. off' \in [Slots -> BOOLEAN]
    BY DEF Start, Known, TypeOK
  <2> QED BY <1>1, <1>4, <1>5, <2>1, AskingMoves DEF Start
<1>7. Posting
  BY PostsNothing DEF Start, Known
<1> QED BY <1>6, <1>7

\* What a client that stops tells of it is of the client as it is afterwards.
LEMMA StoppedType ==
  ASSUME Known, NEW c \in Slots, Renewal, client[c].initialized
  PROVE  /\ Stopped(c) \in Client /\ Stopped(c).token = global_token + 1
         /\ Stopped(c).initialized /\ Stopped(c).cb = client[c].cb
         /\ ~Stopped(c).connected /\ ~Stopped(c).started
<1>1. global_token + 1 \in 0..MaxToken
  BY ClientType DEF Renewal
<1>2. client[c] \in Client
  BY ClientType
<1> QED BY <1>1, <1>2 DEF Stopped, Client

\* A client stopped: its farewell goes out under the new token.
LEMMA StopMoves ==
  ASSUME Known, NEW c \in Slots, Stop(c)
  PROVE  ClientsMove /\ Posting
<1> DEFINE e == Envelope(c, Stopped(c), "DISCONNECTED", <<>>)
<1>1. /\ Renewal /\ client[c].initialized /\ global_token' = global_token + 1
      /\ client' = [client EXCEPT ![c] = Stopped(c)]
      /\ UNCHANGED <<subs, up, born, heard, asked, off, job>>
  BY DEF Stop
<1>2. /\ Stopped(c) \in Client /\ Stopped(c).token = global_token + 1
      /\ Stopped(c).initialized /\ Stopped(c).cb = client[c].cb
      /\ ~Stopped(c).connected
  BY <1>1, StoppedType
<1>3. ClientsMove
  <2>1. pending' \subseteq [id : Nat, token : 1..MaxToken] /\ IsFiniteSet(pending')
    BY FS_EmptySet, PendingType DEF Stop, Known
  <2>2. off' \in [Slots -> BOOLEAN]
    BY <1>1, KnownTypes
  <2> QED BY <1>1, <1>2, <2>1, <2>2, RenewedMoves
<1>4. client'[c] = Stopped(c)
  BY <1>1, <1>2, OneClient
<1>5. e \in Event
  BY <1>2, EnvelopeType DEF Known
<1>6. e.token <= global_token' /\ GenuineNext(e)
  <2>1. Stopped(c).token <= global_token'
    BY <1>1, <1>2, ClientType
  <2>2. born'[c] = born[c] /\ Stopped(c).cb \subseteq client'[c].cb
    BY <1>1, <1>4
  <2> QED BY <1>2, <2>1, <2>2, PostIsGenuine
<1>7. Posting
  <2>1. CASE client[c].connected
    <3>1. Posted(<<e>>)
      BY <2>1 DEF Stop, Farewell
    <3> QED BY <1>1, <1>5, <1>6, <3>1, PostsOne
  <2>2. CASE ~client[c].connected
    <3>1. Posted(<<>>)
      BY <2>2 DEF Stop, Farewell
    <3> QED BY <1>1, <3>1, PostsNone
  <2> QED BY <2>1, <2>2
<1> QED BY <1>3, <1>7

\* A client that reconnects: what it posts is under the old token, so it is of nobody.
LEMMA ReconnectMoves ==
  ASSUME Known, NEW c \in Slots, NEW ok \in PostResults, Reconnect(c, ok)
  PROVE  ClientsMove /\ Posting
<1> DEFINE rec == [client[c] EXCEPT !.connected = FALSE, !.started = ok,
                                    !.token = global_token + 1]
           e == Envelope(c, client[c], "DISCONNECTED", <<>>)
<1>1. ok \in BOOLEAN /\ FreshWork \in Nat
  BY FreshWorkType DEF Known
<1>2. global_token + 1 \in 0..MaxToken
  BY ClientType DEF Reconnect, Renewal
<1>3. /\ rec \in Client /\ rec.token = global_token + 1 /\ rec.cb = client[c].cb
      /\ rec.initialized = client[c].initialized /\ ~rec.connected
  <2>1. client[c] \in Client
    BY ClientType
  <2> QED BY <1>1, <1>2, <2>1 DEF Client
<1>4. /\ client' = [client EXCEPT ![c] = Asking(rec, FreshWork, ok)]
      /\ pending' = Replaced({c}, Item(rec, FreshWork, ok))
  BY DEF Reconnect
<1> HIDE DEF rec
<1>5. ClientsMove
  <2>1. off' \in [Slots -> BOOLEAN]
    BY <1>1 DEF Reconnect, Known, TypeOK
  <2> QED BY <1>1, <1>3, <1>4, <2>1, AskingMoves DEF Reconnect
<1>6. e \in Event
  BY ClientType, EnvelopeType DEF Known
<1>7. e.token <= global_token' /\ GenuineNext(e)
  <2>1. client'[c].token = global_token + 1
    BY <1>3, <1>4, ClientType DEF Asking, Known, TypeOK, Client
  <2>2. client'[c].token # client[c].token /\ client[c].token <= global_token'
    BY <2>1, ClientType DEF Reconnect
  <2> QED BY <2>2, ClientType, PostIsGenuine
<1>8. Posting
  BY <1>6, <1>7, PostsOne DEF Reconnect
<1> QED BY <1>5, <1>8

\* A client that disconnects keeps its token.
LEMMA DisconnectMoves ==
  ASSUME Known, NEW c \in Slots, Disconnect(c)
  PROVE  ClientsMove /\ Posting
<1> DEFINE rec == [client[c] EXCEPT !.connected = FALSE]
           e == Envelope(c, client[c], "DISCONNECTED", <<>>)
<1>1. /\ rec \in Client /\ rec.initialized = client[c].initialized /\ ~rec.connected
      /\ rec.token = client[c].token /\ client[c].cb = rec.cb
  <2>1. client[c] \in Client
    BY ClientType
  <2> QED BY <2>1 DEF Client
<1>2. client' = [client EXCEPT ![c] = rec]
  BY DEF Disconnect
<1> HIDE DEF rec
<1>3. /\ client[c].initialized
      /\ UNCHANGED <<global_token, subs, pending, up, born, heard, asked, job>>
  BY DEF Disconnect
<1>4. rec.token <= global_token /\ global_token \in Nat
  BY <1>1, ClientType
<1>5. /\ client' \in [Slots -> Client] /\ client'[c] = rec
      /\ \A d \in Slots : d # c => client'[d] = client[d]
  BY <1>1, <1>2, OneClient
<1>6. off' \in [Slots -> BOOLEAN]
  BY DEF Disconnect, Known, TypeOK
<1>7. RestFits
  BY <1>3, <1>4, <1>5, <1>6, KnownTypes DEF RestFits
<1>8. \A d \in Slots : StaysInUse(d)
  BY <1>1, <1>3, <1>4, <1>5 DEF StaysInUse
<1>9. e \in Event
  BY ClientType, EnvelopeType DEF Known
<1>10. e.token <= global_token' /\ GenuineNext(e)
  <2>1. client[c].token <= global_token'
    BY <1>1, <1>3, <1>4
  <2>2. born'[c] = born[c] /\ client[c].cb \subseteq client'[c].cb
    BY <1>1, <1>3, <1>5
  <2> QED BY <2>1, <2>2, ClientType, PostIsGenuine
<1>11. Posting
  BY <1>3, <1>9, <1>10, PostsOne DEF Disconnect
<1> QED BY <1>7, <1>8, <1>11, ClientsInUse

\* A client destroyed: its slot is as at the start, its rows are free, and its last
\* events are under a token nobody has.
LEMMA DestroyMoves ==
  ASSUME Known, NEW c \in Slots, Destroy(c)
  PROVE  ClientsMove /\ Posting
<1> DEFINE e == Envelope(c, Stopped(c), "DISCONNECTED", <<>>)
           f == Envelope(c, Stopped(c), "DELETED", <<>>)
<1>1. /\ Renewal /\ client[c].initialized /\ global_token' = global_token + 1
      /\ client' = [client EXCEPT ![c] = Zero] /\ subs' = SubsWithout(c)
      /\ UNCHANGED <<up, born, heard, asked, off, job>>
  BY DEF Destroy
<1>2. /\ global_token' \in 0..MaxToken /\ global_token \in Nat
      /\ global_token < global_token'
  BY <1>1, ClientType DEF Renewal
<1>3. /\ client' \in [Slots -> Client] /\ client'[c] = Zero
      /\ \A d \in Slots : d # c => client'[d] = client[d]
  BY <1>1, ZeroType, OneClient
<1>4. ~Zero.initialized /\ ~Zero.connected /\ Zero.token = 0
  BY DEF Zero
<1>5. pending' \subseteq [id : Nat, token : 1..MaxToken] /\ IsFiniteSet(pending')
  BY FS_EmptySet, PendingType DEF Destroy, Known
<1>6. /\ subs' \in [SubSlots -> [client : 0..MaxClients, filter : Filters \union {<<>>}]]
      /\ \A i \in SubSlots : subs'[i] = NoSub \/ (subs'[i] = subs[i] /\ subs[i].client # c)
  <2>1. NoSub \in [client : 0..MaxClients, filter : Filters \union {<<>>}]
    BY DEF NoSub
  <2>2. /\ subs \in [SubSlots -> [client : 0..MaxClients, filter : Filters \union {<<>>}]]
        /\ subs' = [i \in SubSlots |-> IF subs[i].client = c THEN NoSub ELSE subs[i]]
    BY <1>1 DEF SubsWithout, Known, TypeOK
  <2> QED BY <2>1, <2>2
<1>7. ClientTypes'
  BY <1>1, <1>2, <1>3, <1>5, <1>6 DEF Known, TypeOK, ClientTypes
<1>8. ClientsOk'
  <2> SUFFICES ASSUME NEW d \in Slots
               PROVE  /\ ~client'[d].initialized => client'[d] = Zero
                      /\ client'[d].connected => client'[d].started
                      /\ client'[d].token <= global_token'
    BY DEF ClientsOk
  <2>1. CASE d = c
    BY <1>2, <1>3, <1>4, <2>1
  <2>2. CASE d # c
    BY <1>2, <1>3, <2>2, ClientType DEF Known, ClientsOk
  <2> QED BY <2>1, <2>2
<1>9. SubsOk'
  BY <1>1, <1>3, <1>6 DEF Known, SubsOk
<1>10. \A d \in Slots : Onward(d)
  BY <1>1, <1>3, <1>4 DEF Onward
<1>11. Stopped(c) \in Client /\ Stopped(c).token <= global_token'
  BY <1>1, <1>2, StoppedType
<1>12. e \in Event /\ f \in Event
  BY <1>11, EnvelopeType DEF Known
<1>13. ~client'[c].initialized
  BY <1>3, <1>4
<1>14. e.token <= global_token' /\ GenuineNext(e)
  BY <1>11, <1>13, PostIsGenuine
<1>15. f.token <= global_token' /\ GenuineNext(f)
  BY <1>11, <1>13, PostIsGenuine
<1> HIDE DEF e, f
<1>16. Posting
  <2>1. CASE client[c].connected
    <3>1. Farewell(c) = <<e>>
      BY <2>1 DEF Farewell, e
    <3>2. Farewell(c) \o <<f>> = <<e, f>>
      BY <3>1, <1>12, OneAndOne
    <3>3. Posted(<<e, f>>)
      BY <3>2 DEF Destroy, f
    <3> QED BY <1>1, <1>12, <1>14, <1>15, <3>3, PostsTwo
  <2>2. CASE ~client[c].connected
    <3>1. Farewell(c) \o <<f>> = <<f>>
      BY <2>2, <1>12 DEF Farewell
    <3>2. Posted(<<f>>)
      BY <3>1 DEF Destroy, f
    <3> QED BY <1>1, <1>12, <1>15, <3>2, PostsOne
  <2> QED BY <2>1, <2>2
<1> QED BY <1>2, <1>7, <1>8, <1>9, <1>10, <1>16 DEF ClientsMove

\* An interface that goes down takes its clients along.
LEMMA NetDownMoves ==
  ASSUME Known, NEW n \in Netifs, NetDown(n)
  PROVE  ClientsMove /\ Posting
<1> DEFINE hit == {c \in Slots : /\ client[c].initialized /\ client[c].netif = n
                                 /\ client[c].started /\ client[c].connected}
           lost(c) == [client[c] EXCEPT !.connected = FALSE]
<1>1. /\ hit \in SUBSET Slots /\ \A c \in hit : client[c].initialized
      /\ client' = [c \in Slots |-> IF c \in hit THEN lost(c) ELSE client[c]]
      /\ Posted(Losses(hit))
      /\ UNCHANGED <<job, global_token, subs, pending, born, heard, asked, off>>
      /\ up' = [up EXCEPT ![n] = FALSE]
  BY DEF NetDown
<1>2. \A c \in Slots : /\ lost(c) \in Client /\ lost(c).initialized = client[c].initialized
                       /\ ~lost(c).connected /\ lost(c).token = client[c].token
                       /\ lost(c).cb = client[c].cb
  <2> TAKE c \in Slots
  <2>1. client[c] \in Client
    BY ClientType
  <2> QED BY <2>1 DEF Client
<1> HIDE DEF hit, lost
<1>3. /\ client' \in [Slots -> Client]
      /\ \A c \in Slots : client'[c] = IF c \in hit THEN lost(c) ELSE client[c]
  BY <1>1, <1>2, ClientType
<1>4. RestFits
  <2>1. up' \in [Netifs -> BOOLEAN]
    BY <1>1, KnownTypes
  <2>2. global_token' \in 0..MaxToken /\ global_token <= global_token'
    BY <1>1, KnownTypes
  <2> QED BY <1>1, <1>3, <2>1, <2>2, KnownTypes DEF RestFits
<1>5. \A c \in Slots : StaysInUse(c)
  BY <1>1, <1>2, <1>3, ClientType DEF StaysInUse
<1>6. ClientsMove
  BY <1>4, <1>5, ClientsInUse
<1>7. \A c \in hit, id \in {"NOTICE", "DISCONNECTED"} :
         /\ Envelope(c, client[c], id, <<>>).token <= global_token'
         /\ GenuineNext(Envelope(c, client[c], id, <<>>))
  <2> TAKE c \in hit, id \in {"NOTICE", "DISCONNECTED"}
  <2>1. c \in Slots /\ client[c] \in Client /\ client[c].token <= global_token'
    BY <1>1, ClientType
  <2>2. born'[c] = born[c] /\ client[c].cb \subseteq client'[c].cb
    BY <1>1, <1>2, <1>3
  <2> QED BY <2>1, <2>2, PostIsGenuine
<1>8. Posting
  <2> DEFINE evs == Losses(hit)
  <2>1. /\ evs \in Seq(Event)
        /\ \A k \in 1..Len(evs) : \E c \in hit :
              evs[k] \in {Envelope(c, client[c], "NOTICE", <<>>),
                          Envelope(c, client[c], "DISCONNECTED", <<>>)}
    BY <1>1, LossesAre DEF Known
  <2> HIDE DEF evs
  <2>2. \A k \in 1..Len(evs) : evs[k].token <= global_token' /\ GenuineNext(evs[k])
    BY <1>7, <2>1
  <2>3. Posted(evs) /\ UNCHANGED job
    BY <1>1 DEF evs
  <2> QED BY <2>1, <2>2, <2>3 DEF Posting
<1> QED BY <1>6, <1>8

\* The clients of a set are ranked from 1.
LEMMA RankIs ==
  ASSUME NEW S \in SUBSET Slots, NEW c \in S
  PROVE  Cardinality({d \in S : d <= c}) \in 1..Cardinality(S)
<1> DEFINE low == {d \in S : d <= c}
<1>1. IsFiniteSet(S) /\ Cardinality(S) \in Nat /\ S \subseteq Nat
  BY TablesAreFinite
<1>2. low \in SUBSET S /\ c \in low
  BY <1>1
<1>3. /\ IsFiniteSet(low) /\ Cardinality(low) \in Nat
      /\ Cardinality(low) <= Cardinality(S) /\ Cardinality(low) # 0
  BY <1>1, <1>2, FS_Subset, FS_CardinalityType, FS_EmptySet
<1> QED BY <1>1, <1>3

\* One that comes up gives each of its waiting clients a token of its own.
LEMMA NetUpMoves ==
  ASSUME Known, NEW n \in Netifs, NEW ok \in [Slots -> PostResults], NetUp(n, ok)
  PROVE  ClientsMove /\ Posting
<1> DEFINE hit == {c \in Slots : /\ client[c].initialized /\ client[c].netif = n
                                 /\ client[c].started /\ ~client[c].connected}
           rank(c) == Cardinality({d \in hit : d <= c})
           token(c) == global_token + rank(c)
           id(c) == FreshWork + rank(c) - 1
           rec(c) == [client[c] EXCEPT !.token = token(c)]
           new(c) == Asking(rec(c), id(c), ok[c])
           items == UNION {Item(rec(c), id(c), ok[c]) : c \in hit}
<1>1. /\ global_token + Cardinality(hit) <= MaxToken
      /\ up' = [up EXCEPT ![n] = TRUE]
      /\ client' = [c \in Slots |-> IF c \in hit THEN new(c) ELSE client[c]]
      /\ pending' = Replaced(hit, items)
      /\ global_token' = global_token + Cardinality(hit)
      /\ off' = [c \in Slots |-> IF c \in hit THEN ~ok[c] ELSE off[c]]
      /\ UNCHANGED <<subs, born, heard, asked, loopVars>>
  BY DEF NetUp
<1>2. hit \in SUBSET Slots /\ IsFiniteSet(hit) /\ Cardinality(hit) \in Nat
  BY TablesAreFinite
<1>3. \A c \in hit : c \in Slots /\ client[c].initialized /\ ~client[c].connected
  OBVIOUS
<1>4. \A c \in hit : rank(c) \in 1..Cardinality(hit)
  BY <1>2, RankIs
<1> HIDE DEF hit, rank
<1>5. FreshWork \in Nat /\ FreshWork # 0
  BY FreshWorkType DEF Known
<1>6. \A c \in hit : /\ token(c) \in 1..MaxToken /\ token(c) > global_token
                     /\ token(c) <= global_token' /\ id(c) \in Nat /\ ok[c] \in BOOLEAN
  BY <1>1, <1>2, <1>3, <1>4, <1>5, KnownTypes
<1> HIDE DEF id, token
<1>7. \A c \in hit : /\ rec(c) \in Client /\ rec(c).token = token(c) /\ rec(c).cb = client[c].cb
                     /\ rec(c).initialized /\ ~rec(c).connected
  BY <1>3, <1>6, ClientType DEF Client
<1> HIDE DEF rec
<1>8. \A c \in hit : /\ new(c) \in Client
                     /\ new(c).token = token(c) /\ new(c).cb = client[c].cb
                     /\ new(c).initialized /\ ~new(c).connected
                     /\ Item(rec(c), id(c), ok[c]) \subseteq [id : Nat, token : 1..MaxToken]
                     /\ IsFiniteSet(Item(rec(c), id(c), ok[c]))
  <2> TAKE c \in hit
  <2>1. rec(c).token # 0
    BY <1>6, <1>7
  <2>2. new(c).token = rec(c).token /\ new(c).cb = rec(c).cb
        /\ new(c).initialized = rec(c).initialized /\ new(c).connected = rec(c).connected
    BY <1>7 DEF Asking, Client
  <2> QED BY <1>6, <1>7, <2>1, <2>2, ItemType
<1>9. pending' \subseteq [id : Nat, token : 1..MaxToken] /\ IsFiniteSet(pending')
  <2> DEFINE g == [c \in hit |-> Item(rec(c), id(c), ok[c])]
             sets == {g[c] : c \in hit}
  <2>1. IsFiniteSet(sets)
    <3>1. DOMAIN g = hit
      OBVIOUS
    <3> HIDE DEF g
    <3> QED BY <1>2, <3>1, ImageIsFinite
  <2>2. items = UNION sets
    OBVIOUS
  <2>3. \A T \in sets : T \subseteq [id : Nat, token : 1..MaxToken] /\ IsFiniteSet(T)
    BY <1>8
  <2> HIDE DEF sets, items
  <2>4. items \subseteq [id : Nat, token : 1..MaxToken] /\ IsFiniteSet(items)
    BY <2>1, <2>2, <2>3, FS_UNION
  <2> QED BY <1>1, <2>4, PendingType DEF Known
<1> HIDE DEF new
<1>10. /\ client' \in [Slots -> Client]
       /\ \A c \in Slots : client'[c] = IF c \in hit THEN new(c) ELSE client[c]
  BY <1>1, <1>8, ClientType
<1>11. RestFits
  <2>1. up' \in [Netifs -> BOOLEAN]
    BY <1>1, KnownTypes
  <2>2. off' \in [Slots -> BOOLEAN]
    BY <1>1, <1>6, KnownTypes
  <2>3. global_token' \in 0..MaxToken /\ global_token <= global_token'
    BY <1>1, <1>2, KnownTypes
  <2> QED BY <1>1, <1>9, <1>10, <2>1, <2>2, <2>3, KnownTypes DEF RestFits
<1>12. \A c \in Slots : StaysInUse(c)
  BY <1>3, <1>6, <1>8, <1>10 DEF StaysInUse
<1>13. Posting
  BY <1>1, PostsNothing DEF Known
<1> QED BY <1>11, <1>12, <1>13, ClientsInUse

\* The daemon's step, where it finds its client.
LEMMA WorkMoves ==
  ASSUME Known, NEW w, ConnectWork(w)
  PROVE  ClientsMove /\ Posting
<1> DEFINE mine == {c \in Slots : client[c].initialized /\ client[c].token = w.token}
           c == Min(mine)
           ready == up[client[c].netif]
           rec == [client[c] EXCEPT !.work = 0, !.connected = ready]
           e == Envelope(c, rec, "CONNECTED", <<>>)
           f == Envelope(c, rec, "NOTICE", <<>>)
           g == Envelope(c, rec, "DISCONNECTED", <<>>)
<1>1. /\ pending' \subseteq [id : Nat, token : 1..MaxToken] /\ IsFiniteSet(pending')
      /\ UNCHANGED <<job, global_token, subs, up, born, heard, asked, off>>
  <2>1. pending' \in SUBSET pending
    BY DEF ConnectWork
  <2>2. pending' \subseteq [id : Nat, token : 1..MaxToken] /\ IsFiniteSet(pending')
    BY <2>1, KnownTypes, FS_Subset
  <2> QED BY <2>2 DEF ConnectWork
<1>2. global_token' \in 0..MaxToken /\ global_token <= global_token'
  BY <1>1, KnownTypes
<1>3. CASE mine = {} \/ ~client[c].started
  <2>1. UNCHANGED <<client, queue, sem>>
    BY <1>3 DEF ConnectWork
  <2>2. RestFits
    <3>1. client' \in [Slots -> Client]
      BY <2>1 DEF Known, TypeOK
    <3> QED BY <1>1, <1>2, <3>1, KnownTypes DEF RestFits
  <2>3. \A d \in Slots : StaysInUse(d)
    BY <2>1 DEF StaysInUse
  <2>4. Posting
    BY <1>1, <2>1, PostsNothing DEF Known, loopVars
  <2> QED BY <2>2, <2>3, <2>4, ClientsInUse
<1>4. CASE mine # {} /\ client[c].started
  <2>1. /\ client' = [client EXCEPT ![c] = rec]
        /\ Posted(IF ready THEN <<e>> ELSE <<f, g>>)
    BY <1>4 DEF ConnectWork, Loss
  <2>2. c \in Slots /\ client[c].initialized
    <3>1. mine \subseteq Nat
      BY TablesAreFinite
    <3>2. c \in mine
      BY <1>4, <3>1, MinIsLeast
    <3> QED BY <3>2
  <2> HIDE DEF c, mine
  <2>3. ready \in BOOLEAN
    BY <2>2, KnownTypes, ClientType DEF Client
  <2>4. /\ rec \in Client /\ rec.initialized = client[c].initialized
        /\ rec.token = client[c].token /\ rec.cb = client[c].cb
        /\ rec.started = client[c].started
    <3>1. client[c] \in Client
      BY <2>2, ClientType
    <3> QED BY <2>3, <3>1 DEF Client
  <2> HIDE DEF rec, ready
  <2>5. /\ client' \in [Slots -> Client] /\ client'[c] = rec
        /\ \A d \in Slots : d # c => client'[d] = client[d]
    BY <2>1, <2>2, <2>4, OneClient
  <2>6. RestFits
    BY <1>1, <1>2, <2>5, KnownTypes DEF RestFits
  <2>7. rec.token <= global_token'
    BY <1>1, <2>2, <2>4, ClientType
  <2>8. \A d \in Slots : StaysInUse(d)
    BY <1>4, <2>2, <2>4, <2>5, <2>7 DEF StaysInUse
  <2>9. e \in Event /\ f \in Event /\ g \in Event
    BY <2>2, <2>4, EnvelopeType DEF Known
  <2>10. born'[c] = born[c] /\ rec.cb \subseteq client'[c].cb
    BY <1>1, <2>5
  <2>11. e.token <= global_token' /\ GenuineNext(e)
    BY <2>2, <2>4, <2>7, <2>10, PostIsGenuine
  <2>12. f.token <= global_token' /\ GenuineNext(f)
    BY <2>2, <2>4, <2>7, <2>10, PostIsGenuine
  <2>13. g.token <= global_token' /\ GenuineNext(g)
    BY <2>2, <2>4, <2>7, <2>10, PostIsGenuine
  <2> HIDE DEF e, f, g
  <2>14. Posting
    <3>1. CASE ready
      BY <1>1, <2>1, <2>9, <2>11, <3>1, PostsOne
    <3>2. CASE ~ready
      BY <1>1, <2>1, <2>9, <2>12, <2>13, <3>2, PostsTwo
    <3> QED BY <3>1, <3>2
  <2> QED BY <2>6, <2>8, <2>14, ClientsInUse
<1> QED BY <1>3, <1>4

\* Subscribing and unsubscribing: one notice, and a row of the table.
LEMMA NoticeIsPosted ==
  ASSUME Known, NEW c \in Slots, Posted(<<Envelope(c, client[c], "NOTICE", <<>>)>>),
         UNCHANGED <<client, global_token, born, job>>
  PROVE  Posting
<1> DEFINE e == Envelope(c, client[c], "NOTICE", <<>>)
<1>1. client[c] \in Client /\ client[c].token <= global_token'
  BY ClientType
<1>2. e \in Event
  BY <1>1, EnvelopeType DEF Known
<1>3. born'[c] = born[c] /\ client[c].cb \subseteq client'[c].cb
  OBVIOUS
<1>4. e.token <= global_token' /\ GenuineNext(e)
  BY <1>1, <1>3, PostIsGenuine
<1> QED BY <1>2, <1>4, PostsOne

LEMMA SubscribeMoves ==
  ASSUME Known, NEW c \in Slots, NEW f \in Filters, Subscribe(c, f)
  PROVE  ClientsMove /\ Posting
<1> DEFINE row == [client |-> c, filter |-> f]
<1>1. /\ client[c].initialized
      /\ asked' = [asked EXCEPT ![c] = @ \union {f}]
      /\ UNCHANGED <<client, global_token, pending, up, born, heard, off, job>>
  BY DEF Subscribe
<1>2. row \in [client : 0..MaxClients, filter : Filters \union {<<>>}]
  BY DEF Slots
<1>3. /\ subs \in [SubSlots -> [client : 0..MaxClients, filter : Filters \union {<<>>}]]
      /\ asked \in [Slots -> SUBSET Filters]
  BY DEF Known, TypeOK
<1>4. /\ asked' \in [Slots -> SUBSET Filters] /\ f \in asked'[c]
      /\ \A d \in Slots : asked[d] \subseteq asked'[d]
  BY <1>1, <1>3
<1>5. /\ subs' \in [SubSlots -> [client : 0..MaxClients, filter : Filters \union {<<>>}]]
      /\ \A i \in SubSlots : subs'[i] = subs[i] \/ subs'[i] = row
  <2>1. CASE UNCHANGED subs
    BY <1>3, <2>1
  <2>2. CASE \E i \in SubSlots : subs' = [subs EXCEPT ![i] = row]
    <3> HIDE DEF row
    <3> QED BY <1>2, <1>3, <2>2
  <2> QED BY <2>1, <2>2 DEF Subscribe
<1>6. row.client = c /\ row.filter = f
  OBVIOUS
<1> HIDE DEF row
<1>7. ClientTypes'
  BY <1>1, <1>4, <1>5, KnownTypes DEF Known, TypeOK, ClientTypes
<1>8. ClientsOk'
  BY <1>1 DEF Known, ClientsOk
<1>9. SubsOk'
  BY <1>1, <1>4, <1>5, <1>6 DEF Known, SubsOk
<1>10. \A d \in Slots : Onward(d)
  BY <1>1, <1>4 DEF Onward
<1>11. Posting
  BY <1>1, NoticeIsPosted DEF Subscribe
<1>12. global_token <= global_token'
  BY <1>1, KnownTypes
<1> QED BY <1>7, <1>8, <1>9, <1>10, <1>11, <1>12 DEF ClientsMove

LEMMA UnsubscribeMoves ==
  ASSUME Known, NEW c \in Slots, NEW f \in Filters, Unsubscribe(c, f)
  PROVE  ClientsMove /\ Posting
<1>1. /\ UNCHANGED <<client, global_token, pending, up, born, heard, asked, off, job>>
      /\ subs' = [i \in SubSlots |->
                    IF subs[i] = [client |-> c, filter |-> f] THEN NoSub ELSE subs[i]]
  BY DEF Unsubscribe
<1>2. NoSub \in [client : 0..MaxClients, filter : Filters \union {<<>>}]
  BY DEF NoSub
<1>3. subs \in [SubSlots -> [client : 0..MaxClients, filter : Filters \union {<<>>}]]
  BY DEF Known, TypeOK
<1>4. \A i \in SubSlots : subs'[i] = NoSub \/ subs'[i] = subs[i]
  BY <1>1
<1>5. subs' \in [SubSlots -> [client : 0..MaxClients, filter : Filters \union {<<>>}]]
  BY <1>1, <1>2, <1>3
<1>6. ClientTypes'
  BY <1>1, <1>5, KnownTypes DEF Known, TypeOK, ClientTypes
<1>7. ClientsOk'
  BY <1>1 DEF Known, ClientsOk
<1>8. SubsOk'
  BY <1>1, <1>4 DEF Known, SubsOk
<1>9. \A d \in Slots : Onward(d)
  BY <1>1 DEF Onward
<1>10. Posting
  BY <1>1, NoticeIsPosted DEF Unsubscribe
<1>11. global_token <= global_token'
  BY <1>1, KnownTypes
<1> QED BY <1>6, <1>7, <1>8, <1>9, <1>10, <1>11 DEF ClientsMove

\* Messages, and the publisher's notice.
LEMMA DataIsGenuine ==
  ASSUME Known, NEW t \in Topics, UNCHANGED clientVars
  PROVE  /\ DataFor(t) \in Seq(Event)
         /\ \A k \in 1..Len(DataFor(t)) :
               /\ DataFor(t)[k].token <= global_token'
               /\ GenuineNext(DataFor(t)[k])
<1> DEFINE evs == DataFor(t)
<1>1. /\ evs \in Seq(Event)
      /\ \A k \in 1..Len(evs) : \E c \in Slots :
            /\ evs[k] = Envelope(c, client[c], "DATA", t)
            /\ \E f \in asked[c] : TopicMatch(f, t)
  BY DataIs DEF Known
<1> HIDE DEF evs
<1>2. \A k \in 1..Len(evs) : evs[k].token <= global_token' /\ GenuineNext(evs[k])
  <2> TAKE k \in 1..Len(evs)
  <2>1. PICK c \in Slots : /\ evs[k] = Envelope(c, client[c], "DATA", t)
                           /\ \E f \in asked[c] : TopicMatch(f, t)
    BY <1>1
  <2>2. client[c].token <= global_token
    BY ClientType
  <2> QED BY <2>1, <2>2 DEF Envelope, GenuineNext, clientVars
<1> QED BY <1>1, <1>2 DEF evs

LEMMA PublishMoves ==
  ASSUME Known, NEW c \in Slots, NEW t \in Topics, NEW confirmed \in BOOLEAN,
         Publish(c, t, confirmed)
  PROVE  ClientsMove /\ Posting
<1> DEFINE e == Envelope(c, client[c], "NOTICE", <<>>)
           d == DataFor(t)
           more == IF confirmed THEN <<e>> ELSE <<>>
           evs == d \o more
<1>1. UNCHANGED clientVars /\ UNCHANGED job /\ Posted(evs)
  BY DEF Publish
<1>2. /\ d \in Seq(Event)
      /\ \A k \in 1..Len(d) : d[k].token <= global_token' /\ GenuineNext(d[k])
  BY <1>1, DataIsGenuine
<1>3. client[c] \in Client /\ client[c].token <= global_token'
  BY <1>1, ClientType DEF clientVars
<1>4. e \in Event
  BY <1>3, EnvelopeType DEF Known
<1>5. e.token <= global_token' /\ GenuineNext(e)
  <2>1. born'[c] = born[c] /\ client[c].cb \subseteq client'[c].cb
    BY <1>1 DEF clientVars
  <2> QED BY <1>3, <2>1, PostIsGenuine
<1> HIDE DEF e, d
<1>6. more \in Seq(Event) /\ Len(more) \in Nat /\ \A k \in 1..Len(more) : more[k] = e
  <2>1. CASE confirmed
    BY <1>4, <2>1, OneEvent
  <2>2. CASE ~confirmed
    BY <2>2, EmptySeq
  <2> QED BY <2>1, <2>2
<1> HIDE DEF more
<1>7. /\ evs \in Seq(Event) /\ Len(evs) = Len(d) + Len(more)
      /\ \A k \in 1..(Len(d) + Len(more)) :
            evs[k] = IF k <= Len(d) THEN d[k] ELSE more[k - Len(d)]
  BY <1>2, <1>6, ConcatProperties
<1>8. \A k \in 1..Len(evs) : evs[k].token <= global_token' /\ GenuineNext(evs[k])
  <2> TAKE k \in 1..Len(evs)
  <2>1. Len(d) \in Nat
    BY <1>2
  <2>2. CASE k <= Len(d)
    BY <1>2, <1>6, <1>7, <2>1, <2>2
  <2>3. CASE k > Len(d)
    <3>1. k - Len(d) \in 1..Len(more) /\ evs[k] = more[k - Len(d)]
      BY <1>6, <1>7, <2>1, <2>3
    <3>2. evs[k] = e
      BY <1>6, <3>1
    <3> QED BY <1>5, <3>2
  <2> QED BY <1>6, <1>7, <2>1, <2>2, <2>3
<1> HIDE DEF evs
<1>9. Posting
  BY <1>1, <1>7, <1>8 DEF Posting
<1> QED BY <1>1, <1>9, ClientsRest

LEMMA InjectMoves ==
  ASSUME Known, NEW t \in Topics, Inject(t)
  PROVE  ClientsMove /\ Posting
<1>1. UNCHANGED clientVars /\ UNCHANGED job /\ Posted(DataFor(t))
  BY DEF Inject
<1> QED BY <1>1, ClientsRest, DataIsGenuine DEF Posting

\* Every step of the clients and the network moves the clients on and posts what is
\* genuine; the others take an event or return from a call.
LEMMA Steps ==
  ASSUME Known, Next
  PROVE  \/ ClientsMove /\ Posting
         \/ \E r \in Runners : Take(r) \/ CallReturns(r)
<1>1. CASE LifeCycle
  <2>1. PICK c \in Slots :
           \/ \E n \in Netifs, cb \in Configs : ClientInit(c, n, cb)
           \/ RegisterEvent(c)
           \/ \E n \in Netifs : SetNetif(c, n)
           \/ \E ok \in PostResults : Start(c, ok) \/ Reconnect(c, ok)
           \/ Stop(c) \/ Disconnect(c) \/ Destroy(c)
    BY <1>1 DEF LifeCycle
  <2>2. CASE \E n \in Netifs, cb \in Configs : ClientInit(c, n, cb)
    BY <2>2, InitMoves
  <2>3. CASE RegisterEvent(c)
    BY <2>3, RegisterMoves
  <2>4. CASE \E n \in Netifs : SetNetif(c, n)
    BY <2>4, SetNetifMoves
  <2>5. CASE \E ok \in PostResults : Start(c, ok) \/ Reconnect(c, ok)
    BY <2>5, StartMoves, ReconnectMoves
  <2>6. CASE Stop(c) \/ Disconnect(c) \/ Destroy(c)
    BY <2>6, StopMoves, DisconnectMoves, DestroyMoves
  <2> QED BY <2>1, <2>2, <2>3, <2>4, <2>5, <2>6
<1>2. CASE Network
  BY <1>2, NetDownMoves, NetUpMoves DEF Network
<1>3. CASE Messages
  BY <1>3, SubscribeMoves, UnsubscribeMoves, PublishMoves, InjectMoves DEF Messages
<1>4. CASE \E w \in pending : ConnectWork(w)
  BY <1>4, WorkMoves
<1> QED BY <1>1, <1>2, <1>3, <1>4 DEF Next

\* Moving on and posting keep the invariant.
LEMMA PostingKeeps ==
  ASSUME IInv, ClientsMove, Posting PROVE IInv'
<1> USE DEF IInv
<1>1. PICK evs \in Seq(Event) :
         /\ Posted(evs) /\ UNCHANGED job
         /\ \A k \in 1..Len(evs) : evs[k].token <= global_token' /\ GenuineNext(evs[k])
  BY DEF Posting
<1>2. /\ queue' \in Seq(Event) /\ sem' \in 0..QueueCapacity
      /\ Len(queue') = IF Len(queue) + Len(evs) <= QueueCapacity
                       THEN Len(queue) + Len(evs) ELSE QueueCapacity
      /\ \A i \in 1..Len(queue) : queue'[i] = queue[i]
      /\ \A i \in 1..Len(queue') :
            i > Len(queue) => /\ i - Len(queue) \in 1..Len(evs)
                              /\ queue'[i] = evs[i - Len(queue)]
      /\ LoopIsAwake => LoopIsAwake'
  BY <1>1, PostedIs
<1>3. TypeOK'
  <2>1. Len(queue') <= QueueCapacity
    BY <1>2
  <2>2. job' \in [Runners -> 0..2]
    BY <1>1 DEF TypeOK
  <2> QED BY <1>2, <2>1, <2>2 DEF ClientsMove, ClientTypes, TypeOK
<1>4. EventsOk'
  <2> SUFFICES ASSUME NEW i \in 1..Len(queue')
               PROVE  queue'[i].token <= global_token' /\ GenuineNext(queue'[i])
    <3>1. DOMAIN queue' = 1..Len(queue')
      BY <1>2
    <3> QED BY <3>1 DEF EventsOk, Genuine, GenuineNext
  <2>1. queue \in Seq(Event) /\ Len(queue) \in Nat /\ Len(queue') \in Nat
    BY <1>2 DEF TypeOK
  <2>2. CASE i <= Len(queue)
    <3> DEFINE ev == queue[i]
    <3>1. queue'[i] = ev /\ i \in DOMAIN queue /\ ev \in Event
      BY <1>2, <2>1, <2>2
    <3>2. ev.slot \in Slots /\ ev.token \in Nat
      BY <3>1 DEF Event
    <3>3. ev.token <= global_token /\ Genuine(ev)
      BY <3>1 DEF EventsOk
    <3>4. Onward(ev.slot) /\ global_token <= global_token'
      BY <3>2 DEF ClientsMove
    <3>5. global_token \in Nat /\ global_token' \in Nat
      BY <1>3 DEF TypeOK
    <3> HIDE DEF ev
    <3>6. GenuineNext(ev)
      BY <3>2, <3>3, <3>4, <3>5 DEF Onward, Genuine, GenuineNext
    <3>7. ev.token <= global_token'
      BY <3>2, <3>3, <3>4, <3>5
    <3> QED BY <3>1, <3>6, <3>7
  <2>3. CASE i > Len(queue)
    BY <1>1, <1>2, <2>3
  <2> QED BY <2>1, <2>2, <2>3
<1>5. LoopIsAwake'
  BY <1>2
<1> QED BY <1>3, <1>4, <1>5 DEF ClientsMove

\* Taking an event keeps it.
LEMMA TakeKeeps ==
  ASSUME IInv, NEW r \in Runners, Take(r) PROVE IInv'
<1> USE DEF IInv
<1>1. UNCHANGED <<client, global_token, subs, pending, up, born, asked, off>>
  BY DEF Take
<1>2. ClientsOk' /\ SubsOk'
  BY <1>1 DEF ClientsOk, SubsOk
<1>3. sem' = SemAfter(r)
  BY DEF Take
<1>4. sem' \in 0..QueueCapacity /\ sem' >= sem - 1
  BY <1>3, SemStays
<1>5. CASE queue = <<>>
  <2>1. UNCHANGED <<queue, job, heard>>
    BY <1>5 DEF Take
  <2>2. TypeOK'
    BY <1>1, <1>4, <2>1 DEF TypeOK
  <2>3. EventsOk'
    BY <1>1, <2>1 DEF EventsOk, Genuine
  <2>4. LoopIsAwake'
    <3>1. Len(queue') = 0
      BY <1>5, <2>1, EmptySeq
    <3> QED BY <1>4, <3>1 DEF LoopIsAwake
  <2> QED BY <1>2, <2>2, <2>3, <2>4
<1>6. CASE queue # <<>>
  <2> DEFINE ev == Head(queue)
  <2>1. /\ queue' \in Seq(Event)
        /\ Len(queue) \in Nat \ {0} /\ Len(queue') = Len(queue) - 1
        /\ \A i \in 1..Len(queue') : queue'[i] = queue[i + 1]
        /\ ev \in Event
    BY <1>6, TakeIs
  <2>2. /\ job' = [job EXCEPT ![r] = Len(CallsFor(ev))]
        /\ heard' = Heard(ev, CallsFor(ev))
    BY <1>6 DEF Take
  <2> HIDE DEF ev
  <2>3. Len(CallsFor(ev)) \in 0..2
    BY DEF CallsFor, UserCalls
  <2>4. job' \in [Runners -> 0..2]
    BY <2>2, <2>3 DEF TypeOK
  <2>5. heard' \in [Slots -> {"nothing", "CONNECTED", "DISCONNECTED"}]
    BY <2>2 DEF Heard, TypeOK
  <2>6. Len(queue') <= QueueCapacity
    BY <2>1 DEF TypeOK
  <2>7. TypeOK'
    BY <1>1, <1>4, <2>1, <2>4, <2>5, <2>6 DEF TypeOK
  <2>8. EventsOk'
    <3> SUFFICES ASSUME NEW i \in 1..Len(queue')
                 PROVE  queue'[i].token <= global_token' /\ GenuineNext(queue'[i])
      <4>1. DOMAIN queue' = 1..Len(queue')
        BY <2>1
      <4> QED BY <4>1 DEF EventsOk, Genuine, GenuineNext
    <3>1. queue \in Seq(Event)
      BY DEF TypeOK
    <3>2. i + 1 \in DOMAIN queue /\ queue'[i] = queue[i + 1]
      BY <2>1, <3>1
    <3>3. queue[i + 1].token <= global_token /\ Genuine(queue[i + 1])
      BY <3>2 DEF EventsOk
    <3> QED BY <1>1, <3>2, <3>3 DEF Genuine, GenuineNext
  <2>9. LoopIsAwake'
    <3>1. Len(queue) <= sem /\ sem \in Nat
      BY DEF LoopIsAwake, TypeOK
    <3> QED BY <1>4, <2>1, <3>1 DEF LoopIsAwake
  <2> QED BY <1>2, <2>7, <2>8, <2>9
<1> QED BY <1>5, <1>6

LEMMA Inductive == IInv /\ [Next]_vars => IInv'
<1> SUFFICES ASSUME IInv, [Next]_vars PROVE IInv'
  OBVIOUS
<1>1. CASE UNCHANGED vars
  BY <1>1 DEF IInv, vars, loopVars, clientVars, TypeOK, ClientsOk, SubsOk, EventsOk,
              Genuine, LoopIsAwake
<1>2. ASSUME NEW r \in Runners, CallReturns(r) PROVE IInv'
  <2>1. UNCHANGED <<queue, sem>> /\ UNCHANGED clientVars
    BY <1>2 DEF CallReturns, Continue
  <2>2. job' \in [Runners -> 0..2]
    <3>1. /\ job \in [Runners -> 0..2] /\ job[r] > 0
          /\ job' = [job EXCEPT ![r] = job[r] - 1]
      BY <1>2 DEF CallReturns, Continue, IInv, TypeOK
    <3> QED BY <3>1
  <2> QED BY <2>1, <2>2 DEF IInv, clientVars, TypeOK, ClientsOk, SubsOk, EventsOk,
                            Genuine, LoopIsAwake
<1>3. CASE Next
  <2>1. CASE ClientsMove /\ Posting
    BY <2>1, PostingKeeps
  <2>2. CASE \E r \in Runners : Take(r) \/ CallReturns(r)
    BY <1>2, <2>2, TakeKeeps
  <2>3. Known
    BY DEF IInv, Known
  <2> QED BY <1>3, <2>1, <2>2, <2>3, Steps
<1> QED BY <1>1, <1>3

LEMMA Initially == Init => IInv
<1> SUFFICES ASSUME Init PROVE IInv
  OBVIOUS
<1>1. TypeOK
  <2>1. queue \in Seq(Event) /\ Len(queue) = 0
    BY EmptySeq DEF Init, LoopInit
  <2>2. IsFiniteSet(pending)
    BY FS_EmptySet DEF Init
  <2>3. NoSub \in [client : 0..MaxClients, filter : Filters \union {<<>>}]
    BY DEF NoSub
  <2> QED BY <2>1, <2>2, <2>3, ZeroType DEF Init, LoopInit, TypeOK
<1>2. ClientsOk /\ SubsOk
  BY DEF Init, ClientsOk, SubsOk, Zero
<1>3. EventsOk /\ LoopIsAwake
  BY EmptySeq DEF Init, LoopInit, EventsOk, LoopIsAwake
<1> QED BY <1>1, <1>2, <1>3 DEF IInv

-----------------------------------------------------------------------------
(* What holds in every state.                                              *)

\* The invariant holds in every state.
THEOREM Invariance == Spec => []IInv
BY Initially, Inductive, PTL DEF Spec

\* The variables of the loop and the clients keep their types.
THEOREM TypeCorrect == Spec => []TypeOK
<1>1. IInv => TypeOK
  BY DEF IInv
<1> QED BY <1>1, Invariance, PTL

\* The semaphore never counts fewer events than wait in the queue.
THEOREM LoopStaysAwake == Spec => []LoopIsAwake
<1>1. IInv => LoopIsAwake
  BY DEF IInv
<1> QED BY <1>1, Invariance, PTL

\* No event of a client that is gone is handed to the one that has its slot, and no
\* message to a client that has not asked for it.
THEOREM DeliveriesAreRight == Spec => []DeliveriesAreDue
<1>1. IInv => DeliveriesAreDue
  <2> SUFFICES ASSUME IInv, queue # <<>>, CallsFor(Head(queue)) # <<>>,
                      Head(queue).id # "DELETED"
               PROVE  LET ev == Head(queue)
                      IN  /\ client[ev.slot].initialized /\ ev.born = born[ev.slot]
                          /\ ev.id = "DATA" => \E f \in asked[ev.slot] : TopicMatch(f, ev.of)
    BY DEF DeliveriesAreDue
  <2> DEFINE ev == Head(queue)
  <2>1. ev = queue[1] /\ 1 \in DOMAIN queue
    <3>1. queue \in Seq(Event)
      BY DEF IInv, TypeOK
    <3> QED BY <3>1, EmptySeq
  <2>2. Genuine(ev)
    BY <2>1 DEF IInv, EventsOk
  <2>3. Lives(ev)
    BY DEF CallsFor
  <2> QED BY <2>2, <2>3 DEF Lives, Genuine
<1> QED BY <1>1, Invariance, PTL

-----------------------------------------------------------------------------
(* What the callbacks will have heard.                                     *)

\* An event that is a word for client c after the step.
IsWordNext(c, ev) ==
    /\ ev.slot = c /\ ev.token = client'[c].token
    /\ First(c)' \in ev.cb
    /\ ev.id \in {"CONNECTED", "DISCONNECTED"}

\* Events without one for client c.
Quiet(c, evs) ==
    \A k \in 1..Len(evs) : evs[k].slot # c \/ evs[k].id \notin {"CONNECTED", "DISCONNECTED"}

\* Nothing has changed in what client c is and in what its callback will have heard.
Even(c) == client'[c].connected = client[c].connected /\ LastWord(c)' = LastWord(c)

\* The last word is the state of today.
Told(c) == LastWord(c)' = IF client'[c].connected THEN "CONNECTED" ELSE "DISCONNECTED"

\* The outcomes of a step for client c.
Outcome(c) ==
    \/ Even(c) \/ Told(c) \/ Excuse(c)
    \/ client'[c].cb # client[c].cb
    \/ client'[c].cb = {}

LEMMA WordsAre ==
  ASSUME TypeOK, NEW c
  PROVE  /\ Words(c) \subseteq Nat /\ \A i \in Words(c) : i <= Len(queue)
         /\ \A i : i \in Words(c) <=> i \in 1..Len(queue) /\ IsWord(c, queue[i])
         /\ Words(c) # {} => /\ Max(Words(c)) \in Words(c)
                             /\ \A i \in Words(c) : i <= Max(Words(c))
<1>1. queue \in Seq(Event) /\ Len(queue) \in Nat
  BY DEF TypeOK
<1>2. \A i : i \in Words(c) <=> i \in 1..Len(queue) /\ IsWord(c, queue[i])
  BY <1>1 DEF Words
<1>3. Words(c) \subseteq Nat /\ \A i \in Words(c) : i <= Len(queue)
  BY <1>1, <1>2
<1>4. Words(c) # {} => /\ Max(Words(c)) \in Words(c)
                       /\ \A i \in Words(c) : i <= Max(Words(c))
  BY <1>1, <1>3, MaxIsGreatest
<1> QED BY <1>2, <1>3, <1>4

\* The same after the step.
LEMMA WordsNext ==
  ASSUME TypeOK', NEW c
  PROVE  /\ Words(c)' \subseteq Nat /\ \A i \in Words(c)' : i <= Len(queue')
         /\ \A i : i \in Words(c)' <=> i \in 1..Len(queue') /\ IsWordNext(c, queue'[i])
         /\ Words(c)' # {} => /\ Max(Words(c)') \in Words(c)'
                              /\ \A i \in Words(c)' : i <= Max(Words(c)')
         /\ LastWord(c)' = IF Words(c)' = {} THEN heard'[c] ELSE queue'[Max(Words(c)')].id
<1>1. queue' \in Seq(Event) /\ Len(queue') \in Nat
  BY DEF TypeOK
<1>2. \A i : i \in Words(c)' <=> i \in 1..Len(queue') /\ IsWordNext(c, queue'[i])
  BY <1>1 DEF Words, IsWord, IsWordNext
<1>3. Words(c)' \subseteq Nat /\ \A i \in Words(c)' : i <= Len(queue')
  BY <1>1, <1>2
<1>4. Words(c)' # {} => /\ Max(Words(c)') \in Words(c)'
                        /\ \A i \in Words(c)' : i <= Max(Words(c)')
  BY <1>1, <1>3, MaxIsGreatest
<1>5. LastWord(c)' = IF Words(c)' = {} THEN heard'[c] ELSE queue'[Max(Words(c)')].id
  BY DEF LastWord
<1> QED BY <1>2, <1>3, <1>4, <1>5

\* A client whose token stays, and of which nothing is said.
LEMMA Unmoved ==
  ASSUME IInv, IInv', NEW c \in Slots, NEW evs \in Seq(Event), Posted(evs), Quiet(c, evs),
         client'[c].token = client[c].token, client'[c].connected = client[c].connected,
         client'[c].cb = client[c].cb, heard'[c] = heard[c]
  PROVE  Even(c)
<1>1. TypeOK /\ TypeOK' /\ Len(queue) \in Nat
  <2>1. TypeOK
    BY DEF IInv
  <2>2. TypeOK'
    BY DEF IInv
  <2>3. Len(queue) \in Nat
    BY <2>1 DEF TypeOK
  <2> QED BY <2>1, <2>2, <2>3
<1>2. /\ Len(queue') >= Len(queue)
      /\ \A i \in 1..Len(queue) : queue'[i] = queue[i]
      /\ \A i \in 1..Len(queue') : i > Len(queue) => \E k \in 1..Len(evs) : queue'[i] = evs[k]
  <2>1. Len(queue) <= QueueCapacity /\ Len(evs) \in Nat /\ QueueCapacity \in Nat
    BY <1>1 DEF TypeOK
  <2>2. /\ Len(queue') = IF Len(queue) + Len(evs) <= QueueCapacity
                         THEN Len(queue) + Len(evs) ELSE QueueCapacity
        /\ \A i \in 1..Len(queue) : queue'[i] = queue[i]
        /\ \A i \in 1..Len(queue') :
              i > Len(queue) => /\ i - Len(queue) \in 1..Len(evs)
                                /\ queue'[i] = evs[i - Len(queue)]
    BY <1>1, PostedIs
  <2> QED BY <1>1, <2>1, <2>2
<1>3. \A ev : IsWordNext(c, ev) <=> IsWord(c, ev)
  BY DEF IsWord, IsWordNext, First
<1>4. \A k \in 1..Len(evs) : ~IsWord(c, evs[k])
  BY DEF Quiet, IsWord
<1>5. \A i : i \in Words(c)' <=> i \in Words(c)
  <2> TAKE i
  <2>1. CASE i \in 1..Len(queue)
    <3>1. i \in 1..Len(queue')
      BY <1>1, <1>2, <2>1 DEF TypeOK
    <3> QED BY <1>1, <1>2, <1>3, <2>1, <3>1, WordsAre, WordsNext
  <2>2. CASE i \notin 1..Len(queue)
    <3>1. i \notin Words(c)
      BY <1>1, <2>2, WordsAre
    <3>2. ASSUME i \in Words(c)' PROVE FALSE
      <4>1. i \in 1..Len(queue') /\ IsWordNext(c, queue'[i]) /\ i > Len(queue)
        BY <1>1, <2>2, <3>2, WordsNext
      <4> QED BY <1>2, <1>3, <1>4, <4>1
    <3> QED BY <3>1, <3>2
  <2> QED BY <2>1, <2>2
<1>6. Words(c)' = Words(c)
  BY <1>5
<1>7. CASE Words(c) = {}
  BY <1>1, <1>6, <1>7, WordsNext DEF LastWord, Even
<1>8. CASE Words(c) # {}
  <2>1. Max(Words(c)) \in 1..Len(queue)
    BY <1>1, <1>8, WordsAre
  <2>2. queue'[Max(Words(c))] = queue[Max(Words(c))]
    BY <1>2, <2>1
  <2> QED BY <1>1, <1>6, <1>8, <2>2, WordsNext DEF LastWord, Even
<1> QED BY <1>7, <1>8

\* A client that is down and gets a new token: no event in the queue has that token.
LEMMA Renewed ==
  ASSUME IInv, IInv', NEW c \in Slots, NEW evs \in Seq(Event), Posted(evs), Quiet(c, evs),
         client'[c].token > global_token, ~client[c].connected, ~client'[c].connected,
         client'[c].cb = client[c].cb, heard'[c] = heard[c]
  PROVE  Even(c) \/ Excuse(c)
<1>1. TypeOK /\ TypeOK' /\ Len(queue) \in Nat /\ Known
  <2>1. TypeOK
    BY DEF IInv
  <2>2. TypeOK' /\ Known
    BY DEF IInv, Known
  <2>3. Len(queue) \in Nat
    BY <2>1 DEF TypeOK
  <2> QED BY <2>1, <2>2, <2>3
<1>2. client[c].token <= global_token /\ client[c].token \in Nat /\ global_token \in Nat
  BY <1>1, ClientType
<1>3. client'[c].token \in Nat
  BY <1>1 DEF TypeOK, Client
<1>4. CASE Words(c) # {}
  BY <1>2, <1>3, <1>4 DEF Excuse
<1>5. CASE Words(c) = {}
  <2>1. /\ \A i \in 1..Len(queue) : queue'[i] = queue[i]
        /\ \A i \in 1..Len(queue') :
              i > Len(queue) => \E k \in 1..Len(evs) : queue'[i] = evs[k]
    BY <1>1, PostedIs
  <2>2. \A i \in 1..Len(queue) : queue[i].token <= global_token /\ queue[i].token \in Nat
    <3>1. DOMAIN queue = 1..Len(queue) /\ \A i \in 1..Len(queue) : queue[i] \in Event
      BY <1>1 DEF TypeOK
    <3>2. \A i \in 1..Len(queue) : queue[i].token \in Nat
      BY <3>1 DEF Event
    <3> QED BY <3>1, <3>2 DEF IInv, EventsOk
  <2>3. ASSUME NEW i \in 1..Len(queue'), IsWordNext(c, queue'[i]) PROVE FALSE
    <3>1. CASE i <= Len(queue)
      <4>1. i \in 1..Len(queue)
        BY <1>1, <2>3, <3>1
      <4>2. queue[i].token = client'[c].token
        BY <2>1, <2>3, <4>1 DEF IsWordNext
      <4> QED BY <1>2, <1>3, <2>2, <4>1, <4>2
    <3>2. CASE i > Len(queue)
      BY <2>1, <2>3, <3>2 DEF IsWordNext, Quiet
    <3> QED BY <1>1, <3>1, <3>2 DEF TypeOK
  <2>4. Words(c)' = {}
    BY <1>1, <2>3, WordsNext
  <2>5. LastWord(c)' = heard[c] /\ LastWord(c) = heard[c]
    BY <1>1, <1>5, <2>4, WordsNext DEF LastWord
  <2>6. client'[c].connected \in BOOLEAN /\ client[c].connected \in BOOLEAN
    BY <1>1 DEF TypeOK, Client
  <2>7. client'[c].connected = client[c].connected
    BY <2>6
  <2> QED BY <2>5, <2>7 DEF Even
<1> QED BY <1>4, <1>5

\* A client of which something is said: it is the last word, or the queue is full.
LEMMA Said ==
  ASSUME IInv, IInv', NEW c \in Slots, NEW evs \in Seq(Event), Posted(evs),
         Len(evs) <= 2 * MaxClients,
         NEW m \in 1..Len(evs), IsWordNext(c, evs[m]), NEW id,
         \A k \in 1..Len(evs) : IsWordNext(c, evs[k]) => evs[k].id = id
  PROVE  LastWord(c)' = id \/ Excuse(c)
<1>1. /\ TypeOK /\ TypeOK' /\ Len(queue) \in Nat /\ Len(queue) <= QueueCapacity
      /\ Len(evs) \in Nat /\ QueueCapacity \in Nat /\ MaxClients \in Nat
  <2>1. TypeOK
    BY DEF IInv
  <2>2. TypeOK'
    BY DEF IInv
  <2>3. Len(queue) \in Nat /\ Len(queue) <= QueueCapacity
    BY <2>1 DEF TypeOK
  <2>4. Len(evs) \in Nat /\ QueueCapacity \in Nat /\ MaxClients \in Nat
    OBVIOUS
  <2> QED BY <2>1, <2>2, <2>3, <2>4
<1>2. /\ Len(queue') = IF Len(queue) + Len(evs) <= QueueCapacity
                       THEN Len(queue) + Len(evs) ELSE QueueCapacity
      /\ \A i \in 1..Len(queue') :
            i > Len(queue) => /\ i - Len(queue) \in 1..Len(evs)
                              /\ queue'[i] = evs[i - Len(queue)]
  BY <1>1, PostedIs
<1>3. CASE Len(queue) + Len(evs) > QueueCapacity
  <2>1. Len(queue') = QueueCapacity /\ Len(queue) > QueueCapacity - 2 * MaxClients
    BY <1>1, <1>2, <1>3
  <2> QED BY <2>1 DEF Excuse
<1>4. CASE Len(queue) + Len(evs) <= QueueCapacity
  <2> DEFINE j == Len(queue) + m
  <2>1. j \in 1..Len(queue') /\ j > Len(queue) /\ j - Len(queue) = m
    BY <1>1, <1>2, <1>4
  <2>2. queue'[j] = evs[m]
    BY <1>2, <2>1
  <2>3. j \in Words(c)'
    BY <1>1, <2>1, <2>2, WordsNext
  <2> DEFINE w == Max(Words(c)')
  <2>4. w \in Words(c)' /\ j <= w
    BY <1>1, <2>3, WordsNext
  <2>5. w \in 1..Len(queue') /\ IsWordNext(c, queue'[w])
    BY <1>1, <2>4, WordsNext
  <2> HIDE DEF j
  <2>6. w > Len(queue)
    BY <1>1, <2>1, <2>4, <2>5
  <2>7. queue'[w].id = id
    BY <1>2, <2>5, <2>6
  <2> QED BY <1>1, <2>3, <2>7, WordsNext
<1> QED BY <1>1, <1>3, <1>4

\* Steps of other clients, and steps that post nothing.
LEMMA NothingSaid ==
  ASSUME IInv, IInv', NEW c \in Slots, UNCHANGED <<queue, sem>>,
         client'[c].token = client[c].token, client'[c].connected = client[c].connected,
         client'[c].cb = client[c].cb, heard'[c] = heard[c]
  PROVE  Even(c)
<1> DEFINE evs == <<>>
<1>1. evs \in Seq(Event) /\ Posted(evs) /\ Len(evs) = 0
  BY NothingPosted, EmptySeq DEF IInv
<1>2. Quiet(c, evs)
  BY <1>1 DEF Quiet
<1> HIDE DEF evs
<1> QED BY <1>1, <1>2, Unmoved

LEMMA OneQuiet ==
  ASSUME NEW c, NEW e \in Event, e.slot # c \/ e.id \notin {"CONNECTED", "DISCONNECTED"}
  PROVE  <<e>> \in Seq(Event) /\ Quiet(c, <<e>>)
<1> DEFINE evs == <<e>>
<1>1. evs \in Seq(Event) /\ Len(evs) = 1 /\ evs[1] = e
  BY OneEvent
<1>2. \A k \in 1..Len(evs) : evs[k] = e
  BY <1>1
<1> QED BY <1>1, <1>2 DEF Quiet

LEMMA TwoQuiet ==
  ASSUME NEW c, NEW e \in Event, NEW f \in Event, e.slot # c, f.slot # c
  PROVE  <<e, f>> \in Seq(Event) /\ Quiet(c, <<e, f>>)
<1> DEFINE evs == <<e, f>>
<1>1. evs \in Seq(Event) /\ Len(evs) = 2 /\ evs[1] = e /\ evs[2] = f
  BY TwoEvents
<1>2. \A k \in 1..Len(evs) : evs[k] = e \/ evs[k] = f
  BY <1>1
<1> QED BY <1>1, <1>2 DEF Quiet

\* One word alone, or after an event that is none.
LEMMA SaidAlone ==
  ASSUME IInv, IInv', NEW c \in Slots, NEW e \in Event, Posted(<<e>>), IsWordNext(c, e)
  PROVE  LastWord(c)' = e.id \/ Excuse(c)
<1> DEFINE evs == <<e>>
<1>1. evs \in Seq(Event) /\ Len(evs) = 1 /\ evs[1] = e
  BY OneEvent
<1>2. Len(evs) <= 2 * MaxClients /\ 1 \in 1..Len(evs) /\ \A k \in 1..Len(evs) : evs[k] = e
  BY <1>1
<1>3. Posted(evs) /\ IsWordNext(c, evs[1])
  BY <1>1
<1>4. \A k \in 1..Len(evs) : IsWordNext(c, evs[k]) => evs[k].id = e.id
  BY <1>2
<1> HIDE DEF evs
<1> QED BY <1>1, <1>2, <1>3, <1>4, Said

LEMMA SaidAfter ==
  ASSUME IInv, IInv', NEW c \in Slots, NEW e \in Event, NEW f \in Event, Posted(<<e, f>>),
         e.id = "NOTICE", IsWordNext(c, f)
  PROVE  LastWord(c)' = f.id \/ Excuse(c)
<1> DEFINE evs == <<e, f>>
<1>1. evs \in Seq(Event) /\ Len(evs) = 2 /\ evs[1] = e /\ evs[2] = f
  BY TwoEvents
<1>2. /\ Len(evs) <= 2 * MaxClients /\ 2 \in 1..Len(evs)
      /\ \A k \in 1..Len(evs) : evs[k] = e \/ evs[k] = f
  BY <1>1
<1>3. Posted(evs) /\ IsWordNext(c, evs[2])
  BY <1>1
<1>4. ~IsWordNext(c, e)
  BY DEF IsWordNext
<1>5. \A k \in 1..Len(evs) : IsWordNext(c, evs[k]) => evs[k].id = f.id
  BY <1>2, <1>4
<1> HIDE DEF evs
<1>6. evs \in Seq(Event) /\ Len(evs) <= 2 * MaxClients /\ 2 \in 1..Len(evs)
  BY <1>1, <1>2
<1> QED BY <1>3, <1>5, <1>6, Said

\* A client with a callback has a first one, and an event posted under its token is
\* for that.
LEMMA WordIs ==
  ASSUME IInv', NEW c \in Slots, NEW rec, NEW id \in {"CONNECTED", "DISCONNECTED"}, NEW of,
         rec.token = client'[c].token, rec.cb = client'[c].cb, client'[c].cb # {}
  PROVE  /\ IsWordNext(c, Envelope(c, rec, id, of))
         /\ Envelope(c, rec, id, of).id = id
<1>1. client'[c].cb \subseteq Callbacks
  BY DEF IInv, TypeOK, Client
<1>2. First(c)' \in client'[c].cb
  BY <1>1 DEF First, Callbacks
<1> QED BY <1>2 DEF IsWordNext, Envelope

\* From here on a lemma per action: its outcome for any client c.
LEMMA InitOutcome ==
  ASSUME IInv, IInv', NEW c \in Slots, NEW d \in Slots, NEW n \in Netifs, NEW cb \in Configs,
         ClientInit(d, n, cb)
  PROVE  Outcome(c)
<1>1. client[d] = Zero
  BY DEF ClientInit, IInv, ClientsOk
<1>2. CASE d = c
  BY <1>1, <1>2 DEF Outcome, Zero
<1>3. CASE d # c
  <2>1. client'[c] = client[c] /\ heard'[c] = heard[c] /\ UNCHANGED <<queue, sem>>
    BY <1>3 DEF ClientInit, loopVars, IInv, TypeOK
  <2> QED BY <2>1, NothingSaid DEF Outcome
<1> QED BY <1>2, <1>3

LEMMA RegisterOutcome ==
  ASSUME IInv, IInv', NEW c \in Slots, NEW d \in Slots, RegisterEvent(d)
  PROVE  Outcome(c)
<1>1. /\ client \in [Slots -> Client] /\ client[d] \in Client
      /\ heard \in [Slots -> {"nothing", "CONNECTED", "DISCONNECTED"}]
  BY DEF IInv, TypeOK
<1>2. CASE client'[c].cb # client[c].cb
  BY <1>2 DEF Outcome
<1>3. CASE client'[c].cb = client[c].cb
  <2>1. client'[c].token = client[c].token /\ client'[c].connected = client[c].connected
    BY <1>1 DEF RegisterEvent, Client
  <2>2. heard'[c] = heard[c]
    <3>1. CASE d = c
      <4>1. client'[c].cb = client[c].cb \union {"registered"}
        BY <1>1, <3>1 DEF RegisterEvent, Client
      <4>2. "registered" \in client[c].cb
        BY <1>3, <4>1
      <4> QED BY <3>1, <4>2 DEF RegisterEvent
    <3>2. CASE d # c
      BY <1>1, <3>2 DEF RegisterEvent
    <3> QED BY <3>1, <3>2
  <2>3. UNCHANGED <<queue, sem>>
    BY DEF RegisterEvent, loopVars
  <2> QED BY <1>3, <2>1, <2>2, <2>3, NothingSaid DEF Outcome
<1> QED BY <1>2, <1>3

LEMMA SetNetifOutcome ==
  ASSUME IInv, IInv', NEW c \in Slots, NEW d \in Slots, NEW n \in Netifs, SetNetif(d, n)
  PROVE  Outcome(c)
<1>1. client \in [Slots -> Client] /\ client[d] \in Client
  BY DEF IInv, TypeOK
<1>2. /\ client'[c].token = client[c].token /\ client'[c].connected = client[c].connected
      /\ client'[c].cb = client[c].cb
  BY <1>1 DEF SetNetif, Client
<1>3. heard'[c] = heard[c] /\ UNCHANGED <<queue, sem>>
  BY DEF SetNetif, loopVars
<1> QED BY <1>2, <1>3, NothingSaid DEF Outcome

LEMMA StartOutcome ==
  ASSUME IInv, IInv', NEW c \in Slots, NEW d \in Slots, NEW ok \in PostResults, Start(d, ok)
  PROVE  Outcome(c)
<1>1. client \in [Slots -> Client] /\ client[d] \in Client /\ global_token \in Nat
  BY DEF IInv, TypeOK
<1>2. UNCHANGED <<queue, sem>> /\ heard'[c] = heard[c]
  BY DEF Start, loopVars
<1>3. CASE d = c
  <2>1. ~client[c].connected
    BY <1>3 DEF Start, IInv, ClientsOk
  <2>2. /\ client'[c].token = global_token + 1 /\ client'[c].connected = client[c].connected
        /\ client'[c].cb = client[c].cb
    BY <1>1, <1>3 DEF Start, Asking, Client
  <2>3. <<>> \in Seq(Event) /\ Posted(<<>>)
    BY <1>2, NothingPosted DEF IInv
  <2>4. Quiet(c, <<>>)
    BY EmptySeq DEF Quiet
  <2>5. client'[c].token > global_token
    BY <1>1, <2>2
  <2> QED BY <1>2, <2>1, <2>2, <2>3, <2>4, <2>5, Renewed DEF Outcome
<1>4. CASE d # c
  <2>1. client'[c] = client[c]
    BY <1>1, <1>4 DEF Start
  <2> QED BY <1>2, <2>1, NothingSaid DEF Outcome
<1> QED BY <1>3, <1>4

LEMMA StopOutcome ==
  ASSUME IInv, IInv', NEW c \in Slots, NEW d \in Slots, Stop(d)
  PROVE  Outcome(c)
<1> DEFINE e == Envelope(d, Stopped(d), "DISCONNECTED", <<>>)
<1>1. client \in [Slots -> Client] /\ client[d] \in Client /\ global_token \in Nat /\ Known
  <2>1. Known
    BY DEF IInv, Known
  <2>2. client \in [Slots -> Client]
    BY <2>1 DEF Known, TypeOK
  <2> QED BY <2>1, <2>2, ClientType
<1>2. heard'[c] = heard[c] /\ client' = [client EXCEPT ![d] = Stopped(d)]
  BY DEF Stop
<1>3. /\ Stopped(d) \in Client /\ Stopped(d).token = global_token + 1
      /\ Stopped(d).cb = client[d].cb /\ ~Stopped(d).connected
  BY <1>1, StoppedType DEF Stop
<1>4. e \in Event /\ e.slot = d
  BY <1>1, <1>3, EnvelopeType DEF Known, Envelope
<1>5. Posted(IF client[d].connected THEN <<e>> ELSE <<>>)
  BY DEF Stop, Farewell
<1>6. <<>> \in Seq(Event) /\ Quiet(c, <<>>)
  BY EmptySeq DEF Quiet
<1>7. CASE d = c
  <2>1. client'[c] = Stopped(c)
    BY <1>1, <1>2, <1>7
  <2>2. CASE ~client[c].connected
    <3>1. client'[c].token > global_token /\ ~client'[c].connected
          /\ client'[c].cb = client[c].cb
      BY <1>1, <1>3, <1>7, <2>1
    <3> QED BY <1>2, <1>5, <1>6, <1>7, <2>2, <3>1, Renewed DEF Outcome
  <2>3. CASE client[c].connected /\ client'[c].cb # {}
    <3>1. IsWordNext(c, e) /\ e.id = "DISCONNECTED"
      BY <1>7, <2>1, <2>3, WordIs
    <3> HIDE DEF e
    <3>2. LastWord(c)' = "DISCONNECTED" \/ Excuse(c)
      BY <1>4, <1>5, <1>7, <2>3, <3>1, SaidAlone
    <3> QED BY <1>3, <1>7, <2>1, <3>2 DEF Outcome, Told
  <2> QED BY <2>2, <2>3 DEF Outcome
<1>8. CASE d # c
  <2>1. client'[c] = client[c]
    BY <1>1, <1>2, <1>8
  <2>2. Quiet(c, <<e>>) /\ <<e>> \in Seq(Event)
    BY <1>4, <1>8, OneQuiet
  <2> HIDE DEF e
  <2> QED BY <1>2, <1>5, <1>6, <2>1, <2>2, Unmoved DEF Outcome
<1> QED BY <1>7, <1>8

LEMMA ReconnectOutcome ==
  ASSUME IInv, IInv', NEW c \in Slots, NEW d \in Slots, NEW ok \in PostResults,
         Reconnect(d, ok)
  PROVE  Outcome(c)
<1> DEFINE e == Envelope(d, client[d], "DISCONNECTED", <<>>)
<1>1. client \in [Slots -> Client] /\ client[d] \in Client
  BY DEF IInv, TypeOK
<1>2. CASE d = c
  BY <1>2 DEF Outcome, Excuse
<1>3. CASE d # c
  <2>1. client'[c] = client[c] /\ heard'[c] = heard[c] /\ Posted(<<e>>)
    BY <1>1, <1>3 DEF Reconnect
  <2>2. e \in Event /\ e.slot = d
    BY <1>1, EnvelopeType DEF IInv, Envelope
  <2>3. Quiet(c, <<e>>) /\ <<e>> \in Seq(Event)
    BY <1>3, <2>2, OneQuiet
  <2> HIDE DEF e
  <2> QED BY <2>1, <2>3, Unmoved DEF Outcome
<1> QED BY <1>2, <1>3

LEMMA DisconnectOutcome ==
  ASSUME IInv, IInv', NEW c \in Slots, NEW d \in Slots, Disconnect(d)
  PROVE  Outcome(c)
<1> DEFINE e == Envelope(d, client[d], "DISCONNECTED", <<>>)
<1>1. client \in [Slots -> Client] /\ client[d] \in Client
  BY DEF IInv, TypeOK
<1>2. heard'[c] = heard[c] /\ Posted(<<e>>)
  BY DEF Disconnect
<1>3. e \in Event /\ e.slot = d
  BY <1>1, EnvelopeType DEF IInv, Envelope
<1>4. CASE d = c
  <2>1. /\ client'[c].token = client[c].token /\ client'[c].cb = client[c].cb
        /\ ~client'[c].connected
    BY <1>1, <1>4 DEF Disconnect, Client
  <2>2. CASE client'[c].cb # {}
    <3>1. IsWordNext(c, e) /\ e.id = "DISCONNECTED"
      BY <1>4, <2>1, <2>2, WordIs
    <3> HIDE DEF e
    <3>2. LastWord(c)' = "DISCONNECTED" \/ Excuse(c)
      BY <1>2, <1>3, <3>1, SaidAlone
    <3> QED BY <2>1, <3>2 DEF Outcome, Told
  <2> QED BY <2>2 DEF Outcome
<1>5. CASE d # c
  <2>1. client'[c] = client[c]
    BY <1>1, <1>5 DEF Disconnect
  <2>2. Quiet(c, <<e>>) /\ <<e>> \in Seq(Event)
    BY <1>3, <1>5, OneQuiet
  <2> HIDE DEF e
  <2> QED BY <1>2, <2>1, <2>2, Unmoved DEF Outcome
<1> QED BY <1>4, <1>5

LEMMA DestroyOutcome ==
  ASSUME IInv, IInv', NEW c \in Slots, NEW d \in Slots, Destroy(d)
  PROVE  Outcome(c)
<1> DEFINE e == Envelope(d, Stopped(d), "DISCONNECTED", <<>>)
           f == Envelope(d, Stopped(d), "DELETED", <<>>)
<1>1. client \in [Slots -> Client] /\ client[d] \in Client /\ Known
  <2>1. Known
    BY DEF IInv, Known
  <2>2. client \in [Slots -> Client]
    BY <2>1 DEF Known, TypeOK
  <2> QED BY <2>1, <2>2
<1>2. heard'[c] = heard[c] /\ client' = [client EXCEPT ![d] = Zero]
  BY DEF Destroy
<1>3. CASE d = c
  <2>1. client'[c].cb = {}
    BY <1>1, <1>2, <1>3 DEF Zero
  <2> QED BY <2>1 DEF Outcome
<1>4. CASE d # c
  <2>1. client'[c] = client[c]
    BY <1>1, <1>2, <1>4
  <2>2. e \in Event /\ f \in Event /\ e.slot = d /\ f.slot = d
    BY <1>1, StoppedType, EnvelopeType DEF Destroy, Known, Envelope
  <2> HIDE DEF f
  <2>3. /\ Quiet(c, <<e, f>>) /\ <<e, f>> \in Seq(Event)
        /\ Quiet(c, <<f>>) /\ <<f>> \in Seq(Event)
    BY <1>4, <2>2, OneQuiet, TwoQuiet
  <2>4. Posted(<<e, f>>) \/ Posted(<<f>>)
    <3>1. CASE client[d].connected
      <4>1. Farewell(d) = <<e>>
        BY <3>1 DEF Farewell
      <4> HIDE DEF e
      <4>2. Farewell(d) \o <<f>> = <<e, f>>
        BY <2>2, <4>1, OneAndOne
      <4> QED BY <4>2 DEF Destroy, f
    <3>2. CASE ~client[d].connected
      <4>1. Farewell(d) \o <<f>> = <<f>>
        BY <2>2, <3>2 DEF Farewell
      <4> QED BY <4>1 DEF Destroy, f
    <3> QED BY <3>1, <3>2
  <2> HIDE DEF e
  <2> QED BY <1>2, <2>1, <2>3, <2>4, Unmoved DEF Outcome
<1> QED BY <1>3, <1>4

LEMMA NetDownOutcome ==
  ASSUME IInv, IInv', NEW c \in Slots, NEW n \in Netifs, NetDown(n)
  PROVE  Outcome(c)
<1> DEFINE hit == {d \in Slots : /\ client[d].initialized /\ client[d].netif = n
                                 /\ client[d].started /\ client[d].connected}
           evs == Losses(hit)
<1>1. client[c] \in Client /\ TypeOK
  BY DEF IInv, TypeOK
<1>2. /\ client'[c] = IF c \in hit THEN [client[c] EXCEPT !.connected = FALSE] ELSE client[c]
      /\ heard'[c] = heard[c] /\ Posted(evs) /\ hit \in SUBSET Slots
  BY DEF NetDown
<1> HIDE DEF hit
<1>3. /\ evs \in Seq(Event) /\ Len(evs) <= 2 * MaxClients
      /\ \A k \in 1..Len(evs) : \E d \in hit :
            evs[k] \in {Envelope(d, client[d], "NOTICE", <<>>),
                        Envelope(d, client[d], "DISCONNECTED", <<>>)}
      /\ \A d \in hit : \E k \in 1..Len(evs) :
            evs[k] = Envelope(d, client[d], "DISCONNECTED", <<>>)
  BY <1>1, <1>2, LossesAre
<1> HIDE DEF evs
<1>4. CASE c \in hit
  <2>1. /\ client'[c].token = client[c].token /\ client'[c].cb = client[c].cb
        /\ ~client'[c].connected
    BY <1>1, <1>2, <1>4 DEF Client
  <2>2. CASE client'[c].cb # {}
    <3>1. PICK m \in 1..Len(evs) : evs[m] = Envelope(c, client[c], "DISCONNECTED", <<>>)
      BY <1>3, <1>4
    <3>2. IsWordNext(c, evs[m])
      BY <2>1, <2>2, <3>1, WordIs
    <3>3. \A k \in 1..Len(evs) : IsWordNext(c, evs[k]) => evs[k].id = "DISCONNECTED"
      BY <1>3 DEF IsWordNext, Envelope
    <3>4. LastWord(c)' = "DISCONNECTED" \/ Excuse(c)
      BY <1>2, <1>3, <3>2, <3>3, Said
    <3> QED BY <2>1, <3>4 DEF Outcome, Told
  <2> QED BY <2>2 DEF Outcome
<1>5. CASE c \notin hit
  <2>1. client'[c] = client[c]
    BY <1>2, <1>5
  <2>2. Quiet(c, evs)
    BY <1>3, <1>5 DEF Quiet, Envelope
  <2> QED BY <1>2, <1>3, <2>1, <2>2, Unmoved DEF Outcome
<1> QED BY <1>4, <1>5

LEMMA NetUpOutcome ==
  ASSUME IInv, IInv', NEW c \in Slots, NEW n \in Netifs, NEW ok \in [Slots -> PostResults],
         NetUp(n, ok)
  PROVE  Outcome(c)
<1> DEFINE hit == {d \in Slots : /\ client[d].initialized /\ client[d].netif = n
                                 /\ client[d].started /\ ~client[d].connected}
           rank == Cardinality({d \in hit : d <= c})
           rec == [client[c] EXCEPT !.token = global_token + rank]
<1>1. client[c] \in Client /\ global_token \in Nat
  BY DEF IInv, TypeOK
<1>2. /\ client'[c] = IF c \in hit THEN Asking(rec, FreshWork + rank - 1, ok[c]) ELSE client[c]
      /\ heard'[c] = heard[c] /\ UNCHANGED <<queue, sem>>
  BY DEF NetUp, loopVars
<1>3. hit \in SUBSET Slots /\ (c \in hit => ~client[c].connected)
  OBVIOUS
<1> HIDE DEF hit
<1>4. c \in hit => rank \in Nat /\ rank > 0
  <2>1. Cardinality(hit) \in Nat
    BY <1>3, TablesAreFinite
  <2>2. c \in hit => rank \in 1..Cardinality(hit)
    BY <1>3, RankIs
  <2> HIDE DEF rank
  <2> QED BY <2>1, <2>2
<1> HIDE DEF rank
<1>5. CASE c \in hit
  <2>1. /\ client'[c].token = global_token + rank /\ client'[c].cb = client[c].cb
        /\ client'[c].connected = client[c].connected
    BY <1>1, <1>2, <1>5 DEF Asking, Client
  <2>2. client'[c].token > global_token
    BY <1>1, <1>4, <1>5, <2>1
  <2>3. <<>> \in Seq(Event) /\ Posted(<<>>)
    BY <1>2, NothingPosted DEF IInv
  <2>4. Quiet(c, <<>>)
    BY EmptySeq DEF Quiet
  <2> QED BY <1>2, <1>3, <1>5, <2>1, <2>2, <2>3, <2>4, Renewed DEF Outcome
<1>6. CASE c \notin hit
  <2>1. client'[c] = client[c]
    BY <1>2, <1>6
  <2> QED BY <1>2, <2>1, NothingSaid DEF Outcome
<1> QED BY <1>5, <1>6

LEMMA WorkOutcome ==
  ASSUME IInv, IInv', NEW c \in Slots, NEW w, ConnectWork(w)
  PROVE  Outcome(c)
<1> DEFINE mine == {b \in Slots : client[b].initialized /\ client[b].token = w.token}
           d == Min(mine)
           ready == up[client[d].netif]
           rec == [client[d] EXCEPT !.work = 0, !.connected = ready]
           e == Envelope(d, rec, "CONNECTED", <<>>)
           f == Envelope(d, rec, "NOTICE", <<>>)
           g == Envelope(d, rec, "DISCONNECTED", <<>>)
<1>1. heard'[c] = heard[c]
  BY DEF ConnectWork
<1>2. CASE mine = {} \/ ~client[d].started
  <2>1. UNCHANGED <<client, queue, sem>>
    BY <1>2 DEF ConnectWork
  <2> QED BY <1>1, <2>1, NothingSaid DEF Outcome
<1>3. CASE mine # {} /\ client[d].started
  <2>1. /\ client' = [client EXCEPT ![d] = rec]
        /\ Posted(IF ready THEN <<e>> ELSE <<f, g>>)
    BY <1>3 DEF ConnectWork, Loss
  <2>2. d \in Slots
    <3>1. mine \subseteq Nat
      BY TablesAreFinite
    <3>2. d \in mine
      BY <1>3, <3>1, MinIsLeast
    <3> QED BY <3>2
  <2> HIDE DEF d, mine
  <2>3. /\ client \in [Slots -> Client] /\ client[d] \in Client
        /\ ready \in BOOLEAN /\ TypeOK
    <3>1. client \in [Slots -> Client] /\ up \in [Netifs -> BOOLEAN] /\ TypeOK
      BY DEF IInv, TypeOK
    <3>2. client[d] \in Client /\ client[d].netif \in Netifs
      BY <2>2, <3>1 DEF Client
    <3> QED BY <3>1, <3>2
  <2>4. /\ rec \in Client /\ rec.token = client[d].token /\ rec.cb = client[d].cb
        /\ rec.connected = ready
    BY <2>3 DEF Client
  <2> HIDE DEF rec, ready
  <2>5. e \in Event /\ f \in Event /\ g \in Event
    BY <2>2, <2>3, <2>4, EnvelopeType
  <2>6. e.slot = d /\ f.slot = d /\ g.slot = d /\ f.id = "NOTICE"
    BY DEF Envelope
  <2>7. CASE d = c
    <3>1. client'[c] = rec
      BY <2>1, <2>3, <2>7
    <3>2. CASE client'[c].cb # {}
      <4>1. IsWordNext(c, e) /\ IsWordNext(c, g) /\ e.id = "CONNECTED" /\ g.id = "DISCONNECTED"
        BY <2>7, <3>1, <3>2, WordIs
      <4> HIDE DEF e, f, g
      <4>2. CASE ready
        <5>1. LastWord(c)' = "CONNECTED" \/ Excuse(c)
          BY <2>1, <2>5, <4>1, <4>2, SaidAlone
        <5> QED BY <2>4, <3>1, <4>2, <5>1 DEF Outcome, Told
      <4>3. CASE ~ready
        <5>1. LastWord(c)' = "DISCONNECTED" \/ Excuse(c)
          BY <2>1, <2>5, <2>6, <4>1, <4>3, SaidAfter
        <5> QED BY <2>4, <3>1, <4>3, <5>1 DEF Outcome, Told
      <4> QED BY <4>2, <4>3
    <3> QED BY <3>2 DEF Outcome
  <2>8. CASE d # c
    <3>1. client'[c] = client[c]
      BY <2>1, <2>3, <2>8
    <3>2. /\ Quiet(c, <<e>>) /\ <<e>> \in Seq(Event)
          /\ Quiet(c, <<f, g>>) /\ <<f, g>> \in Seq(Event)
      BY <2>5, <2>6, <2>8, OneQuiet, TwoQuiet
    <3> HIDE DEF e, f, g
    <3>3. Posted(<<e>>) \/ Posted(<<f, g>>)
      BY <2>1
    <3> QED BY <1>1, <3>1, <3>2, <3>3, Unmoved DEF Outcome
  <2> QED BY <2>7, <2>8
<1> QED BY <1>2, <1>3

\* Messages and notices are no words.
LEMMA SubscriptionOutcome ==
  ASSUME IInv, IInv', NEW c \in Slots, NEW d \in Slots, NEW f \in Filters,
         Subscribe(d, f) \/ Unsubscribe(d, f)
  PROVE  Outcome(c)
<1> DEFINE e == Envelope(d, client[d], "NOTICE", <<>>)
<1>1. UNCHANGED <<client, heard>> /\ Posted(<<e>>)
  BY DEF Subscribe, Unsubscribe
<1>2. client[d] \in Client /\ TypeOK
  BY DEF IInv, TypeOK
<1>3. e \in Event /\ e.id = "NOTICE"
  BY <1>2, EnvelopeType DEF Envelope
<1>4. Quiet(c, <<e>>) /\ <<e>> \in Seq(Event)
  BY <1>3, OneQuiet
<1> HIDE DEF e
<1> QED BY <1>1, <1>4, Unmoved DEF Outcome

LEMMA MessageOutcome ==
  ASSUME IInv, IInv', NEW c \in Slots, NEW t \in Topics,
         \/ Inject(t)
         \/ \E d \in Slots, confirmed \in BOOLEAN : Publish(d, t, confirmed)
  PROVE  Outcome(c)
<1> DEFINE data == DataFor(t)
<1>1. UNCHANGED <<client, heard>>
  BY DEF Inject, Publish, clientVars
<1>2. /\ data \in Seq(Event)
      /\ \A k \in 1..Len(data) : data[k].id \notin {"CONNECTED", "DISCONNECTED"}
  <2>1. /\ data \in Seq(Event)
        /\ \A k \in 1..Len(data) : \E d \in Slots : data[k] = Envelope(d, client[d], "DATA", t)
    BY DataIs DEF IInv
  <2> HIDE DEF data
  <2>2. ASSUME NEW k \in 1..Len(data)
        PROVE  data[k].id \notin {"CONNECTED", "DISCONNECTED"}
    <3>1. PICK d \in Slots : data[k] = Envelope(d, client[d], "DATA", t)
      BY <2>1
    <3>2. Envelope(d, client[d], "DATA", t).id = "DATA"
      BY DEF Envelope
    <3> QED BY <3>1, <3>2
  <2> QED BY <2>1, <2>2
<1> HIDE DEF data
<1>3. PICK evs \in Seq(Event) : Posted(evs) /\ Quiet(c, evs)
  <2>1. CASE Inject(t)
    BY <1>2, <2>1 DEF Inject, Quiet, data
  <2>2. ASSUME NEW d \in Slots, NEW confirmed \in BOOLEAN, Publish(d, t, confirmed)
        PROVE  \E evs \in Seq(Event) : Posted(evs) /\ Quiet(c, evs)
    <3> DEFINE e == Envelope(d, client[d], "NOTICE", <<>>)
               more == IF confirmed THEN <<e>> ELSE <<>>
               evs == data \o more
    <3>1. Posted(evs)
      BY <2>2 DEF Publish, data
    <3>2. e \in Event /\ e.id = "NOTICE"
      <4>1. client[d] \in Client /\ TypeOK
        BY DEF IInv, TypeOK
      <4> QED BY <4>1, EnvelopeType DEF Envelope
    <3> HIDE DEF e
    <3>3. more \in Seq(Event) /\ Len(more) \in Nat /\ \A k \in 1..Len(more) : more[k] = e
      <4>1. CASE confirmed
        BY <3>2, <4>1, OneEvent
      <4>2. CASE ~confirmed
        BY <4>2, EmptySeq
      <4> QED BY <4>1, <4>2
    <3> HIDE DEF more
    <3>4. /\ evs \in Seq(Event) /\ Len(evs) = Len(data) + Len(more)
          /\ \A k \in 1..(Len(data) + Len(more)) :
                evs[k] = IF k <= Len(data) THEN data[k] ELSE more[k - Len(data)]
      BY <1>2, <3>3, ConcatProperties
    <3>5. ASSUME NEW k \in 1..Len(evs)
          PROVE  evs[k].id \notin {"CONNECTED", "DISCONNECTED"}
      <4>1. Len(data) \in Nat
        BY <1>2
      <4>2. CASE k <= Len(data)
        BY <1>2, <3>3, <3>4, <4>1, <4>2
      <4>3. CASE k > Len(data)
        <5>1. k - Len(data) \in 1..Len(more) /\ evs[k] = more[k - Len(data)]
          BY <3>3, <3>4, <4>1, <4>3
        <5>2. evs[k] = e
          BY <3>3, <5>1
        <5> QED BY <3>2, <5>2
      <4> QED BY <3>3, <3>4, <4>1, <4>2, <4>3
    <3> HIDE DEF evs
    <3> QED BY <3>1, <3>4, <3>5 DEF Quiet
  <2> QED BY <2>1, <2>2
<1> QED BY <1>1, <1>3, Unmoved DEF Outcome

\* The call that is made first.
LEMMA FirstCall ==
  ASSUME NEW ev
  PROVE  /\ "registered" \in ev.cb => /\ UserCalls(ev) # <<>>
                                      /\ Head(UserCalls(ev)) = "registered"
         /\ "registered" \notin ev.cb /\ "config" \in ev.cb =>
               UserCalls(ev) # <<>> /\ Head(UserCalls(ev)) = "config"
         /\ UserCalls(ev) # <<>> => Head(UserCalls(ev)) \in ev.cb
<1> DEFINE some == IF "registered" \in ev.cb THEN <<"registered">> ELSE <<>>
           more == IF "config" \in ev.cb THEN <<"config">> ELSE <<>>
<1>1. UserCalls(ev) = some \o more
  BY DEF UserCalls
<1>2. some \in Seq(Callbacks) /\ more \in Seq(Callbacks)
  <2>1. "registered" \in Callbacks /\ "config" \in Callbacks
    BY DEF Callbacks
  <2>2. <<"registered">> \in Seq(Callbacks) /\ <<"config">> \in Seq(Callbacks)
    BY <2>1, OneEvent
  <2> QED BY <2>2, EmptySeq
<1>3. CASE "registered" \in ev.cb
  <2>1. Len(some) = 1 /\ some[1] = "registered"
    BY <1>3
  <2> HIDE DEF some, more
  <2>2. /\ some \o more \in Seq(Callbacks) /\ Len(some \o more) = 1 + Len(more)
        /\ (some \o more)[1] = "registered" /\ Len(more) \in Nat
    BY <1>2, <2>1, ConcatProperties
  <2>3. some \o more # <<>> /\ Head(some \o more) = "registered"
    BY <2>2, EmptySeq
  <2> QED BY <1>1, <1>3, <2>3
<1>4. CASE "registered" \notin ev.cb
  <2>1. some \o more = more
    BY <1>2, <1>4, ConcatEmptySeq
  <2> QED BY <1>1, <1>4, <2>1
<1> QED BY <1>3, <1>4

\* Taking an event: if it was a word the callback has heard it, else nothing changes.
LEMMA TakeOutcome ==
  ASSUME IInv, IInv', NEW c \in Slots, NEW r \in Runners, Take(r)
  PROVE  Outcome(c)
<1> DEFINE ev == Head(queue)
<1>1. UNCHANGED <<client, born>>
  BY DEF Take
<1>2. TypeOK /\ TypeOK' /\ client[c] \in Client /\ client[c].cb \subseteq Callbacks
  BY DEF IInv, TypeOK, Client
<1>3. CASE queue = <<>>
  <2>1. queue' = queue /\ heard' = heard
    BY <1>3 DEF Take
  <2>2. LastWord(c)' = LastWord(c)
    BY <1>1, <2>1 DEF LastWord, Words, IsWord, First
  <2> QED BY <1>1, <2>2 DEF Outcome, Even
<1>4. CASE client[c].cb = {}
  BY <1>1, <1>4 DEF Outcome
<1>5. CASE queue # <<>> /\ client[c].cb # {}
  <2>1. /\ Len(queue) \in Nat \ {0} /\ Len(queue') = Len(queue) - 1
        /\ \A i \in 1..Len(queue') : queue'[i] = queue[i + 1]
        /\ ev = queue[1] /\ ev \in Event
    BY <1>2, <1>5, TakeIs
  <2>2. heard' = Heard(ev, CallsFor(ev))
    BY <1>5 DEF Take
  <2>3. Genuine(ev)
    <3>1. 1 \in DOMAIN queue
      BY <1>2, <2>1 DEF TypeOK
    <3> QED BY <2>1, <3>1 DEF IInv, EventsOk
  <2> HIDE DEF ev
  <2>4. client[c].initialized /\ First(c) \in client[c].cb
    <3>1. client[c].initialized
      BY <1>5 DEF IInv, ClientsOk, Zero
    <3> QED BY <1>2, <1>5, <3>1 DEF First, Callbacks
  <2>5. ev.cb \subseteq Callbacks /\ ev.slot \in Slots
    BY <2>1 DEF Event
  <2>6. heard'[c] = IF IsWord(c, ev) THEN ev.id ELSE heard[c]
    <3>1. heard \in [Slots -> {"nothing", "CONNECTED", "DISCONNECTED"}]
      BY <1>2 DEF TypeOK
    <3>2. CASE IsWord(c, ev)
      <4>1. /\ ev.slot = c /\ ev.token = client[c].token /\ First(c) \in ev.cb
            /\ ev.id \in {"CONNECTED", "DISCONNECTED"}
        BY <3>2 DEF IsWord
      <4>2. ev.born = born[c] /\ ev.cb \subseteq client[c].cb
        BY <2>3, <2>4, <4>1 DEF Genuine
      <4>3. CallsFor(ev) = UserCalls(ev)
        BY <2>4, <4>1 DEF CallsFor, Lives
      <4>4. UserCalls(ev) # <<>> /\ Head(UserCalls(ev)) = First(c)
        BY <2>4, <4>1, <4>2, FirstCall DEF First
      <4> QED BY <2>2, <3>1, <3>2, <4>1, <4>2, <4>3, <4>4 DEF Heard
    <3>3. CASE ~IsWord(c, ev)
      <4>1. SUFFICES ASSUME heard'[c] # heard[c] PROVE FALSE
        BY <3>3
      <4>2. /\ ev.slot = c /\ ev.id \in {"CONNECTED", "DISCONNECTED"}
            /\ CallsFor(ev) # <<>> /\ Head(CallsFor(ev)) = First(c)
        BY <2>2, <3>1, <4>1 DEF Heard
      <4>3. CallsFor(ev) = UserCalls(ev) /\ ev.token = client[c].token
        BY <4>2 DEF CallsFor, Lives
      <4>4. First(c) \in ev.cb
        BY <4>2, <4>3, FirstCall
      <4> QED BY <3>3, <4>2, <4>3, <4>4 DEF IsWord
    <3> QED BY <3>2, <3>3
  <2>7. \A i \in 1..Len(queue') : i \in Words(c)' <=> i + 1 \in Words(c)
    <3> TAKE i \in 1..Len(queue')
    <3>1. i + 1 \in 1..Len(queue)
      BY <2>1
    <3>2. IsWordNext(c, queue'[i]) <=> IsWord(c, queue[i + 1])
      BY <1>1, <2>1 DEF IsWordNext, IsWord, First
    <3> QED BY <1>2, <3>1, <3>2, WordsAre, WordsNext
  <2>8. 1 \in Words(c) <=> IsWord(c, ev)
    BY <1>2, <2>1, WordsAre
  <2>9. LastWord(c)' = LastWord(c)
    <3>1. CASE Words(c)' # {}
      <4> DEFINE m == Max(Words(c)')
                 w == Max(Words(c))
      <4>1. m \in Words(c)' /\ m \in 1..Len(queue') /\ \A i \in Words(c)' : i <= m
        BY <1>2, <3>1, WordsNext
      <4>2. m + 1 \in Words(c)
        BY <2>7, <4>1
      <4>3. w \in Words(c) /\ w \in 1..Len(queue) /\ \A i \in Words(c) : i <= w
        BY <1>2, <4>2, WordsAre
      <4> HIDE DEF m, w
      <4>4. m + 1 <= w
        BY <4>2, <4>3
      <4>5. w - 1 \in 1..Len(queue') /\ (w - 1) + 1 = w
        BY <2>1, <4>1, <4>3, <4>4
      <4>6. w - 1 \in Words(c)'
        BY <2>7, <4>3, <4>5
      <4>7. w - 1 <= m
        BY <4>1, <4>6
      <4>8. w = m + 1
        BY <2>1, <4>1, <4>3, <4>4, <4>7
      <4>9. queue'[m] = queue[w]
        BY <2>1, <4>1, <4>8
      <4>10. Words(c) # {}
        BY <4>2
      <4> QED BY <1>2, <3>1, <4>9, <4>10, WordsNext DEF LastWord, m, w
    <3>2. CASE Words(c)' = {}
      <4>1. ASSUME NEW i \in Words(c) PROVE i = 1
        <5>1. i \in 1..Len(queue)
          BY <1>2, <4>1, WordsAre
        <5>2. ASSUME i # 1 PROVE FALSE
          <6>1. i - 1 \in 1..Len(queue') /\ (i - 1) + 1 = i
            BY <2>1, <5>1, <5>2
          <6> QED BY <2>7, <3>2, <4>1, <6>1
        <5> QED BY <5>2
      <4>2. LastWord(c)' = heard'[c]
        BY <1>2, <3>2, WordsNext
      <4>3. CASE Words(c) = {}
        BY <2>6, <2>8, <4>2, <4>3 DEF LastWord
      <4>4. CASE Words(c) # {}
        <5>1. Max(Words(c)) = 1 /\ 1 \in Words(c)
          BY <1>2, <4>1, <4>4, WordsAre
        <5> QED BY <2>1, <2>6, <2>8, <4>2, <4>4, <5>1 DEF LastWord
      <4> QED BY <4>3, <4>4
    <3> QED BY <3>1, <3>2
  <2> QED BY <1>1, <2>9 DEF Outcome, Even
<1> QED BY <1>3, <1>4, <1>5

LEMMA ReturnOutcome ==
  ASSUME IInv, IInv', NEW c \in Slots, NEW r \in Runners, CallReturns(r)
  PROVE  Outcome(c)
<1>1. UNCHANGED <<client, heard, queue, sem>>
  BY DEF CallReturns, Continue, clientVars
<1> QED BY <1>1, NothingSaid DEF Outcome

LEMMA EveryOutcome ==
  ASSUME IInv, IInv', NEW c \in Slots, Next
  PROVE  Outcome(c)
<1>1. CASE LifeCycle
  <2>1. PICK d \in Slots :
           \/ \E n \in Netifs, cb \in Configs : ClientInit(d, n, cb)
           \/ RegisterEvent(d)
           \/ \E n \in Netifs : SetNetif(d, n)
           \/ \E ok \in PostResults : Start(d, ok) \/ Reconnect(d, ok)
           \/ Stop(d) \/ Disconnect(d) \/ Destroy(d)
    BY <1>1 DEF LifeCycle
  <2>2. CASE \E n \in Netifs, cb \in Configs : ClientInit(d, n, cb)
    BY <2>2, InitOutcome
  <2>3. CASE RegisterEvent(d)
    BY <2>3, RegisterOutcome
  <2>4. CASE \E n \in Netifs : SetNetif(d, n)
    BY <2>4, SetNetifOutcome
  <2>5. CASE \E ok \in PostResults : Start(d, ok) \/ Reconnect(d, ok)
    BY <2>5, StartOutcome, ReconnectOutcome
  <2>6. CASE Stop(d) \/ Disconnect(d) \/ Destroy(d)
    BY <2>6, StopOutcome, DisconnectOutcome, DestroyOutcome
  <2> QED BY <2>1, <2>2, <2>3, <2>4, <2>5, <2>6
<1>2. CASE Network
  BY <1>2, NetDownOutcome, NetUpOutcome DEF Network
<1>3. CASE Messages
  BY <1>3, SubscriptionOutcome, MessageOutcome DEF Messages
<1>4. CASE \E w \in pending : ConnectWork(w)
  BY <1>4, WorkOutcome
<1>5. CASE \E r \in Runners : Take(r) \/ CallReturns(r)
  BY <1>5, TakeOutcome, ReturnOutcome
<1> QED BY <1>1, <1>2, <1>3, <1>4, <1>5 DEF Next

\* A callback that will have heard the truth goes on to, or there is an excuse.
THEOREM TruthStaysTold == Spec => TruthIsTold
<1>1. IInv /\ IInv' /\ Next =>
         \A c \in Slots :
            (Right(c) /\ client'[c].cb = client[c].cb /\ ~Right(c)') => Excuse(c)
  <2> SUFFICES ASSUME IInv, IInv', Next, NEW c \in Slots,
                      Right(c), client'[c].cb = client[c].cb, ~Right(c)'
               PROVE  Excuse(c)
    OBVIOUS
  <2>1. Outcome(c)
    BY EveryOutcome
  <2>2. First(c)' = First(c) /\ First(c) \in client[c].cb
    BY DEF Right, First
  <2>3. /\ LastWord(c) = "CONNECTED" <=> client[c].connected
        /\ ~(LastWord(c)' = "CONNECTED" <=> client'[c].connected)
    BY <2>2 DEF Right
  <2> QED BY <2>1, <2>2, <2>3 DEF Outcome, Even, Told
<1>2. IInv /\ IInv' /\ [Next]_vars =>
         [\A c \in Slots :
            (Right(c) /\ client'[c].cb = client[c].cb /\ ~Right(c)') => Excuse(c)]_vars
  BY <1>1
<1> QED BY <1>2, Invariance, PTL DEF Spec, TruthIsTold
=============================================================================
