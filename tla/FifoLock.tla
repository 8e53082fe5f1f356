------------------------------ MODULE FifoLock ------------------------------
(***************************************************************************)
(* What pal_os_mutex_lock and pal_os_mutex_unlock promise when no timeout  *)
(* is used: at most one holder per mutex, and the mutex goes to the caller *)
(* that has been waiting longest, never to a latecomer.                    *)
(***************************************************************************)
EXTENDS Sequences, Naturals

CONSTANTS Locks, Clients, Nobody  \* Nobody is not a client

VARIABLES holder,  \* the client each lock belongs to, or Nobody
          line     \* the clients waiting for each lock, longest wait first

lockVars == <<holder, line>>

LockInit ==
  /\ holder = [l \in Locks |-> Nobody]
  /\ line = [l \in Locks |-> <<>>]

\* a lock nobody holds or waits for is taken at once
Take(c, l) ==
  /\ holder[l] = Nobody /\ line[l] = <<>>
  /\ holder' = [holder EXCEPT ![l] = c]
  /\ UNCHANGED line

Queue(c, l) ==
  /\ holder[l] # c
  /\ holder[l] # Nobody \/ line[l] # <<>>
  /\ \A i \in 1 .. Len(line[l]) : line[l][i] # c
  /\ line' = [line EXCEPT ![l] = Append(@, c)]
  /\ UNCHANGED holder

Grant(l) ==
  /\ holder[l] = Nobody /\ line[l] # <<>>
  /\ holder' = [holder EXCEPT ![l] = Head(line[l])]
  /\ line' = [line EXCEPT ![l] = Tail(@)]

Release(l) ==
  /\ holder[l] # Nobody
  /\ holder' = [holder EXCEPT ![l] = Nobody]
  /\ UNCHANGED line

LockNext == \E l \in Locks : \/ Grant(l) \/ Release(l)
                             \/ \E c \in Clients : Take(c, l) \/ Queue(c, l)

LockSpec == LockInit /\ [][LockNext]_lockVars
=============================================================================
