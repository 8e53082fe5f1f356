----------------------------- MODULE BoundedFifo -----------------------------
(***************************************************************************)
(* What the event queue promises its users: a queue of at most Capacity    *)
(* events, in which a post and a pend are one step each.  A post to a full *)
(* queue changes nothing.  Events of a device are numbered as they are     *)
(* accepted; a merged device has one event in the queue at most, which a   *)
(* newer one replaces where it stands.                                     *)
(***************************************************************************)
EXTENDS Sequences, Naturals

CONSTANTS Devices, Merged, Capacity  \* Merged is a subset of Devices

VARIABLES open,   \* whether there is a queue
          items,  \* the events in it, oldest first
          last,   \* number of the last event accepted of each device
          dealt   \* number of the last event handed out, or dropped with the queue

fifoVars == <<open, items, last, dealt>>

FifoInit ==
  /\ open = FALSE
  /\ items = <<>>
  /\ last = [d \in Devices |-> 0]
  /\ dealt = [d \in Devices |-> 0]

Open ==
  /\ ~open /\ open' = TRUE
  /\ UNCHANGED <<items, last, dealt>>

Close ==
  /\ open /\ open' = FALSE
  /\ items' = <<>>
  /\ dealt' = last
  /\ UNCHANGED last

Of(d) == {i \in 1 .. Len(items) : items[i].dev = d}

Put(d) ==
  /\ open /\ Len(items) < Capacity
  /\ d \in Merged => Of(d) = {}
  /\ items' = Append(items, [dev |-> d, no |-> last[d] + 1])
  /\ last' = [last EXCEPT ![d] = @ + 1]
  /\ UNCHANGED <<open, dealt>>

Renew(d) ==
  /\ open /\ d \in Merged
  /\ \E i \in Of(d) : items' = [items EXCEPT ![i].no = last[d] + 1]
  /\ last' = [last EXCEPT ![d] = @ + 1]
  /\ UNCHANGED <<open, dealt>>

HandOut ==
  /\ open /\ items # <<>>
  /\ items' = Tail(items)
  /\ dealt' = [dealt EXCEPT ![Head(items).dev] = Head(items).no]
  /\ UNCHANGED <<open, last>>

FifoNext ==
  \/ Open \/ Close \/ HandOut
  \/ \E d \in Devices : Put(d) \/ Renew(d)

FifoSpec == FifoInit /\ [][FifoNext]_fifoVars
=============================================================================
