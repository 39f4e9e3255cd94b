----------------------------- MODULE EventQueue -----------------------------
(***************************************************************************)
(* The event queue of the Linux port as it is coded: ev_queue_t, a ring of *)
(* `size' slots with a read and a write index (port/linux/linux_event.c).  *)
(* The ring is full one slot early, because read = write means empty, so   *)
(* evq_init(&q, MAX_EVENTS) gives a queue of MAX_EVENTS - 1 events.        *)
(***************************************************************************)
EXTENDS Naturals, Sequences

CONSTANTS Events,     \* the values of port_event_t that are queued
          Size,       \* the size evq_init was called with
          Zeroed      \* what memset leaves in a slot

ASSUME SizeAssumption == Size \in Nat \ {0}

VARIABLES queue,      \* the slots, indexed from 0 as in C
          read,       \* index of the oldest event
          write,      \* index of the next free slot
          answer      \* what the last evq_put or evq_get returned

vars == <<queue, read, write, answer>>

Slots == 0 .. Size - 1

NoAnswer == [ret |-> "none"]
Accepted == [ret |-> "E_OK"]
Refused(code) == [ret |-> code]
Delivered(e) == [ret |-> "E_OK", event |-> e]

\* evq_init: the structure is zeroed by get_platform, the slots by memset.
Init ==
    /\ queue = [s \in Slots |-> Zeroed]
    /\ read = 0
    /\ write = 0
    /\ answer = NoAnswer

\* Mutant: the comparison forgets that the index wraps.
FullWithoutWrap == write + 1 = read

evq_is_full  == (write + 1) % Size = read
evq_is_empty == read = write

evq_put(e) ==
    \/ /\ evq_is_full
       /\ answer' = Refused("E_FULL")
       /\ UNCHANGED <<queue, read, write>>
    \/ /\ ~evq_is_full
       /\ queue' = [queue EXCEPT ![write] = e]
       /\ write' = (write + 1) % Size
       /\ answer' = Accepted
       /\ UNCHANGED read

\* Mutant: the read index runs past the end of the ring.
GetWithoutWrap ==
    /\ ~evq_is_empty
    /\ answer' = Delivered(queue[read])
    /\ read' = read + 1
    /\ UNCHANGED <<queue, write>>

evq_get ==
    \/ /\ evq_is_empty
       /\ answer' = Refused("E_EMPTY")
       /\ UNCHANGED <<queue, read, write>>
    \/ /\ ~evq_is_empty
       /\ answer' = Delivered(queue[read])
       /\ read' = (read + 1) % Size
       /\ UNCHANGED <<queue, write>>

Next == evq_get \/ \E e \in Events : evq_put(e)

Spec == Init /\ [][Next]_vars

-----------------------------------------------------------------------------
\* How many events the ring holds, and which, oldest first.
Used == IF write >= read THEN write - read ELSE write + Size - read

SlotOf(i) == IF read + i < Size THEN read + i ELSE read + i - Size

Contents == [i \in 1 .. Used |-> queue[SlotOf(i - 1)]]

\* The indexes stay inside the allocated slots and the slots hold events.
TypeOK ==
    /\ queue \in [Slots -> Events \cup {Zeroed}]
    /\ read \in Slots
    /\ write \in Slots
    /\ answer \in {NoAnswer, Accepted, Refused("E_FULL"), Refused("E_EMPTY")}
                    \cup {Delivered(e) : e \in Events \cup {Zeroed}}

\* The ring implements a first-in first-out queue of Size - 1 events: evq_put
\* and evq_get answer what BoundedFifo answers, in every order of calls.
Fifo == INSTANCE BoundedFifo WITH Capacity <- Size - 1, fifo <- Contents

ImplementsFifo == Fifo!Spec
=============================================================================
