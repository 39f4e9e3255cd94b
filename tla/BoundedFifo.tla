---------------------------- MODULE BoundedFifo ----------------------------
(***************************************************************************)
(* What the event queue of the Linux port (port/linux/linux_event.c)       *)
(* promises to its two users, port_event_put and port_event_get: a first-  *)
(* in first-out queue of at most Capacity events that refuses a put when   *)
(* it is full and a get when it is empty, and changes nothing when it      *)
(* refuses.  EventQueue, the ring buffer of the code, implements this      *)
(* module.                                                                 *)
(***************************************************************************)
EXTENDS Naturals, Sequences

CONSTANTS Events,     \* the values of port_event_t that are queued
          Capacity    \* how many events fit

VARIABLES fifo,       \* the queued events, oldest first
          answer      \* what the last operation returned

fifoVars == <<fifo, answer>>

NoAnswer == [ret |-> "none"]
Accepted == [ret |-> "E_OK"]
Refused(code) == [ret |-> code]
Delivered(e) == [ret |-> "E_OK", event |-> e]

IsFull  == Len(fifo) = Capacity
IsEmpty == fifo = <<>>

Init == fifo = <<>> /\ answer = NoAnswer

Put(e) ==
    \/ /\ ~IsFull
       /\ fifo' = Append(fifo, e)
       /\ answer' = Accepted
    \/ /\ IsFull
       /\ answer' = Refused("E_FULL")
       /\ UNCHANGED fifo

Get ==
    \/ /\ ~IsEmpty
       /\ fifo' = Tail(fifo)
       /\ answer' = Delivered(Head(fifo))
    \/ /\ IsEmpty
       /\ answer' = Refused("E_EMPTY")
       /\ UNCHANGED fifo

Next == Get \/ \E e \in Events : Put(e)

Spec == Init /\ [][Next]_fifoVars
=============================================================================
