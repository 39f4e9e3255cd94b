------------------------- MODULE EventQueue_proofs -------------------------
(***************************************************************************)
(* The ring buffer of linux_event.c keeps its indexes inside the slots and *)
(* implements a bounded first-in first-out queue, for every ring size and  *)
(* every set of events.                                                    *)
(***************************************************************************)
EXTENDS EventQueue, SequenceTheorems, TLAPS

\* Stepping an index of the ring modulo its size is adding one and wrapping.
LEMMA NextIndex ==
    ASSUME NEW n \in Nat \ {0}, NEW i \in 0 .. n - 1
    PROVE  (i + 1) % n = IF i + 1 = n THEN 0 ELSE i + 1
  <1>1. CASE i + 1 = n
    BY <1>1, SMT
  <1>2. CASE i + 1 < n
    BY <1>2, SMT
  <1>3. QED
    BY <1>1, <1>2

\* What Append and Tail do, element by element.
LEMMA AppendIsExtension ==
    ASSUME NEW S, NEW s \in Seq(S), NEW x \in S, NEW t \in Seq(S),
           Len(t) = Len(s) + 1,
           \A i \in 1 .. Len(s) : t[i] = s[i],
           \A i \in Nat : i = Len(s) + 1 => t[i] = x
    PROVE  t = Append(s, x)
  <1>1. Len(s) \in Nat
    BY LenProperties
  <1>2. /\ Append(s, x) \in Seq(S)
        /\ Len(Append(s, x)) = Len(s) + 1
        /\ \A i \in 1 .. Len(s) : Append(s, x)[i] = s[i]
        /\ Append(s, x)[Len(s) + 1] = x
    BY AppendProperties
  <1>3. \A i \in 1 .. Len(t) : t[i] = Append(s, x)[i]
    <2> SUFFICES ASSUME NEW i \in 1 .. Len(s) + 1
                 PROVE  t[i] = Append(s, x)[i]
      OBVIOUS
    <2>1. CASE i \in 1 .. Len(s)
      BY <2>1, <1>2
    <2>2. CASE i = Len(s) + 1
      BY <2>2, <1>1, <1>2
    <2>3. QED
      BY <1>1, <2>1, <2>2
  <1>4. QED
    BY <1>2, <1>3, SeqEqual

\* A sequence that is another one shifted by one place is its tail.
LEMMA TailIsShift ==
    ASSUME NEW S, NEW s \in Seq(S), s # <<>>, NEW t \in Seq(S),
           Len(t) = Len(s) - 1,
           \A i \in 1 .. Len(s) - 1 : t[i] = s[i + 1]
    PROVE  t = Tail(s)
  BY HeadTailProperties, SeqEqual

\* The read and write indexes are always slots of the ring, whatever the order
\* of evq_put and evq_get calls: no access outside the malloc'ed array.
THEOREM TypeCorrect == Spec => []TypeOK
  <1>1. Init => TypeOK
    BY SizeAssumption DEF Init, TypeOK, Slots
  <1>2. TypeOK /\ [Next]_vars => TypeOK'
    <2> SUFFICES ASSUME TypeOK, [Next]_vars PROVE TypeOK'
      OBVIOUS
    <2> USE DEF TypeOK
    <2>1. ASSUME NEW e \in Events, evq_put(e) PROVE TypeOK'
      <3>1. (write + 1) % Size \in Slots
        BY SizeAssumption, NextIndex DEF Slots
      <3>2. QED
        BY <2>1, <3>1 DEF evq_put
    <2>2. CASE evq_get
      <3>1. (read + 1) % Size \in Slots
        BY SizeAssumption, NextIndex DEF Slots
      <3>2. queue[read] \in Events \cup {Zeroed}
        OBVIOUS
      <3>3. QED
        BY <2>2, <3>1, <3>2 DEF evq_get
    <2>3. CASE UNCHANGED vars
      BY <2>3 DEF vars
    <2>4. QED
      BY <2>1, <2>2, <2>3 DEF Next
  <1>3. QED
    BY <1>1, <1>2, PTL DEF Spec

\* The ring holds at most Size - 1 events, and the two index tests of the code
\* are the tests on that number.
LEMMA Occupancy ==
    ASSUME TypeOK
    PROVE  /\ Used \in 0 .. Size - 1
           /\ evq_is_full <=> Used = Size - 1
           /\ evq_is_empty <=> Used = 0
  <1>1. (write + 1) % Size = IF write + 1 = Size THEN 0 ELSE write + 1
    BY SizeAssumption, NextIndex DEF TypeOK, Slots
  <1>2. QED
    BY <1>1, SizeAssumption DEF TypeOK, Slots, Used, evq_is_full, evq_is_empty

\* What the ring holds is a sequence of that length.
LEMMA ContentsLength == 
    ASSUME TypeOK
    PROVE  /\ Contents \in Seq(Events \cup {Zeroed})
           /\ Len(Contents) = Used
  <1>1. \A i \in 1 .. Used : SlotOf(i - 1) \in Slots
    BY SizeAssumption DEF TypeOK, Slots, Used, SlotOf
  <1>2. \A i \in 1 .. Used : queue[SlotOf(i - 1)] \in Events \cup {Zeroed}
    BY <1>1 DEF TypeOK
  <1>3. Used \in Nat
    BY Occupancy
  <1>4. QED
    BY <1>2, <1>3 DEF Contents

\* A put that is accepted appends its event to what the ring holds.
LEMMA PutAppends ==
    ASSUME TypeOK, NEW e \in Events, evq_put(e), ~evq_is_full
    PROVE  Contents' = Append(Contents, e)
  <1>1. (write + 1) % Size = IF write + 1 = Size THEN 0 ELSE write + 1
    BY SizeAssumption, NextIndex DEF TypeOK, Slots
  <1>2. /\ queue' = [queue EXCEPT ![write] = e]
        /\ write' = (write + 1) % Size
        /\ read' = read
    BY DEF evq_put
  <1>3. Used' = Used + 1
    BY <1>1, <1>2, SizeAssumption DEF TypeOK, Slots, Used, evq_is_full
  <1>4. \A i \in 1 .. Used : SlotOf(i - 1)' = SlotOf(i - 1)
                             /\ SlotOf(i - 1) \in Slots \ {write}
    BY <1>2, SizeAssumption DEF TypeOK, Slots, Used, SlotOf
  <1>5. \A i \in Nat : i = Used => SlotOf(i)' = write
    BY <1>2, SizeAssumption DEF TypeOK, Slots, Used, SlotOf
  <1>6. \A i \in 1 .. Used : Contents'[i] = Contents[i]
    BY <1>2, <1>3, <1>4, Occupancy DEF Contents, TypeOK
  <1>7. \A i \in Nat : i = Used + 1 => Contents'[i] = e
    <2> SUFFICES ASSUME NEW i \in Nat, i = Used + 1 PROVE Contents'[i] = e
      OBVIOUS
    <2>1. i \in 1 .. Used' /\ i - 1 \in Nat /\ i - 1 = Used
      BY <1>3, Occupancy
    <2>2. Contents'[i] = queue'[SlotOf(i - 1)']
      BY <2>1 DEF Contents
    <2>3. SlotOf(i - 1)' = write
      BY <2>1, <1>5
    <2>4. QED
      BY <2>2, <2>3, <1>2 DEF TypeOK
  <1>8. Contents' \in Seq(Events \cup {Zeroed}) /\ Len(Contents') = Used + 1
    <2>1. \A i \in 1 .. Used + 1 : Contents'[i] \in Events \cup {Zeroed}
      BY <1>6, <1>7, ContentsLength, Occupancy
    <2>2. Contents' = [i \in 1 .. Used + 1 |-> Contents'[i]]
      BY <1>3 DEF Contents
    <2>3. QED
      BY <2>1, <2>2, Occupancy
  <1>9. QED
    BY <1>6, <1>7, <1>8, ContentsLength, Occupancy, AppendIsExtension

\* A get that is answered removes the oldest event.
LEMMA GetRemoves ==
    ASSUME TypeOK, evq_get, ~evq_is_empty
    PROVE  /\ queue[read] = Head(Contents)
           /\ Contents' = Tail(Contents)
  <1>1. (read + 1) % Size = IF read + 1 = Size THEN 0 ELSE read + 1
    BY SizeAssumption, NextIndex DEF TypeOK, Slots
  <1>2. queue' = queue /\ write' = write /\ read' = (read + 1) % Size
    BY DEF evq_get
  <1>3. Used \in Nat \ {0}
    BY Occupancy
  <1>4. Used' = Used - 1
    BY <1>1, <1>2, SizeAssumption DEF TypeOK, Slots, Used, evq_is_empty
  <1>5. queue[read] = Head(Contents)
    <2>1. SlotOf(0) = read
      BY SizeAssumption DEF TypeOK, Slots, SlotOf
    <2>2. Contents[1] = queue[read]
      BY <1>3, <2>1 DEF Contents
    <2>3. QED
      BY <2>2, ContentsLength, <1>3
  <1>6. \A i \in 1 .. Used - 1 : SlotOf(i - 1)' = SlotOf(i)
    BY <1>1, <1>2, SizeAssumption DEF TypeOK, Slots, Used, SlotOf
  <1>7. Contents' = [i \in 1 .. Used - 1 |-> queue[SlotOf(i)]]
    BY <1>2, <1>4, <1>6 DEF Contents
  <1>8. \A i \in 1 .. Used - 1 : Contents[i + 1] = queue[SlotOf(i)]
    BY <1>3 DEF Contents
  <1>9. \A i \in 1 .. Used - 1 : Contents'[i] = Contents[i + 1]
    BY <1>7, <1>8
  <1>10. Contents' \in Seq(Events \cup {Zeroed}) /\ Len(Contents') = Used - 1
    <2>1. \A i \in 1 .. Used - 1 : Contents[i + 1] \in Events \cup {Zeroed}
      BY <1>3, ContentsLength
    <2>2. QED
      BY <1>3, <1>7, <1>8, <2>1
  <1>11. QED
    BY <1>3, <1>5, <1>9, <1>10, ContentsLength, TailIsShift

\* The ring buffer of linux_event.c implements a bounded first-in first-out
\* queue of Size - 1 events.
THEOREM RingIsFifo == Spec => ImplementsFifo
  <1> USE DEF NoAnswer, Accepted, Refused, Delivered,
              Fifo!NoAnswer, Fifo!Accepted, Fifo!Refused, Fifo!Delivered
  <1>1. Init => Fifo!Init
    BY DEF Init, Fifo!Init, Contents, Used
  <1>2. TypeOK /\ [Next]_vars => [Fifo!Next]_(Fifo!fifoVars)
    <2> SUFFICES ASSUME TypeOK, [Next]_vars
                 PROVE  [Fifo!Next]_(Fifo!fifoVars)
      OBVIOUS
    <2> DEFINE full == Len(Contents) = Size - 1
               empty == Contents = <<>>
    <2>1. (evq_is_full <=> full) /\ (evq_is_empty <=> empty)
      BY Occupancy, ContentsLength
    <2>2. ASSUME NEW e \in Events, evq_put(e) PROVE Fifo!Put(e)
      <3>1. CASE evq_is_full
        <4>1. Contents' = Contents
          BY <2>2, <3>1 DEF evq_put, Contents, Used, SlotOf
        <4>2. QED
          BY <2>1, <2>2, <3>1, <4>1 DEF evq_put, Fifo!Put, Fifo!IsFull
      <3>2. CASE ~evq_is_full
        BY <2>1, <2>2, <3>2, PutAppends DEF evq_put, Fifo!Put, Fifo!IsFull
      <3>3. QED
        BY <3>1, <3>2
    <2>3. CASE evq_get
      <3>1. CASE evq_is_empty
        <4>1. Contents' = Contents
          BY <2>3, <3>1 DEF evq_get, Contents, Used, SlotOf
        <4>2. QED
          BY <2>1, <2>3, <3>1, <4>1 DEF evq_get, Fifo!Get, Fifo!IsEmpty, Fifo!Next
      <3>2. CASE ~evq_is_empty
        BY <2>1, <2>3, <3>2, GetRemoves
           DEF evq_get, Fifo!Get, Fifo!IsEmpty, Fifo!Next
      <3>3. QED
        BY <3>1, <3>2
    <2>4. CASE UNCHANGED vars
      BY <2>4 DEF vars, Fifo!fifoVars, Contents, Used, SlotOf
    <2>5. QED
      BY <2>2, <2>3, <2>4 DEF Next, Fifo!Next
  <1>3. QED
    BY <1>1, <1>2, TypeCorrect, PTL DEF Spec, ImplementsFifo, Fifo!Spec
=============================================================================
