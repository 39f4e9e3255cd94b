------------------------ MODULE FunctionBlocks_proofs -------------------------
(***************************************************************************)
(* The list of function blocks keeps its order and its numbers, and the    *)
(* first commit writes what the application asked for, for any set of      *)
(* blocks and alarms, any size of the program and any settings.            *)
(***************************************************************************)
EXTENDS FunctionBlocks, SequenceTheorems, TLAPS

-----------------------------------------------------------------------------
(* The inductive invariant                                                 *)

Sides == {"percent", "parameter"} \X Nat
Settings == [enable : Nat, mode : Nat, sensor : Nat, latching : BOOLEAN,
             low : Sides, high : Sides]

Types ==
    /\ pc \in {"idle", "number", "to_tail", "renumber", "commit"}
    /\ next \in [Blocks -> Blocks \cup {NULL}]
    /\ block_idx \in [Blocks -> Indexes]
    /\ block_data \in [Blocks -> Words]
    /\ temp \in Blocks \cup {NULL}
    /\ next_block \in Blocks \cup {NULL}
    /\ program \in [0 .. FB__PROGRAM_MAX - 1 -> Words \cup {NULL}]
    /\ failures \in 0 .. MaxFailures
    /\ first \in Indexes \cup {NULL}
    /\ settings \in 0 .. MaxSettings
    /\ commits \in 0 .. MaxCommits
    /\ meant \in [Alarms -> Settings]
    /\ list \in Seq(Blocks)

\* The list begins with the first block, has no block twice and nothing after the end
\* marker; an alarm is on it with its second block behind it.
Chain ==
    /\ Len(list) >= 1 /\ list[1] = FirstBlock
    /\ \A i, j \in 1 .. Len(list) : list[i] = list[j] => i = j
    /\ \A i \in 1 .. Len(list) : list[i] = Eob => i = Len(list)
    /\ \A a \in Alarms : \A i \in 1 .. Len(list) :
          /\ list[i] = a => i < Len(list) /\ list[i + 1] = Second[a]
          /\ list[i] = Second[a] => i > 1 /\ list[i - 1] = a

\* The links follow the list, up to the block that is being appended; a block that is
\* not on it has only its second one.
Linked ==
    /\ \A i \in 1 .. Len(list) :
          next[list[i]] = IF i = Len(list) \/ (pc = "to_tail" /\ list[i + 1] = next_block)
                          THEN NULL ELSE list[i + 1]
    /\ \A b \in Blocks : ~OnList(b) => next[b] = Second[b]

\* The first n blocks of the list have their numbers.
Numbered(n) ==
    first # NULL =>
        \A i \in 1 .. n : block_idx[list[i]] = (first + i - 1) % IdxModulus

\* Where the pointer of the loop is, and how far the blocks are numbered.
Pointer ==
    /\ pc \in {"idle", "commit"} => Numbered(Len(list))
    /\ pc \in {"number", "renumber"} =>
          \E n \in 1 .. Len(list) : temp = list[n] /\ Numbered(n)
    /\ pc = "to_tail" =>
          \E k \in 1 .. Len(list) - 1 :
             /\ next_block = list[k + 1] /\ Numbered(k)
             /\ \E n \in 1 .. k : temp = list[n]
    /\ pc = "commit" => temp = NULL \/ OnList(temp)

Shape == Types /\ Chain /\ Linked /\ Pointer

\* The first word of alarm a asks for what was set, where that has room.
FirstWordMeant(a, word) ==
    /\ Field(word, W1.block_type) = FUNCTION_BLOCK_ALARM
    /\ Field(word, W1.status) = 0
    /\ meant[a].enable < 2 => Field(word, W1.block_enable) = meant[a].enable
    /\ meant[a].mode < 4 => Field(word, W1.alarm_mode) = meant[a].mode
    /\ meant[a].sensor < 32 => Field(word, W1.source_index) = meant[a].sensor
    /\ (Field(word, W1.latching) = 1) <=> meant[a].latching

SideHasRoom(side) == side[2] < (IF side[1] = "percent" THEN 128 ELSE 32)

SecondWordMeant(a, word) ==
    /\ SideHasRoom(meant[a].low) => SideMeant(word, 1, meant[a].low)
    /\ SideHasRoom(meant[a].high) => SideMeant(word, 2, meant[a].high)

IsSecond(b) == \E a \in Alarms : Second[a] = b

WordMeant(b, word) ==
    /\ b \in Alarms => FirstWordMeant(b, word)
    /\ \A a \in Alarms : Second[a] = b => SecondWordMeant(a, word)
    /\ b = Eob => word = FB__EOB
    /\ b \notin Alarms /\ b # Eob /\ ~IsSecond(b) => word = OwnWord

\* Before the first commit every word is the one that was meant.
Unsent ==
    commits = 0 => \A b \in Blocks : b # Eob \/ OnList(b) => WordMeant(b, block_data[b])

\* In the first commit the blocks before the j-th are in the program, the others are
\* still to be sent.
SentUpTo(j) ==
    /\ temp = IF j <= Len(list) THEN list[j] ELSE NULL
    /\ \A i \in j .. Len(list) : WordMeant(list[i], block_data[list[i]])
    /\ first # NULL => \A i \in 1 .. j - 1 :
          /\ first + i - 1 < FB__PROGRAM_MAX
          /\ program[first + i - 1] \in Words
          /\ WordMeant(list[i], fb_program_read(first + i - 1))

Sending ==
    pc = "commit" => /\ commits >= 1
                     /\ commits = 1 => \E j \in 1 .. Len(list) + 1 : SentUpTo(j)

IInv == Shape /\ Unsent /\ Sending

-----------------------------------------------------------------------------
(* Sequences                                                               *)

\* The bytes of a word, and reversing them twice.
LEMMA WordLength == \A w \in Words : Len(w) = 4
  <1> SUFFICES ASSUME NEW w \in Words PROVE Len(w) = 4
    OBVIOUS
  <1>1. DOMAIN w = 1 .. 4
    BY DEF Words
  <1> QED BY <1>1

LEMMA WordReversed == \A w \in Words : Reverse(w) = [i \in 1 .. 4 |-> w[5 - i]]
  <1> SUFFICES ASSUME NEW w \in Words PROVE Reverse(w) = [i \in 1 .. 4 |-> w[5 - i]]
    OBVIOUS
  <1>1. Reverse(w) = [i \in 1 .. 4 |-> w[4 - i + 1]]
    BY WordLength DEF Reverse
  <1> QED BY <1>1

LEMMA TwiceReversed == \A w \in Words : Reverse(w) \in Words /\ Reverse(Reverse(w)) = w
  <1> SUFFICES ASSUME NEW w \in Words
               PROVE  Reverse(w) \in Words /\ Reverse(Reverse(w)) = w
    OBVIOUS
  <1>1. Reverse(w) \in Words
    BY WordReversed DEF Words
  <1>2. Reverse(Reverse(w)) = [i \in 1 .. 4 |-> w[i]]
    BY WordReversed, <1>1 DEF Words
  <1> QED BY <1>1, <1>2 DEF Words

\* What appending a block with its second one does to the list.
LEMMA Appended ==
    ASSUME NEW l \in Seq(Blocks), NEW b \in Blocks
    PROVE  LET m == l \o WithSecond(b) IN
           /\ m \in Seq(Blocks)
           /\ \A i \in 1 .. Len(l) : m[i] = l[i]
           /\ m[Len(l) + 1] = b
           /\ Second[b] = NULL => Len(m) = Len(l) + 1
           /\ Second[b] # NULL => Len(m) = Len(l) + 2 /\ m[Len(l) + 2] = Second[b]
  <1> DEFINE m == l \o WithSecond(b)
  <1>1. WithSecond(b) \in Seq(Blocks)
    BY BlockAssumption DEF WithSecond
  <1>2. /\ m \in Seq(Blocks) /\ Len(m) = Len(l) + Len(WithSecond(b))
        /\ \A i \in 1 .. Len(m) :
              m[i] = IF i <= Len(l) THEN l[i] ELSE WithSecond(b)[i - Len(l)]
    BY <1>1, ConcatProperties
  <1>3. CASE Second[b] = NULL
    <2>1. Len(WithSecond(b)) = 1 /\ WithSecond(b)[1] = b
      BY <1>3 DEF WithSecond
    <2> QED BY <1>2, <1>3, <2>1
  <1>4. CASE Second[b] # NULL
    <2>1. Len(WithSecond(b)) = 2 /\ WithSecond(b)[1] = b /\ WithSecond(b)[2] = Second[b]
      BY <1>4 DEF WithSecond
    <2> QED BY <1>2, <1>4, <2>1
  <1> QED BY <1>3, <1>4

-----------------------------------------------------------------------------
(* Numbers that wrap                                                       *)

LEMMA DivisionUnique ==
    ASSUME NEW M \in Nat \ {0}, NEW q \in Int, NEW p \in Int,
           NEW r \in 0 .. M - 1, NEW s \in 0 .. M - 1, q * M + r = p * M + s
    PROVE  r = s
  <1>1. CASE q = p
    BY <1>1
  <1>2. CASE q >= p + 1
    <2>1. q * M >= (p + 1) * M
      BY <1>2
    <2>2. (p + 1) * M = p * M + M
      OBVIOUS
    <2> QED BY <2>1, <2>2
  <1>3. CASE p >= q + 1
    <2>1. p * M >= (q + 1) * M
      BY <1>3
    <2>2. (q + 1) * M = q * M + M
      OBVIOUS
    <2> QED BY <2>1, <2>2
  <1> QED BY <1>1, <1>2, <1>3

LEMMA Division ==
    ASSUME NEW M \in Nat \ {0}, NEW x \in Nat
    PROVE  x % M \in 0 .. M - 1 /\ x \div M \in Int /\ x = (x \div M) * M + (x % M)
  OBVIOUS

LEMMA IncAfterWrap ==
    ASSUME NEW M \in Nat \ {0}, NEW x \in Nat
    PROVE  ((x % M) + 1) % M = (x + 1) % M
  <1> DEFINE q == x \div M
             r == x % M
             p == (x + 1) \div M
             s == (x + 1) % M
  <1>1. q \in Int /\ r \in 0 .. M - 1 /\ x = q * M + r
    BY Division
  <1>2. p \in Int /\ s \in 0 .. M - 1 /\ x + 1 = p * M + s
    BY Division
  <1> HIDE DEF q, r, p, s
  <1>3. CASE r + 1 < M
    <2>1. s = r + 1
      <3>1. q * M + (r + 1) = p * M + s /\ r + 1 \in 0 .. M - 1
        BY <1>1, <1>2, <1>3
      <3> QED BY <3>1, <1>1, <1>2, DivisionUnique
    <2>2. (r + 1) % M = r + 1
      BY <1>1, <1>3
    <2> QED BY <2>1, <2>2 DEF r, s
  <1>4. CASE r + 1 = M
    <2>1. s = 0
      <3>1. (q + 1) * M = q * M + M
        BY <1>1
      <3>2. (q + 1) * M + 0 = p * M + s /\ q + 1 \in Int /\ 0 \in 0 .. M - 1
        BY <3>1, <1>1, <1>2, <1>4
      <3> QED BY <3>2, <1>2, DivisionUnique
    <2>2. (r + 1) % M = 0
      BY <1>1, <1>4
    <2> QED BY <2>1, <2>2 DEF r, s
  <1> QED BY <1>1, <1>3, <1>4

LEMMA IncIsIndex == \A i \in Indexes : Inc(i) \in Indexes
  BY BlockAssumption DEF Indexes, Inc

\* The number after a number of the list.
LEMMA NextNumber ==
    \A f \in Indexes, n \in Nat \ {0} :
        Inc((f + n - 1) % IdxModulus) = (f + n) % IdxModulus
  <1> SUFFICES ASSUME NEW f \in Indexes, NEW n \in Nat \ {0}
               PROVE  Inc((f + n - 1) % IdxModulus) = (f + n) % IdxModulus
    OBVIOUS
  <1>1. f + n - 1 \in Nat /\ IdxModulus \in Nat \ {0} /\ (f + n - 1) + 1 = f + n
    BY BlockAssumption DEF Indexes
  <1> QED BY <1>1, IncAfterWrap DEF Inc

-----------------------------------------------------------------------------
(* The shape of the list, one lemma for each action that touches it        *)

\* Where a block is on the list.
LEMMA PlaceOnList ==
    ASSUME Types, NEW b, OnList(b)
    PROVE  b \in Blocks /\ \E n \in 1 .. Len(list) : b = list[n]
  BY DEF OnList, Types

LEMMA InitHeadShape ==
    ASSUME Shape, NEW index \in FirstIndexes, fb_init_head(index)
    PROVE  Shape'
  <1> USE BlockAssumption DEF fb_init_head
  <1>1. Types'
    BY DEF Shape, Types, probe, alarm, Indexes
  <1>2. Chain' /\ Linked'
    BY DEF Shape, Types, Chain, Linked, OnList
  <1>3. 1 \in 1 .. Len(list) /\ list[1] = FirstBlock /\ FirstBlock \in Blocks
    BY DEF Shape, Types, Chain
  <1>4. Numbered(1)'
    <2>1. (index + 1 - 1) % IdxModulus = index
      BY DEF Indexes
    <2> QED BY <1>3, <2>1 DEF Numbered, Shape, Types
  <1>5. Pointer'
    BY <1>3, <1>4 DEF Pointer
  <1> QED BY <1>1, <1>2, <1>5 DEF Shape

LEMMA NumberNextShape ==
    ASSUME Shape, NumberNext
    PROVE  Shape'
  <1> USE BlockAssumption
  <1>1. PICK n \in 1 .. Len(list) : temp = list[n] /\ Numbered(n)
    BY DEF NumberNext, Shape, Pointer
  <1>2. CASE next[temp] # NULL
    <2>1. n < Len(list) /\ next[temp] = list[n + 1] /\ n + 1 \in 1 .. Len(list)
          /\ list[n + 1] \in Blocks
      BY <1>1, <1>2 DEF NumberNext, Shape, Linked, Types
    <2>2. /\ pc = "number" /\ pc' = pc /\ temp' = list[n + 1]
          /\ block_idx' = [block_idx EXCEPT ![list[n + 1]] = Inc(block_idx[list[n]])]
          /\ UNCHANGED <<next, next_block, block_data, probe, alarm, history>>
      BY <1>1, <1>2, <2>1 DEF NumberNext
    <2>3. Types'
      BY <2>1, <2>2, IncIsIndex DEF Shape, Types, probe, alarm, history
    <2>4. Chain' /\ Linked'
      BY <2>2 DEF Shape, Chain, Linked, OnList, history
    <2>5. Numbered(n + 1)'
      <3> SUFFICES ASSUME first # NULL, NEW i \in 1 .. n + 1
                   PROVE  block_idx'[list[i]] = (first + i - 1) % IdxModulus
        BY <2>2 DEF Numbered, history
      <3>1. CASE i = n + 1
        <4>1. block_idx[list[n]] = (first + n - 1) % IdxModulus
          BY <1>1 DEF Numbered
        <4>2. first \in Indexes /\ n \in Nat \ {0}
          BY DEF Shape, Types
        <4>3. block_idx'[list[n + 1]] = (first + n) % IdxModulus
          BY <2>1, <2>2, <4>1, <4>2, NextNumber DEF Shape, Types
        <4> QED BY <3>1, <4>2, <4>3 DEF Indexes
      <3>2. CASE i # n + 1
        <4>1. i \in 1 .. n /\ list[i] # list[n + 1] /\ list[i] \in Blocks
          BY <2>1, <3>2 DEF Shape, Types, Chain
        <4> QED BY <1>1, <2>2, <4>1 DEF Numbered, Shape, Types
      <3> QED BY <3>1, <3>2
    <2>6. Pointer'
      BY <2>1, <2>2, <2>5 DEF Pointer, history
    <2> QED BY <2>3, <2>4, <2>6 DEF Shape
  <1>3. CASE next[temp] = NULL
    <2>1. /\ pc' = "idle"
          /\ UNCHANGED <<temp, block_idx, next, next_block, block_data, probe, alarm, history>>
      BY <1>3 DEF NumberNext
    <2>2. n = Len(list)
      BY <1>1, <1>3 DEF NumberNext, Shape, Linked, Types
    <2>3. Types'
      BY <2>1 DEF Shape, Types, probe, alarm, history
    <2>5. Chain' /\ Linked'
      BY <2>1 DEF NumberNext, Shape, Chain, Linked, OnList, history
    <2>4. Pointer'
      BY <1>1, <2>1, <2>2 DEF Pointer, Numbered, history
    <2> QED BY <2>3, <2>4, <2>5 DEF Shape
  <1> QED BY <1>2, <1>3

\* A block that is neither on the list nor part of an alarm is appended, with its own
\* second block if it is an alarm.
LEMMA AppendShape ==
    ASSUME Shape, NEW b \in Blocks, Free(b), ~OnList(Eob), pc = "idle",
           b = Eob \/ Second[b] # Eob,
           pc' = "to_tail", temp' = FirstBlock, next_block' = b,
           list' = list \o WithSecond(b), next' = next,
           block_data' \in [Blocks -> Words],
           UNCHANGED <<block_idx, probe, alarm, first, commits>>
    PROVE  Shape'
  <1> USE BlockAssumption
  <1>1. list \in Seq(Blocks) /\ Len(list) \in Nat /\ Len(list) >= 1
    BY DEF Shape, Types, Chain
  <1>2. /\ list' \in Seq(Blocks)
        /\ \A i \in 1 .. Len(list) : list'[i] = list[i]
        /\ list'[Len(list) + 1] = b
        /\ Second[b] = NULL => Len(list') = Len(list) + 1
        /\ Second[b] # NULL => Len(list') = Len(list) + 2 /\ list'[Len(list) + 2] = Second[b]
    BY ONLY <1>1, b \in Blocks, list' = list \o WithSecond(b), Appended
  <1>3. \A i \in 1 .. Len(list) : /\ list[i] \in Blocks /\ list[i] # b /\ list[i] # Eob
                                  /\ Second[b] # NULL => list[i] # Second[b]
    <2> SUFFICES ASSUME NEW i \in 1 .. Len(list)
                 PROVE  /\ list[i] \in Blocks /\ list[i] # b /\ list[i] # Eob
                        /\ Second[b] # NULL => list[i] # Second[b]
      OBVIOUS
    <2>1. list[i] \in Blocks
      BY <1>1
    <2>2. list[i] # b /\ list[i] # Eob
      BY DEF Free, OnList
    <2>3. ASSUME Second[b] # NULL, list[i] = Second[b] PROVE FALSE
      <3>1. b \in Alarms
        BY <2>3 DEF Alarms
      <3>2. i - 1 \in 1 .. Len(list) /\ list[i - 1] = b
        BY <2>3, <3>1, <1>1 DEF Shape, Chain
      <3> QED BY <3>2 DEF Free, OnList
    <2> QED BY <2>1, <2>2, <2>3
  <1>4. Second[b] # NULL => Second[b] \in Blocks /\ Second[b] # b /\ Second[b] # Eob
    BY DEF Alarms, Free
  <1>5. Types'
    BY <1>2 DEF Shape, Types, probe, alarm
  <1>6. Chain'
    <2>1. Len(list') >= 1 /\ list'[1] = FirstBlock
      BY <1>1, <1>2 DEF Shape, Chain
    <2>2. \A i, j \in 1 .. Len(list') : list'[i] = list'[j] => i = j
      <3>1. CASE Second[b] = NULL
        BY <1>1, <1>2, <1>3, <3>1 DEF Shape, Chain
      <3>2. CASE Second[b] # NULL
        BY <1>1, <1>2, <1>3, <1>4, <3>2 DEF Shape, Chain
      <3> QED BY <3>1, <3>2
    <2>3. \A i \in 1 .. Len(list') : list'[i] = Eob => i = Len(list')
      BY <1>1, <1>2, <1>3, <1>4
    <2>4. ASSUME NEW a \in Alarms, NEW i \in 1 .. Len(list'), list'[i] = a
          PROVE  i < Len(list') /\ list'[i + 1] = Second[a]
      <3>1. Second[a] # NULL /\ Second[a] \in Blocks /\ Second[Second[a]] = NULL
        BY DEF Alarms
      <3>2. CASE i <= Len(list)
        BY <1>1, <1>2, <2>4, <3>2 DEF Shape, Chain
      <3>3. CASE i > Len(list)
        BY <1>1, <1>2, <2>4, <3>1, <3>3, <1>4 DEF Alarms
      <3> QED BY <1>2, <3>2, <3>3
    <2>5. ASSUME NEW a \in Alarms, NEW i \in 1 .. Len(list'), list'[i] = Second[a]
          PROVE  i > 1 /\ list'[i - 1] = a
      <3>1. CASE i <= Len(list)
        <4>1. i > 1 /\ list[i - 1] = a
          BY <1>1, <1>2, <2>5, <3>1 DEF Shape, Chain
        <4> QED BY <1>1, <1>2, <3>1, <4>1
      <3>2. CASE i = Len(list) + 1
        BY <1>2, <2>5, <3>2 DEF Free, Alarms
      <3>3. CASE i > Len(list) + 1
        <4>1. Second[b] # NULL /\ i = Len(list) + 2 /\ Second[a] = Second[b] /\ b \in Alarms
          BY <1>1, <1>2, <2>5, <3>3 DEF Alarms
        <4> QED BY <1>1, <1>2, <4>1
      <3>4. i \in Int
        OBVIOUS
      <3>5. i <= Len(list) \/ i = Len(list) + 1 \/ i > Len(list) + 1
        BY ONLY <1>1, <3>4
      <3> QED BY ONLY <3>1, <3>2, <3>3, <3>5
    <2> QED BY <2>1, <2>2, <2>3, <2>4, <2>5 DEF Chain
  <1>7. Linked'
    <2>1. ASSUME NEW i \in 1 .. Len(list')
          PROVE  next'[list'[i]] = IF i = Len(list') \/ (pc' = "to_tail" /\ list'[i + 1] = next_block')
                                   THEN NULL ELSE list'[i + 1]
      <3>1. CASE i < Len(list)
        BY <1>1, <1>2, <1>3, <3>1 DEF Shape, Linked
      <3>2. CASE i = Len(list)
        BY <1>1, <1>2, <3>2 DEF Shape, Linked
      <3>3. CASE i = Len(list) + 1
        <4>1. next[b] = Second[b]
          BY DEF Free, Shape, Linked
        <4> QED BY <1>1, <1>2, <1>4, <3>3, <4>1
      <3>4. CASE i = Len(list) + 2
        <4>1. Second[b] # NULL
          BY <1>1, <1>2, <3>4
        <4>2. ~OnList(Second[b])
          BY <1>3, <4>1 DEF OnList
        <4>3. next[Second[b]] = NULL
          BY <1>4, <4>1, <4>2 DEF Shape, Linked, Alarms
        <4> QED BY <1>2, <3>4, <4>1, <4>3
      <3>5. i < Len(list) \/ i = Len(list) \/ i = Len(list) + 1 \/ i = Len(list) + 2
        BY ONLY <1>1, <1>2, i \in 1 .. Len(list')
      <3> QED BY ONLY <3>1, <3>2, <3>3, <3>4, <3>5
    <2>2. ASSUME NEW c \in Blocks, ~OnList(c)' PROVE next'[c] = Second[c]
      <3>1. ASSUME NEW i \in 1 .. Len(list), list[i] = c PROVE FALSE
        <4>1. i \in 1 .. Len(list') /\ list'[i] = c
          BY ONLY <1>1, <1>2, <3>1
        <4> QED BY ONLY <4>1, <2>2 DEF OnList
      <3>2. ~OnList(c)
        BY <3>1 DEF OnList
      <3> QED BY <3>2 DEF Shape, Linked
    <2> QED BY <2>1, <2>2 DEF Linked
  <1>8. Pointer'
    <2>0. PICK k \in Nat : k = Len(list)
      BY <1>1
    <2>1. k \in 1 .. Len(list') - 1 /\ next_block' = list'[k + 1]
      BY <1>1, <1>2, <2>0
    <2>2. Numbered(k)'
      BY <1>1, <1>2, <2>0 DEF Numbered, Shape, Pointer
    <2>3. 1 \in 1 .. k /\ temp' = list'[1]
      BY <1>1, <1>2, <2>0 DEF Shape, Chain
    <2> QED BY <2>1, <2>2, <2>3 DEF Pointer
  <1> QED BY <1>5, <1>6, <1>7, <1>8 DEF Shape

LEMMA ChainShape ==
    ASSUME Shape, NEW b \in Blocks, fb_chain(b)
    PROVE  Shape'
  <1>1. b \in Alarms \/ Second[b] = NULL
    BY BlockAssumption DEF Alarms
  <1>2. b = Eob \/ Second[b] # Eob
    BY <1>1, BlockAssumption
  <1> QED BY <1>2, AppendShape DEF fb_chain, links, Shape, Types

LEMMA EobIsWord == FB__EOB \in Words
  BY DEF FB__EOB, Words

LEMMA TerminateShape ==
    ASSUME Shape, fb_terminate
    PROVE  Shape'
  <1>1. Free(Eob)
    BY BlockAssumption DEF fb_terminate, Free, Alarms
  <1>2. next' = next
    BY BlockAssumption DEF fb_terminate, Shape, Types, Linked
  <1>3. block_data' \in [Blocks -> Words]
    BY EobIsWord, BlockAssumption DEF fb_terminate, Shape, Types
  <1>4. WithSecond(Eob) = <<Eob>>
    BY BlockAssumption DEF WithSecond
  <1>5. list' = list \o WithSecond(Eob)
    BY <1>4, BlockAssumption, AppendIsConcat DEF fb_terminate, Shape, Types
  <1> QED BY <1>1, <1>2, <1>3, <1>5, AppendShape, BlockAssumption DEF fb_terminate

LEMMA ToTailShape ==
    ASSUME Shape, ToTail
    PROVE  Shape'
  <1>1. PICK k \in 1 .. Len(list) - 1, n \in 1 .. Len(list) :
           next_block = list[k + 1] /\ Numbered(k) /\ n <= k /\ temp = list[n]
    BY DEF ToTail, Shape, Pointer
  <1>2. /\ pc = "to_tail" /\ pc' = pc /\ next[temp] # NULL /\ temp' = next[temp]
        /\ UNCHANGED <<links, next_block, block_data, probe, alarm, history>>
    BY DEF ToTail
  <1>3. n < k /\ temp' = list[n + 1] /\ n + 1 \in 1 .. k /\ list[n + 1] \in Blocks
    <2>1. list \in Seq(Blocks) /\ Len(list) \in Nat
      BY DEF Shape, Types
    <2>2. next[list[n]] = IF n = Len(list) \/ list[n + 1] = next_block
                          THEN NULL ELSE list[n + 1]
      BY <1>1, <1>2 DEF Shape, Linked
    <2>3. n # k /\ temp' = list[n + 1]
      BY ONLY <1>1, <1>2, <2>2
    <2>4. n < k /\ n + 1 \in 1 .. k /\ n + 1 \in 1 .. Len(list)
      BY ONLY <1>1, <2>1, <2>3
    <2> QED BY ONLY <2>1, <2>3, <2>4
  <1>4. Types'
    BY <1>2, <1>3 DEF Shape, Types, links, probe, alarm, history
  <1>5. Chain' /\ Linked'
    BY <1>2 DEF Shape, Chain, Linked, OnList, links, history
  <1>6. Pointer'
    BY <1>1, <1>2, <1>3 DEF Pointer, Numbered, links, history
  <1> QED BY <1>4, <1>5, <1>6 DEF Shape

LEMMA LinkShape ==
    ASSUME Shape, Link
    PROVE  Shape'
  <1> USE BlockAssumption
  <1>1. PICK k \in 1 .. Len(list) - 1, n \in 1 .. Len(list) :
           next_block = list[k + 1] /\ Numbered(k) /\ n <= k /\ temp = list[n]
    BY DEF Link, Shape, Pointer
  <1>2. /\ k + 1 \in 1 .. Len(list) /\ list \in Seq(Blocks)
        /\ list[k] \in Blocks /\ list[k + 1] \in Blocks /\ list[n] \in Blocks
    BY <1>1 DEF Shape, Types
  <1>3. n = k
    BY <1>1, <1>2 DEF Link, Shape, Chain, Linked
  <1>4. /\ pc = "to_tail" /\ pc' = "renumber" /\ temp' = list[k + 1]
        /\ next' = [next EXCEPT ![list[k]] = list[k + 1]]
        /\ block_idx' = [block_idx EXCEPT ![list[k + 1]] = Inc(block_idx[list[k]])]
        /\ UNCHANGED <<next_block, block_data, probe, alarm, history>>
    BY <1>1, <1>3 DEF Link
  <1>5. Types'
    BY <1>2, <1>4, IncIsIndex DEF Shape, Types, probe, alarm, history
  <1>6. Chain'
    BY <1>4 DEF Shape, Chain, history
  <1>7. Linked'
    <2>1. ASSUME NEW i \in 1 .. Len(list)
          PROVE  next'[list[i]] = IF i = Len(list) THEN NULL ELSE list[i + 1]
      <3>1. list[i] \in Blocks /\ (i = k <=> list[i] = list[k])
        BY <1>2 DEF Shape, Chain
      <3>2. CASE i = k
        BY <1>1, <1>2, <1>4, <3>2 DEF Shape, Types
      <3>3. CASE i # k
        <4>1. next'[list[i]] = next[list[i]]
          BY <1>2, <1>4, <3>1, <3>3 DEF Shape, Types
        <4>2. i < Len(list) => list[i + 1] # next_block
          BY <1>1, <1>2, <3>3 DEF Shape, Chain
        <4> QED BY <4>1, <4>2 DEF Shape, Linked
      <3> QED BY <3>2, <3>3
    <2>2. ASSUME NEW c \in Blocks, ~OnList(c) PROVE next'[c] = Second[c]
      BY <1>2, <1>4, <2>2 DEF Shape, Types, Linked, OnList
    <2> QED BY <1>4, <2>1, <2>2 DEF Linked, OnList, history
  <1>8. Numbered(k + 1)'
    <2> SUFFICES ASSUME first # NULL, NEW i \in 1 .. k + 1
                 PROVE  block_idx'[list[i]] = (first + i - 1) % IdxModulus
      BY <1>4 DEF Numbered, history
    <2>1. CASE i = k + 1
      <3>1. block_idx[list[k]] = (first + k - 1) % IdxModulus
        BY <1>1 DEF Numbered
      <3>2. first \in Indexes /\ k \in Nat \ {0}
        BY DEF Shape, Types
      <3>3. block_idx'[list[k + 1]] = (first + k) % IdxModulus
        BY <1>2, <1>4, <3>1, <3>2, NextNumber DEF Shape, Types
      <3> QED BY <2>1, <3>2, <3>3 DEF Indexes
    <2>2. CASE i # k + 1
      <3>1. i \in 1 .. k /\ list[i] # list[k + 1] /\ list[i] \in Blocks
        BY <1>2, <2>2 DEF Shape, Types, Chain
      <3> QED BY <1>1, <1>4, <3>1 DEF Numbered, Shape, Types
    <2> QED BY <2>1, <2>2
  <1>9. Pointer'
    BY <1>2, <1>4, <1>8 DEF Pointer, history
  <1> QED BY <1>5, <1>6, <1>7, <1>9 DEF Shape

LEMMA RenumberShape ==
    ASSUME Shape, Renumber
    PROVE  Shape'
  <1> USE BlockAssumption
  <1>1. PICK n \in 1 .. Len(list) : temp = list[n] /\ Numbered(n)
    BY DEF Renumber, Shape, Pointer
  <1>2. pc = "renumber" /\ UNCHANGED <<next, loop, block_data, probe, alarm, history>>
    BY DEF Renumber
  <1>3. CASE next[temp] # NULL
    <2>1. n < Len(list) /\ next[temp] = list[n + 1] /\ list[n + 1] \in Blocks
          /\ list[n] \in Blocks
      BY <1>1, <1>2, <1>3 DEF Shape, Linked, Types
    <2>2. /\ pc' = pc
          /\ block_idx' = [block_idx EXCEPT ![list[n + 1]] = Inc(block_idx[list[n]])]
      BY <1>1, <1>3, <2>1 DEF Renumber
    <2>3. Types'
      BY <1>2, <2>1, <2>2, IncIsIndex DEF Shape, Types, loop, probe, alarm, history
    <2>4. Chain' /\ Linked'
      BY <1>2, <2>2 DEF Shape, Chain, Linked, OnList, loop, history
    <2>5. Numbered(n)'
      <3> SUFFICES ASSUME first # NULL, NEW i \in 1 .. n
                   PROVE  block_idx'[list[i]] = (first + i - 1) % IdxModulus
        BY <1>2 DEF Numbered, history
      <3>1. list[i] # list[n + 1] /\ list[i] \in Blocks
        BY <2>1 DEF Shape, Types, Chain
      <3> QED BY <1>1, <2>2, <3>1 DEF Numbered, Shape, Types
    <2>6. Pointer'
      BY <1>1, <1>2, <2>2, <2>5 DEF Pointer, loop, history
    <2> QED BY <2>3, <2>4, <2>6 DEF Shape
  <1>4. CASE next[temp] = NULL
    <2>1. pc' = "idle" /\ block_idx' = block_idx
      BY <1>4 DEF Renumber
    <2>2. n = Len(list)
      BY <1>1, <1>2, <1>4 DEF Shape, Linked, Types
    <2>3. Types'
      BY <1>2, <2>1 DEF Shape, Types, loop, probe, alarm, history
    <2>4. Chain' /\ Linked'
      BY <1>2, <2>1 DEF Shape, Chain, Linked, OnList, loop, history
    <2>5. Pointer'
      BY <1>1, <1>2, <2>1, <2>2 DEF Pointer, Numbered, loop, history
    <2> QED BY <2>3, <2>4, <2>5 DEF Shape
  <1> QED BY <1>3, <1>4

\* What moves no block: a commit, an erasure, the setting of a field.
LEMMA RestShape ==
    ASSUME Shape, Types', UNCHANGED <<links, list, first>>,
           \/ pc = "idle" /\ pc' = "idle"
           \/ pc \in {"idle", "commit"} /\ pc' = "commit" /\ (temp' = NULL \/ OnList(temp'))
           \/ pc = "commit" /\ pc' = "idle"
    PROVE  Shape'
  <1>1. Chain'
    BY DEF Shape, Chain
  <1>2. Linked'
    BY DEF Shape, Linked, OnList, links
  <1>3. Numbered(Len(list)) /\ UNCHANGED <<block_idx, list, first>>
    BY DEF Shape, Pointer, links
  <1>4. Pointer'
    BY <1>3 DEF Pointer, Numbered, OnList
  <1> QED BY <1>1, <1>2, <1>4 DEF Shape

-----------------------------------------------------------------------------
(* Bit fields                                                              *)

\* The weights and sizes of the fields, the part of a byte that is one, the byte after
\* an assignment to it, and fields that do not overlap.
Shapes == {<<1, 2>>, <<2, 16>>, <<32, 4>>, <<128, 2>>, <<1, 32>>, <<1, 128>>, <<32, 2>>, <<64, 2>>}
Part(x, s) == (x \div s[1]) % s[2]
Assigned(x, s, v) == (x - s[1] * Part(x, s)) + s[1] * (v % s[2])
Apart(s, t) == s[1] * s[2] <= t[1] \/ t[1] * t[2] <= s[1]

\* An assignment to a field of a byte sets that part and leaves the others alone.
LEMMA Assigning ==
    ASSUME NEW x \in 0 .. 255, NEW v \in Nat, NEW s \in Shapes
    PROVE  /\ Assigned(x, s, v) \in 0 .. 255
           /\ Part(Assigned(x, s, v), s) = v % s[2]
           /\ \A t \in Shapes : Apart(s, t) => Part(Assigned(x, s, v), t) = Part(x, t)
  <1> DEFINE Fits(f) == /\ Assigned(x, f, v) \in 0 .. 255
                        /\ Part(Assigned(x, f, v), f) = v % f[2]
             Leaves(f) == \A t \in Shapes :
                             Apart(f, t) => Part(Assigned(x, f, v), t) = Part(x, t)
  <1>1. Fits(<<1, 2>>) /\ Fits(<<2, 16>>) /\ Fits(<<32, 4>>) /\ Fits(<<128, 2>>)
    BY DEF Part, Assigned
  <1>2. Fits(<<1, 32>>) /\ Fits(<<1, 128>>) /\ Fits(<<32, 2>>) /\ Fits(<<64, 2>>)
    BY DEF Part, Assigned
  <1>3. Leaves(<<1, 2>>)
    BY SMTT(30) DEF Shapes, Part, Assigned, Apart
  <1>4. Leaves(<<2, 16>>)
    BY SMTT(30) DEF Shapes, Part, Assigned, Apart
  <1>5. Leaves(<<32, 4>>)
    BY SMTT(30) DEF Shapes, Part, Assigned, Apart
  <1>6. Leaves(<<128, 2>>)
    <2>1. PICK c \in 0 .. 1, d \in 0 .. 1 :
             /\ Part(x, <<128, 2>>) = c /\ v % 2 = d
             /\ Assigned(x, <<128, 2>>, v) = x - 128 * c + 128 * d
             /\ x - 128 * c \in 0 .. 127
      BY DEF Part, Assigned
    <2> SUFFICES ASSUME NEW t \in Shapes, Apart(<<128, 2>>, t)
                 PROVE  Part(x - 128 * c + 128 * d, t) = Part(x, t)
      BY <2>1
    <2>2. ASSUME NEW u \in Shapes, Apart(<<128, 2>>, u), NEW y \in 0 .. 127
          PROVE  Part(y + 128, u) = Part(y, u)
      <3>1. u \in {<<1, 2>>, <<2, 16>>, <<32, 4>>, <<1, 32>>, <<1, 128>>, <<32, 2>>, <<64, 2>>}
        BY <2>2 DEF Shapes, Apart
      <3> QED BY <3>1 DEF Part
    <2>3. Part((x - 128 * c) + 128, t) = Part(x - 128 * c, t)
      BY <2>1, <2>2
    <2> QED BY <2>1, <2>3
  <1>7. Leaves(<<1, 32>>)
    BY SMTT(30) DEF Shapes, Part, Assigned, Apart
  <1>8. Leaves(<<1, 128>>)
    BY SMTT(30) DEF Shapes, Part, Assigned, Apart
  <1>9. Leaves(<<32, 2>>)
    BY SMTT(30) DEF Shapes, Part, Assigned, Apart
  <1>10. Leaves(<<64, 2>>)
    BY SMTT(30) DEF Shapes, Part, Assigned, Apart
  <1>11. Fits(s) /\ Leaves(s)
    <2> HIDE DEF Fits, Leaves
    <2> QED BY <1>1, <1>2, <1>3, <1>4, <1>5, <1>6, <1>7, <1>8, <1>9, <1>10 DEF Shapes
  <1> QED BY <1>11

Fields == {Bits(byte, s[1], s[2]) : byte \in 1 .. 4, s \in Shapes}

Separate(f, g) ==
    f.byte # g.byte \/ f.weight * f.size <= g.weight \/ g.weight * g.size <= f.weight

\* So does an assignment to a field of a word.
LEMMA Putting ==
    ASSUME NEW w \in Words, NEW f \in Fields, NEW v \in Nat
    PROVE  /\ Put(w, f, v) \in Words
           /\ Field(Put(w, f, v), f) = v % f.size
           /\ \A g \in Fields : Separate(f, g) => Field(Put(w, f, v), g) = Field(w, g)
  <1>1. PICK i \in 1 .. 4, s \in Shapes : f = Bits(i, s[1], s[2])
    BY DEF Fields
  <1>2. f.byte = i /\ f.weight = s[1] /\ f.size = s[2]
    BY <1>1 DEF Bits
  <1>3. w[i] \in 0 .. 255 /\ Put(w, f, v) = [w EXCEPT ![i] = Assigned(w[i], s, v)]
    BY <1>2 DEF Words, Put, Field, Assigned, Part
  <1>4. /\ Assigned(w[i], s, v) \in 0 .. 255
        /\ Part(Assigned(w[i], s, v), s) = v % s[2]
        /\ \A t \in Shapes : Apart(s, t) => Part(Assigned(w[i], s, v), t) = Part(w[i], t)
    <2>1. PICK x \in 0 .. 255 : x = w[i]
      BY <1>3
    <2>2. /\ Assigned(x, s, v) \in 0 .. 255
          /\ Part(Assigned(x, s, v), s) = v % s[2]
          /\ \A t \in Shapes : Apart(s, t) => Part(Assigned(x, s, v), t) = Part(x, t)
      BY ONLY v \in Nat, s \in Shapes, Assigning
    <2> QED BY ONLY <2>1, <2>2
  <1>5. Put(w, f, v) \in Words
    BY <1>3, <1>4 DEF Words
  <1>6. Put(w, f, v)[i] = Assigned(w[i], s, v)
    BY <1>3 DEF Words
  <1>7. Field(Put(w, f, v), f) = v % f.size
    BY <1>2, <1>4, <1>6 DEF Field, Part
  <1>8. ASSUME NEW g \in Fields, Separate(f, g)
        PROVE  Field(Put(w, f, v), g) = Field(w, g)
    <2>1. PICK j \in 1 .. 4, t \in Shapes : g = Bits(j, t[1], t[2])
      BY DEF Fields
    <2>2. g.byte = j /\ g.weight = t[1] /\ g.size = t[2]
      BY <2>1 DEF Bits
    <2>3. CASE i = j
      <3>1. Apart(s, t)
        BY <1>2, <1>8, <2>2, <2>3 DEF Separate, Apart
      <3>2. Part(Assigned(w[i], s, v), t) = Part(w[i], t)
        BY <1>4, <3>1
      <3> QED BY <1>6, <2>2, <2>3, <3>2 DEF Field, Part
    <2>4. CASE i # j
      <3>1. Put(w, f, v)[j] = w[j]
        BY <1>3, <2>4 DEF Words
      <3> QED BY <2>2, <3>1 DEF Field
    <2> QED BY <2>3, <2>4
  <1> QED BY <1>5, <1>7, <1>8

FirstFields == {W1.block_enable, W1.block_type, W1.alarm_mode, W1.status,
                W1.source_index, W1.latching}
SideFields(byte) == {W2(byte).value, W2(byte).opt, W2(byte).index, W2(byte).bpa,
                     W2(byte).fba}

LEMMA FirstFieldsSeparate ==
    /\ FirstFields \subseteq Fields
    /\ \A f, g \in FirstFields : f = g \/ Separate(f, g)
  <1>1. FirstFields = {Bits(1, 1, 2), Bits(1, 2, 16), Bits(1, 32, 4), Bits(1, 128, 2),
                       Bits(2, 1, 32), Bits(2, 128, 2)}
    BY DEF FirstFields, W1
  <1>2. \A byte \in 1 .. 4, s \in Shapes : Bits(byte, s[1], s[2]) \in Fields
    BY DEF Fields
  <1>3. FirstFields \subseteq Fields
    BY <1>1, <1>2 DEF Shapes
  <1>4. \A f, g \in FirstFields : f = g \/ Separate(f, g)
    BY <1>1 DEF Separate, Bits
  <1> QED BY <1>3, <1>4

LEMMA SideFieldsSeparate ==
    ASSUME NEW byte \in {1, 2}
    PROVE  /\ SideFields(byte) \subseteq Fields
           /\ \A g \in SideFields(byte) \ {W2(byte).opt} : Separate(W2(byte).opt, g)
           /\ Separate(W2(byte).value, W2(byte).opt)
           /\ Separate(W2(byte).index, W2(byte).opt)
           /\ \A f, g \in {W2(byte).opt, W2(byte).index, W2(byte).fba, W2(byte).bpa} :
                 f = g \/ Separate(f, g)
           /\ \A other \in {1, 2} \ {byte} :
                 \A f \in SideFields(byte), g \in SideFields(other) : Separate(f, g)
  <1>1. \A i \in {1, 2} : SideFields(i) = {Bits(i, 1, 128), Bits(i, 128, 2), Bits(i, 1, 32),
                                           Bits(i, 32, 2), Bits(i, 64, 2)}
    BY DEF SideFields, W2
  <1>2. \A i \in 1 .. 4, s \in Shapes : Bits(i, s[1], s[2]) \in Fields
    BY DEF Fields
  <1>3. SideFields(byte) \subseteq Fields
    BY <1>1, <1>2 DEF Shapes
  <1>4. /\ \A g \in SideFields(byte) \ {W2(byte).opt} : Separate(W2(byte).opt, g)
        /\ Separate(W2(byte).value, W2(byte).opt)
        /\ Separate(W2(byte).index, W2(byte).opt)
    BY <1>1 DEF Separate, Bits, W2
  <1>5. \A f, g \in {W2(byte).opt, W2(byte).index, W2(byte).fba, W2(byte).bpa} :
            f = g \/ Separate(f, g)
    BY DEF Separate, Bits, W2
  <1>6. \A other \in {1, 2} \ {byte} :
            \A f \in SideFields(byte), g \in SideFields(other) : Separate(f, g)
    BY <1>1 DEF Separate, Bits
  <1> QED BY <1>3, <1>4, <1>5, <1>6

\* An assignment to a field of the first word leaves the other fields alone.
LEMMA PuttingFirst ==
    ASSUME NEW w \in Words, NEW f \in FirstFields, NEW v \in Nat
    PROVE  /\ Put(w, f, v) \in Words
           /\ Field(Put(w, f, v), f) = v % f.size
           /\ \A g \in FirstFields \ {f} : Field(Put(w, f, v), g) = Field(w, g)
  BY Putting, FirstFieldsSeparate

\* What the setters of a rate and of a threshold make of the second word.
LEMMA PuttingPercent ==
    ASSUME NEW w \in Words, NEW byte \in {1, 2}, NEW rate \in Nat
    PROVE  /\ Percent(w, byte, rate) \in Words
           /\ rate < 128 => SideMeant(Percent(w, byte, rate), byte, <<"percent", rate>>)
           /\ \A other \in {1, 2} \ {byte} : \A g \in SideFields(other) :
                 Field(Percent(w, byte, rate), g) = Field(w, g)
  <1> DEFINE f == W2(byte)
             w1 == Put(w, f.opt, 0)
             w2 == Put(w1, f.value, rate)
  <1>1. f.opt \in SideFields(byte) /\ f.value \in SideFields(byte)
    BY DEF SideFields
  <1>2. /\ f.opt \in Fields /\ f.value \in Fields
        /\ \A other \in {1, 2} \ {byte} : \A g \in SideFields(other) :
              g \in Fields /\ Separate(f.opt, g) /\ Separate(f.value, g)
    BY <1>1, SideFieldsSeparate
  <1>3. /\ w1 \in Words /\ Field(w1, f.opt) = 0 % f.opt.size
        /\ \A g \in Fields : Separate(f.opt, g) => Field(w1, g) = Field(w, g)
    BY <1>2, Putting
  <1>4. /\ w2 \in Words /\ Field(w2, f.value) = rate % f.value.size
        /\ \A g \in Fields : Separate(f.value, g) => Field(w2, g) = Field(w1, g)
    BY <1>2, <1>3, Putting
  <1>5. Field(w2, f.opt) = Field(w1, f.opt)
    BY <1>2, <1>4, SideFieldsSeparate
  <1>6. f.opt.size = 2 /\ f.value.size = 128
    BY DEF W2, Bits
  <1>7. Percent(w, byte, rate) = w2
    BY DEF Percent
  <1> HIDE DEF w2, w1, f
  <1>8. rate < 128 => Field(w2, f.opt) = 0 /\ Field(w2, f.value) = rate
    BY <1>3, <1>4, <1>5, <1>6
  <1>9. rate < 128 => SideMeant(w2, byte, <<"percent", rate>>)
    BY <1>8 DEF SideMeant, f
  <1>10. \A other \in {1, 2} \ {byte} : \A g \in SideFields(other) :
             Field(w2, g) = Field(w, g)
    BY <1>2, <1>3, <1>4
  <1> QED BY <1>4, <1>7, <1>9, <1>10

LEMMA PuttingThreshold ==
    ASSUME NEW w \in Words, NEW byte \in {1, 2}, NEW param_index \in Nat
    PROVE  LET to == Threshold(w, byte, param_index) IN
           /\ to \in Words
           /\ param_index < 32 => SideMeant(to, byte, <<"parameter", param_index>>)
           /\ \A other \in {1, 2} \ {byte} : \A g \in SideFields(other) :
                 Field(to, g) = Field(w, g)
  <1> DEFINE f == W2(byte)
             w1 == Put(w, f.opt, 1)
             w2 == Put(w1, f.index, param_index)
             w3 == Put(w2, f.fba, 0)
             w4 == Put(w3, f.bpa, 1)
             here == {f.opt, f.index, f.fba, f.bpa}
  <1>1. here \subseteq SideFields(byte)
    BY DEF SideFields
  <1>2. /\ here \subseteq Fields
        /\ \A other \in {1, 2} \ {byte} : \A g \in SideFields(other) :
              g \in Fields /\ \A h \in here : Separate(h, g)
    BY <1>1, SideFieldsSeparate
  <1>3. /\ f.opt.size = 2 /\ f.index.size = 32 /\ f.fba.size = 2 /\ f.bpa.size = 2
        /\ Separate(f.index, f.opt) /\ Separate(f.fba, f.opt) /\ Separate(f.bpa, f.opt)
        /\ Separate(f.fba, f.index) /\ Separate(f.bpa, f.index) /\ Separate(f.bpa, f.fba)
    BY DEF W2, Bits, Separate
  <1>4. /\ w1 \in Words /\ Field(w1, f.opt) = 1 % f.opt.size
        /\ \A g \in Fields : Separate(f.opt, g) => Field(w1, g) = Field(w, g)
    BY <1>2, Putting
  <1>5. /\ w2 \in Words /\ Field(w2, f.index) = param_index % f.index.size
        /\ \A g \in Fields : Separate(f.index, g) => Field(w2, g) = Field(w1, g)
    BY <1>2, <1>4, Putting
  <1>6. /\ w3 \in Words /\ Field(w3, f.fba) = 0 % f.fba.size
        /\ \A g \in Fields : Separate(f.fba, g) => Field(w3, g) = Field(w2, g)
    BY <1>2, <1>5, Putting
  <1>7. /\ w4 \in Words /\ Field(w4, f.bpa) = 1 % f.bpa.size
        /\ \A g \in Fields : Separate(f.bpa, g) => Field(w4, g) = Field(w3, g)
    BY <1>2, <1>6, Putting
  <1>8. Threshold(w, byte, param_index) = w4
    BY DEF Threshold
  <1> HIDE DEF w4, w3, w2, w1, f
  <1>9. param_index < 32 => /\ Field(w4, f.opt) = 1 /\ Field(w4, f.index) = param_index
                            /\ Field(w4, f.fba) = 0 /\ Field(w4, f.bpa) = 1
    BY <1>2, <1>3, <1>4, <1>5, <1>6, <1>7
  <1>10. param_index < 32 => SideMeant(w4, byte, <<"parameter", param_index>>)
    BY <1>9 DEF SideMeant, f
  <1>11. \A other \in {1, 2} \ {byte} : \A g \in SideFields(other) :
             Field(w4, g) = Field(w, g)
    BY <1>2, <1>4, <1>5, <1>6, <1>7
  <1> QED BY <1>7, <1>8, <1>10, <1>11

-----------------------------------------------------------------------------
(* The functions that set a field of an alarm                              *)

LEMMA AlarmBlocks ==
    ASSUME NEW a \in Alarms
    PROVE  /\ a \in Blocks /\ Second[a] \in Blocks /\ a # Second[a]
           /\ a # Eob /\ Second[a] # Eob /\ Second[a] \notin Alarms
           /\ \A b \in Alarms : Second[b] # a /\ (Second[b] = Second[a] => b = a)
  BY BlockAssumption DEF Alarms

\* A word of alarm a that is as the new settings mean it keeps the invariant.
LEMMA SetInvariant ==
    ASSUME IInv, NEW a \in Alarms, NEW b \in {a, Second[a]}, NEW word \in Words,
           NEW what \in {"enable", "mode", "sensor", "latching", "low", "high"},
           NEW value, Set(a, b, word, what, value),
           [meant[a] EXCEPT ![what] = value] \in Settings,
           b = a => /\ what \in {"enable", "mode", "sensor", "latching"}
                    /\ commits = 0 => FirstWordMeant(a, word)',
           b = Second[a] => /\ what \in {"low", "high"}
                            /\ commits = 0 => SecondWordMeant(a, word)'
    PROVE  IInv'
  <1>0. Types /\ Shape
    BY DEF IInv, Shape
  <1>1. /\ pc = "idle" /\ settings < MaxSettings /\ settings' = settings + 1
        /\ block_data' = [block_data EXCEPT ![b] = word]
        /\ meant' = [meant EXCEPT ![a] = [meant[a] EXCEPT ![what] = value]]
        /\ UNCHANGED <<pc, links, loop, probe, history>>
    BY DEF Set
  <1>2. b \in Blocks
    BY AlarmBlocks
  <1>3. Types'
    BY <1>0, <1>1, <1>2, BlockAssumption DEF Types, links, loop, probe, history
  <1>4. Shape'
    BY <1>0, <1>1, <1>3, RestShape DEF history
  <1>5. meant'[a] = [meant[a] EXCEPT ![what] = value] /\ meant[a] \in Settings
    BY <1>0, <1>1 DEF Types
  <1>6. \A x \in Alarms \ {a} : meant'[x] = meant[x]
    BY <1>0, <1>1 DEF Types
  <1>7. b = a => meant'[a].low = meant[a].low /\ meant'[a].high = meant[a].high
    BY <1>5, AlarmBlocks DEF Settings
  <1>8. b = Second[a] =>
           /\ meant'[a].enable = meant[a].enable /\ meant'[a].mode = meant[a].mode
           /\ meant'[a].sensor = meant[a].sensor /\ meant'[a].latching = meant[a].latching
    BY <1>5, AlarmBlocks DEF Settings
  <1>9. ASSUME commits = 0, NEW c \in Blocks, c # Eob \/ OnList(c)
        PROVE  WordMeant(c, block_data[c])'
    <2>1. WordMeant(c, block_data[c])
      BY <1>9 DEF IInv, Unsent
    <2>2. CASE c = b
      <3>1. block_data'[c] = word
        BY <1>0, <1>1, <1>2, <2>2 DEF Types
      <3>2. CASE b = a
        BY <1>9, <2>2, <3>1, <3>2, AlarmBlocks DEF WordMeant, IsSecond
      <3>3. CASE b = Second[a]
        <4>1. c \notin Alarms /\ c # Eob /\ \A x \in Alarms : Second[x] = c => x = a
          BY <2>2, <3>3, AlarmBlocks
        <4>2. SecondWordMeant(a, block_data[c])'
          BY <1>9, <3>1, <3>3
        <4> QED BY <2>2, <3>3, <4>1, <4>2 DEF WordMeant, IsSecond
      <3> QED BY <3>2, <3>3
    <2>3. CASE c # b
      <3>1. block_data'[c] = block_data[c]
        BY <1>0, <1>1, <1>2, <2>3 DEF Types
      <3>2. ASSUME c \in Alarms PROVE FirstWordMeant(c, block_data[c])'
        <4>1. /\ meant'[c].enable = meant[c].enable /\ meant'[c].mode = meant[c].mode
              /\ meant'[c].sensor = meant[c].sensor /\ meant'[c].latching = meant[c].latching
          BY <1>6, <1>8, <2>3, <3>2
        <4> QED BY <2>1, <3>1, <3>2, <4>1 DEF WordMeant, FirstWordMeant
      <3>3. ASSUME NEW x \in Alarms, Second[x] = c PROVE SecondWordMeant(x, block_data[c])'
        <4>1. meant'[x].low = meant[x].low /\ meant'[x].high = meant[x].high
          BY <1>6, <1>7, <2>3, <3>3
        <4> QED BY <2>1, <3>1, <3>3, <4>1 DEF WordMeant, SecondWordMeant, SideHasRoom, SideMeant
      <3> QED BY <2>1, <3>1, <3>2, <3>3 DEF WordMeant, IsSecond
    <2> QED BY <2>2, <2>3
  <1>10. Unsent'
    BY <1>1, <1>9 DEF Unsent, OnList, history
  <1>11. Sending'
    BY <1>1 DEF Sending
  <1> QED BY <1>4, <1>10, <1>11 DEF IInv

\* Before the first commit the words of an alarm are the ones that were meant.
LEMMA AlarmWords ==
    ASSUME IInv, NEW a \in Alarms
    PROVE  /\ pc = "idle" => block_data[a] \in Words /\ block_data[Second[a]] \in Words
           /\ meant[a] \in Settings
           /\ commits = 0 => /\ FirstWordMeant(a, block_data[a])
                             /\ SecondWordMeant(a, block_data[Second[a]])
  <1>1. Types
    BY DEF IInv, Shape
  <1>2. commits = 0 => /\ WordMeant(a, block_data[a])
                       /\ WordMeant(Second[a], block_data[Second[a]])
    BY AlarmBlocks DEF IInv, Unsent
  <1> QED BY <1>1, <1>2, AlarmBlocks DEF Types, WordMeant

LEMMA FirstWordSet ==
    ASSUME IInv, NEW a \in Alarms, NEW v \in 0 .. 255,
           \/ fb_alarm_enable(a, v) \/ fb_alarm_set_mode(a, v)
           \/ fb_alarm_set_sensor(a, v) \/ fb_alarm_set_latching(a, v)
    PROVE  IInv'
  <1>1. pc = "idle"
    BY DEF fb_alarm_enable, fb_alarm_set_mode, fb_alarm_set_sensor, fb_alarm_set_latching, Set
  <1>2. /\ block_data[a] \in Words /\ meant[a] \in Settings /\ meant \in [Alarms -> Settings]
        /\ commits = 0 => FirstWordMeant(a, block_data[a])
    BY <1>1, AlarmWords DEF IInv, Shape, Types
  <1>3. a \in {a, Second[a]} /\ a # Second[a]
    BY AlarmBlocks
  <1>4. /\ W1.block_enable.size = 2 /\ W1.alarm_mode.size = 4
        /\ W1.source_index.size = 32 /\ W1.latching.size = 2
    BY DEF W1, Bits
  <1>5. /\ W1.block_enable \in FirstFields /\ W1.block_type \in FirstFields
        /\ W1.alarm_mode \in FirstFields /\ W1.status \in FirstFields
        /\ W1.source_index \in FirstFields /\ W1.latching \in FirstFields
    BY DEF FirstFields
  <1>6. /\ W1.block_type \notin {W1.block_enable, W1.alarm_mode, W1.source_index, W1.latching}
         /\ W1.status \notin {W1.block_enable, W1.alarm_mode, W1.source_index, W1.latching}
         /\ W1.block_enable \notin {W1.alarm_mode, W1.source_index, W1.latching}
         /\ W1.alarm_mode \notin {W1.block_enable, W1.source_index, W1.latching}
         /\ W1.source_index \notin {W1.block_enable, W1.alarm_mode, W1.latching}
         /\ W1.latching \notin {W1.block_enable, W1.alarm_mode, W1.source_index}
    BY DEF W1, Bits
  <1>7. CASE fb_alarm_enable(a, v)
    <2> DEFINE to == Put(block_data[a], W1.block_enable, v)
    <2>1. /\ to \in Words /\ Field(to, W1.block_enable) = v % W1.block_enable.size
          /\ \A g \in FirstFields \ {W1.block_enable} : Field(to, g) = Field(block_data[a], g)
      <3>1. v \in Nat
        OBVIOUS
      <3> QED BY ONLY <1>2, <1>5, <3>1, PuttingFirst
    <2> HIDE DEF to
    <2>2. PICK w \in Words :
             /\ w = to /\ Field(w, W1.block_enable) = v % 2
             /\ \A g \in FirstFields \ {W1.block_enable} : Field(w, g) = Field(block_data[a], g)
      BY <1>4, <2>1
    <2>3. Set(a, a, w, "enable", v)
      BY <1>7, <2>2 DEF to, fb_alarm_enable
    <2>4. [meant[a] EXCEPT !["enable"] = v] \in Settings
      BY <1>2 DEF Settings
    <2>5. /\ meant'[a].enable = v /\ meant'[a].mode = meant[a].mode
          /\ meant'[a].sensor = meant[a].sensor /\ meant'[a].latching = meant[a].latching
      BY <1>2, <2>3 DEF Set, Settings
    <2>6. commits = 0 => FirstWordMeant(a, w)'
      BY <1>2, <1>4, <1>5, <1>6, <2>2, <2>5 DEF FirstWordMeant
    <2> QED BY <1>3, <2>3, <2>4, <2>6, SetInvariant
  <1>8. CASE fb_alarm_set_mode(a, v)
    <2> DEFINE to == Put(block_data[a], W1.alarm_mode, v)
    <2>1. /\ to \in Words /\ Field(to, W1.alarm_mode) = v % W1.alarm_mode.size
          /\ \A g \in FirstFields \ {W1.alarm_mode} : Field(to, g) = Field(block_data[a], g)
      <3>1. v \in Nat
        OBVIOUS
      <3> QED BY ONLY <1>2, <1>5, <3>1, PuttingFirst
    <2> HIDE DEF to
    <2>2. PICK w \in Words :
             /\ w = to /\ Field(w, W1.alarm_mode) = v % 4
             /\ \A g \in FirstFields \ {W1.alarm_mode} : Field(w, g) = Field(block_data[a], g)
      BY <1>4, <2>1
    <2>3. Set(a, a, w, "mode", v)
      BY <1>8, <2>2 DEF to, fb_alarm_set_mode
    <2>4. [meant[a] EXCEPT !["mode"] = v] \in Settings
      BY <1>2 DEF Settings
    <2>5. /\ meant'[a].enable = meant[a].enable /\ meant'[a].mode = v
          /\ meant'[a].sensor = meant[a].sensor /\ meant'[a].latching = meant[a].latching
      BY <1>2, <2>3 DEF Set, Settings
    <2>6. commits = 0 => FirstWordMeant(a, w)'
      BY <1>2, <1>4, <1>5, <1>6, <2>2, <2>5 DEF FirstWordMeant
    <2> QED BY <1>3, <2>3, <2>4, <2>6, SetInvariant
  <1>9. CASE fb_alarm_set_sensor(a, v)
    <2> DEFINE to == Put(block_data[a], W1.source_index, v)
    <2>1. /\ to \in Words /\ Field(to, W1.source_index) = v % W1.source_index.size
          /\ \A g \in FirstFields \ {W1.source_index} : Field(to, g) = Field(block_data[a], g)
      <3>1. v \in Nat
        OBVIOUS
      <3> QED BY ONLY <1>2, <1>5, <3>1, PuttingFirst
    <2> HIDE DEF to
    <2>2. PICK w \in Words :
             /\ w = to /\ Field(w, W1.source_index) = v % 32
             /\ \A g \in FirstFields \ {W1.source_index} : Field(w, g) = Field(block_data[a], g)
      BY <1>4, <2>1
    <2>3. Set(a, a, w, "sensor", v)
      BY <1>9, <2>2 DEF to, fb_alarm_set_sensor
    <2>4. [meant[a] EXCEPT !["sensor"] = v] \in Settings
      BY <1>2 DEF Settings
    <2>5. /\ meant'[a].enable = meant[a].enable /\ meant'[a].mode = meant[a].mode
          /\ meant'[a].sensor = v /\ meant'[a].latching = meant[a].latching
      BY <1>2, <2>3 DEF Set, Settings
    <2>6. commits = 0 => FirstWordMeant(a, w)'
      BY <1>2, <1>4, <1>5, <1>6, <2>2, <2>5 DEF FirstWordMeant
    <2> QED BY <1>3, <2>3, <2>4, <2>6, SetInvariant
  <1>10. CASE fb_alarm_set_latching(a, v)
    <2>1. PICK bit \in {0, 1} : bit = (IF v # 0 THEN 1 ELSE 0)
      OBVIOUS
    <2> DEFINE to == Put(block_data[a], W1.latching, bit)
    <2>2. /\ to \in Words /\ Field(to, W1.latching) = bit % W1.latching.size
          /\ \A g \in FirstFields \ {W1.latching} : Field(to, g) = Field(block_data[a], g)
      <3>1. bit \in Nat
        OBVIOUS
      <3> QED BY ONLY <1>2, <1>5, <3>1, PuttingFirst
    <2> HIDE DEF to
    <2>3. PICK w \in Words :
             /\ w = to /\ Field(w, W1.latching) = bit % 2
             /\ \A g \in FirstFields \ {W1.latching} : Field(w, g) = Field(block_data[a], g)
      BY <1>4, <2>2
    <2>4. Set(a, a, w, "latching", v # 0)
      BY <1>10, <2>1, <2>3 DEF to, fb_alarm_set_latching
    <2>5. [meant[a] EXCEPT !["latching"] = (v # 0)] \in Settings
      BY <1>2 DEF Settings
    <2>6. /\ meant'[a].enable = meant[a].enable /\ meant'[a].mode = meant[a].mode
          /\ meant'[a].sensor = meant[a].sensor /\ meant'[a].latching = (v # 0)
      BY <1>2, <2>4 DEF Set, Settings
    <2>7. Field(w, W1.latching) = bit
      BY <2>1, <2>3
    <2>8. (Field(w, W1.latching) = 1) <=> (v # 0)
      BY <2>1, <2>7
    <2>9. (Field(w, W1.latching) = 1) <=> meant'[a].latching
      BY <2>6, <2>8
    <2>10. commits = 0 => FirstWordMeant(a, w)'
      <3>1. ASSUME commits = 0
            PROVE  /\ Field(w, W1.block_type) = FUNCTION_BLOCK_ALARM
                   /\ Field(w, W1.status) = 0
                   /\ meant[a].enable < 2 => Field(w, W1.block_enable) = meant[a].enable
                   /\ meant[a].mode < 4 => Field(w, W1.alarm_mode) = meant[a].mode
                   /\ meant[a].sensor < 32 => Field(w, W1.source_index) = meant[a].sensor
        BY <1>2, <1>5, <1>6, <2>3, <3>1 DEF FirstWordMeant
      <3> QED BY <2>6, <2>9, <3>1 DEF FirstWordMeant
    <2> QED BY <1>3, <2>4, <2>5, <2>10, SetInvariant
  <1> QED BY <1>7, <1>8, <1>9, <1>10

LEMMA SecondWordSet ==
    ASSUME IInv, NEW a \in Alarms, NEW v \in 0 .. 255,
           \/ fb_alarm_ctrl_set_percent_increase_rate(a, v)
           \/ fb_alarm_ctrl_set_percent_decrease_rate(a, v)
           \/ fb_alarm_ctrl_set_low_threshold_value(a, v)
           \/ fb_alarm_ctrl_set_high_threshold_value(a, v)
    PROVE  IInv'
  <1>1. pc = "idle"
    BY DEF fb_alarm_ctrl_set_percent_increase_rate, fb_alarm_ctrl_set_percent_decrease_rate,
           fb_alarm_ctrl_set_low_threshold_value, fb_alarm_ctrl_set_high_threshold_value, Set
  <1>2. /\ meant[a] \in Settings /\ meant \in [Alarms -> Settings]
        /\ commits = 0 => SecondWordMeant(a, block_data[Second[a]])
    BY <1>1, AlarmWords DEF IInv, Shape, Types
  <1>3. Second[a] \in {a, Second[a]} /\ a # Second[a] /\ v \in Nat
    BY AlarmBlocks
  <1>4. PICK old \in Words : old = block_data[Second[a]]
    BY <1>1, AlarmWords
  <1>5. 1 \in {1, 2} /\ 2 \in {1, 2} \ {1} /\ 2 \in {1, 2} /\ 1 \in {1, 2} \ {2}
    OBVIOUS
  <1>6. \A x, y, side :
            (\A g \in SideFields(2) : Field(x, g) = Field(y, g))
               => (SideMeant(x, 2, side) <=> SideMeant(y, 2, side))
    BY DEF SideFields, SideMeant
  <1>7. \A x, y, side :
            (\A g \in SideFields(1) : Field(x, g) = Field(y, g))
               => (SideMeant(x, 1, side) <=> SideMeant(y, 1, side))
    BY DEF SideFields, SideMeant
  <1>8. <<"percent", v>> \in Sides /\ <<"parameter", v>> \in Sides
    BY <1>3 DEF Sides
  \* The low side is set, then the high side.
  <1>9. ASSUME NEW side \in Sides, NEW w \in Words, Set(a, Second[a], w, "low", side),
               SideHasRoom(side) => SideMeant(w, 1, side),
               \A g \in SideFields(2) : Field(w, g) = Field(old, g)
        PROVE  IInv'
    <2>1. [meant[a] EXCEPT !["low"] = side] \in Settings
      BY <1>2 DEF Settings
    <2>2. meant'[a].low = side /\ meant'[a].high = meant[a].high
      BY <1>2, <1>9 DEF Set, Settings
    <2>3. commits = 0 => (SideHasRoom(meant[a].high) => SideMeant(old, 2, meant[a].high))
      BY <1>2, <1>4 DEF SecondWordMeant
    <2>4. SideMeant(w, 2, meant[a].high) <=> SideMeant(old, 2, meant[a].high)
      BY <1>6, <1>9
    <2>5. commits = 0 => SecondWordMeant(a, w)'
      BY <1>9, <2>2, <2>3, <2>4 DEF SecondWordMeant, SideHasRoom, SideMeant
    <2> QED BY <1>3, <1>9, <2>1, <2>5, SetInvariant
  <1>10. ASSUME NEW side \in Sides, NEW w \in Words, Set(a, Second[a], w, "high", side),
                SideHasRoom(side) => SideMeant(w, 2, side),
                \A g \in SideFields(1) : Field(w, g) = Field(old, g)
         PROVE  IInv'
    <2>1. [meant[a] EXCEPT !["high"] = side] \in Settings
      BY <1>2 DEF Settings
    <2>2. meant'[a].high = side /\ meant'[a].low = meant[a].low
      BY <1>2, <1>10 DEF Set, Settings
    <2>3. commits = 0 => (SideHasRoom(meant[a].low) => SideMeant(old, 1, meant[a].low))
      BY <1>2, <1>4 DEF SecondWordMeant
    <2>4. SideMeant(w, 1, meant[a].low) <=> SideMeant(old, 1, meant[a].low)
      BY <1>7, <1>10
    <2>5. commits = 0 => SecondWordMeant(a, w)'
      BY <1>10, <2>2, <2>3, <2>4 DEF SecondWordMeant, SideHasRoom, SideMeant
    <2> QED BY <1>3, <1>10, <2>1, <2>5, SetInvariant
  <1>11. \A byte \in {1, 2} :
             /\ Percent(old, byte, v) \in Words /\ Threshold(old, byte, v) \in Words
             /\ SideHasRoom(<<"percent", v>>)
                   => SideMeant(Percent(old, byte, v), byte, <<"percent", v>>)
             /\ SideHasRoom(<<"parameter", v>>)
                   => SideMeant(Threshold(old, byte, v), byte, <<"parameter", v>>)
             /\ \A other \in {1, 2} \ {byte} : \A g \in SideFields(other) :
                   /\ Field(Percent(old, byte, v), g) = Field(old, g)
                   /\ Field(Threshold(old, byte, v), g) = Field(old, g)
    <2>1. /\ SideHasRoom(<<"percent", v>>) => v < 128
          /\ SideHasRoom(<<"parameter", v>>) => v < 32
      BY DEF SideHasRoom
    <2>2. v \in Nat /\ old \in Words
      BY <1>3
    <2> TAKE byte \in {1, 2}
    <2>3. /\ Percent(old, byte, v) \in Words
          /\ SideHasRoom(<<"percent", v>>)
                => SideMeant(Percent(old, byte, v), byte, <<"percent", v>>)
          /\ \A other \in {1, 2} \ {byte} : \A g \in SideFields(other) :
                Field(Percent(old, byte, v), g) = Field(old, g)
      BY ONLY <2>1, <2>2, byte \in {1, 2}, PuttingPercent
    <2>4. /\ Threshold(old, byte, v) \in Words
          /\ SideHasRoom(<<"parameter", v>>)
                => SideMeant(Threshold(old, byte, v), byte, <<"parameter", v>>)
          /\ \A other \in {1, 2} \ {byte} : \A g \in SideFields(other) :
                Field(Threshold(old, byte, v), g) = Field(old, g)
      BY ONLY <2>1, <2>2, byte \in {1, 2}, PuttingThreshold
    <2> QED BY <2>3, <2>4
  <1>12. CASE fb_alarm_ctrl_set_percent_increase_rate(a, v)
    <2>1. Set(a, Second[a], Percent(old, 1, v), "low", <<"percent", v>>)
      BY <1>4, <1>12 DEF fb_alarm_ctrl_set_percent_increase_rate
    <2> QED BY <1>5, <1>8, <1>9, <1>11, <2>1
  <1>13. CASE fb_alarm_ctrl_set_percent_decrease_rate(a, v)
    <2>1. Set(a, Second[a], Percent(old, 2, v), "high", <<"percent", v>>)
      BY <1>4, <1>13 DEF fb_alarm_ctrl_set_percent_decrease_rate
    <2> QED BY <1>5, <1>8, <1>10, <1>11, <2>1
  <1>14. CASE fb_alarm_ctrl_set_low_threshold_value(a, v)
    <2>1. Set(a, Second[a], Threshold(old, 1, v), "low", <<"parameter", v>>)
      BY <1>4, <1>14 DEF fb_alarm_ctrl_set_low_threshold_value
    <2> QED BY <1>5, <1>8, <1>9, <1>11, <2>1
  <1>15. CASE fb_alarm_ctrl_set_high_threshold_value(a, v)
    <2>1. Set(a, Second[a], Threshold(old, 2, v), "high", <<"parameter", v>>)
      BY <1>4, <1>15 DEF fb_alarm_ctrl_set_high_threshold_value
    <2> QED BY <1>5, <1>8, <1>10, <1>11, <2>1
  <1> QED BY <1>12, <1>13, <1>14, <1>15

LEMMA SetAlarmInvariant ==
    ASSUME IInv, NEW a \in Alarms, SetAlarm(a)
    PROVE  IInv'
  <1>1. \A what \in {"enable", "mode", "sensor", "latching", "percent", "parameter"} :
            Arguments[what] \subseteq 0 .. 255
    BY BlockAssumption
  <1>2. /\ Arguments.enable \subseteq 0 .. 255 /\ Arguments.mode \subseteq 0 .. 255
        /\ Arguments.sensor \subseteq 0 .. 255 /\ Arguments.latching \subseteq 0 .. 255
        /\ Arguments.percent \subseteq 0 .. 255 /\ Arguments.parameter \subseteq 0 .. 255
    BY <1>1
  <1>3. PICK v \in 0 .. 255 :
           \/ fb_alarm_enable(a, v) \/ fb_alarm_set_mode(a, v)
           \/ fb_alarm_set_sensor(a, v) \/ fb_alarm_set_latching(a, v)
           \/ fb_alarm_ctrl_set_percent_increase_rate(a, v)
           \/ fb_alarm_ctrl_set_percent_decrease_rate(a, v)
           \/ fb_alarm_ctrl_set_low_threshold_value(a, v)
           \/ fb_alarm_ctrl_set_high_threshold_value(a, v)
    BY <1>2 DEF SetAlarm
  <1> QED BY <1>3, FirstWordSet, SecondWordSet

-----------------------------------------------------------------------------
(* The other steps                                                         *)

LEMMA ZeroWord ==
    LET zero == <<0, 0, 0, 0>> IN
    zero \in Words /\ \A f \in Fields : Field(zero, f) = 0
  <1> DEFINE zero == <<0, 0, 0, 0>>
  <1>1. zero \in Words /\ \A i \in 1 .. 4 : zero[i] = 0
    BY DEF Words
  <1> SUFFICES ASSUME NEW f \in Fields PROVE Field(zero, f) = 0
    BY <1>1
  <1>2. PICK byte \in 1 .. 4, s \in Shapes : f = Bits(byte, s[1], s[2])
    BY DEF Fields
  <1>3. zero[f.byte] = 0 /\ f.weight = s[1] /\ f.size = s[2]
    BY <1>1, <1>2 DEF Bits
  <1> HIDE DEF zero
  <1>4. (0 \div s[1]) % s[2] = 0
    BY DEF Shapes
  <1> QED BY <1>3, <1>4 DEF Field

LEMMA InitialWords ==
    \A b \in Blocks \ {Eob} :
        InitialWord(b) \in Words /\ (meant = [a \in Alarms |-> Unset] => WordMeant(b, InitialWord(b)))
  <1> SUFFICES ASSUME NEW b \in Blocks \ {Eob}
               PROVE  /\ InitialWord(b) \in Words
                      /\ meant = [a \in Alarms |-> Unset] => WordMeant(b, InitialWord(b))
    OBVIOUS
  <1> DEFINE zero == <<0, 0, 0, 0>>
  <1>1. zero \in Words /\ \A f \in Fields : Field(zero, f) = 0
    BY ZeroWord
  <1> HIDE DEF zero
  <1>2. CASE b \in Alarms
    <2>1. InitialWord(b) = Put(zero, W1.block_type, 0)
      BY <1>2 DEF InitialWord, FUNCTION_BLOCK_ALARM, zero
    <2>2. W1.block_type \in FirstFields /\ 0 \in Nat
      BY DEF FirstFields
    <2>3. InitialWord(b) \in Words /\ Field(InitialWord(b), W1.block_type) = 0 % W1.block_type.size
          /\ \A g \in FirstFields \ {W1.block_type} :
                Field(InitialWord(b), g) = Field(zero, g)
      BY <1>1, <2>1, <2>2, PuttingFirst
    <2>4. W1.block_type.size = 16
      BY DEF W1, Bits
    <2>5. \A g \in FirstFields : Field(InitialWord(b), g) = 0
      BY <1>1, <2>3, <2>4, FirstFieldsSeparate
    <2>6. meant = [a \in Alarms |-> Unset] => FirstWordMeant(b, InitialWord(b))
      BY <1>2, <2>5 DEF FirstWordMeant, Unset, FirstFields, FUNCTION_BLOCK_ALARM
    <2>7. \A a \in Alarms : Second[a] # b
      BY <1>2, AlarmBlocks
    <2> QED BY <1>2, <2>3, <2>6, <2>7 DEF WordMeant, IsSecond
  <1>3. CASE b \notin Alarms /\ IsSecond(b)
    <2>1. InitialWord(b) = zero
      BY <1>3 DEF InitialWord, IsSecond, zero
    <2>2. W2(1).opt \in Fields /\ W2(1).value \in Fields
          /\ W2(2).opt \in Fields /\ W2(2).value \in Fields
      BY SideFieldsSeparate DEF SideFields
    <2>3. meant = [a \in Alarms |-> Unset] => \A a \in Alarms : SecondWordMeant(a, zero)
      BY <1>1, <2>2 DEF SecondWordMeant, SideMeant, Unset
    <2> QED BY <1>1, <1>3, <2>1, <2>3 DEF WordMeant
  <1>4. CASE b \notin Alarms /\ ~IsSecond(b)
    <2>1. InitialWord(b) = OwnWord
      BY <1>4 DEF InitialWord, IsSecond
    <2>2. W1.block_type \in Fields /\ W1.block_enable \in Fields /\ 1 \in Nat
      BY FirstFieldsSeparate DEF FirstFields
    <2>3. OwnWord \in Words
      BY <1>1, <2>2, Putting DEF OwnWord, FUNCTION_BLOCK_MATH, zero
    <2> QED BY <1>4, <2>1, <2>3 DEF WordMeant, IsSecond
  <1> QED BY <1>2, <1>3, <1>4

LEMMA Initially == Init => IInv
  <1> SUFFICES ASSUME Init PROVE IInv
    OBVIOUS
  <1> USE BlockAssumption DEF Init
  <1>1. InitialWord(Eob) \in Words
    <2>1. Eob \notin Alarms /\ ~ IsSecond(Eob)
      BY DEF Alarms, IsSecond
    <2>2. W1.block_type \in Fields /\ W1.block_enable \in Fields /\ 1 \in Nat
      BY FirstFieldsSeparate DEF FirstFields
    <2> QED BY <2>1, <2>2, ZeroWord, Putting
            DEF InitialWord, IsSecond, OwnWord, FUNCTION_BLOCK_MATH
  <1>2. Unset \in Settings
    BY DEF Unset, Settings, Sides
  <1>3. /\ WithSecond(FirstBlock) \in Seq(Blocks)
        /\ IF Second[FirstBlock] = NULL THEN list = <<FirstBlock>>
           ELSE list = <<FirstBlock, Second[FirstBlock]>> /\ FirstBlock \in Alarms
    BY DEF WithSecond, Alarms
  <1>4. Types
    <2>1. block_data \in [Blocks -> Words]
      BY <1>1, InitialWords
    <2>2. program \in [0 .. FB__PROGRAM_MAX - 1 -> Words \cup {NULL}]
      OBVIOUS
    <2>3. meant \in [Alarms -> Settings]
      BY <1>2
    <2>4. block_idx \in [Blocks -> Indexes]
      BY DEF Indexes
    <2> QED BY <1>3, <2>1, <2>2, <2>3, <2>4 DEF Types
  <1>5. \A a \in Alarms : Second[a] # FirstBlock /\ Second[a] # Eob
    OBVIOUS
  <1>6. Chain /\ Linked
    <2>1. CASE Second[FirstBlock] = NULL
      <3>1. Len(list) = 1 /\ list[1] = FirstBlock /\ FirstBlock \notin Alarms
        BY <1>3, <2>1 DEF Alarms
      <3>2. Chain
        BY <1>5, <3>1 DEF Chain
      <3>3. next[list[1]] = NULL /\ \A b \in Blocks : next[b] = Second[b]
        BY <2>1, <3>1
      <3>4. Linked
        BY ONLY <3>1, <3>3, pc = "idle" DEF Linked
      <3> QED BY <3>2, <3>4
    <2>2. CASE Second[FirstBlock] # NULL
      <3>1. /\ FirstBlock \in Alarms
            /\ FirstBlock # Second[FirstBlock] /\ Second[FirstBlock] \notin Alarms
            /\ Len(list) = 2 /\ list[1] = FirstBlock /\ list[2] = Second[FirstBlock]
        BY <1>3, <2>2, AlarmBlocks
      <3>2. Chain
        <4>1. \A i \in 1 .. Len(list) : i = 1 \/ i = 2
          BY <3>1
        <4>2. FirstBlock # Eob /\ Second[FirstBlock] # Eob
          BY <1>5, <3>1
        <4>3. \A i, j \in 1 .. Len(list) : list[i] = list[j] => i = j
          BY ONLY <3>1, <4>1
        <4>4. \A i \in 1 .. Len(list) : list[i] = Eob => i = Len(list)
          BY ONLY <3>1, <4>1, <4>2
        <4>5. ASSUME NEW a \in Alarms, NEW i \in 1 .. Len(list)
              PROVE  /\ list[i] = a => i < Len(list) /\ list[i + 1] = Second[a]
                     /\ list[i] = Second[a] => i > 1 /\ list[i - 1] = a
          <5>1. Second[a] # FirstBlock /\ (Second[a] = Second[FirstBlock] => a = FirstBlock)
            BY <1>5, <3>1
          <5> QED BY <3>1, <4>1, <5>1
        <4> QED BY <3>1, <4>3, <4>4, <4>5 DEF Chain
      <3>3. /\ next[list[1]] = list[2] /\ next[list[2]] = NULL
            /\ \A b \in Blocks : next[b] = Second[b]
        BY <3>1
      <3>4. Linked
        BY ONLY <3>1, <3>3, pc = "idle" DEF Linked
      <3> QED BY <3>2, <3>4
    <2> QED BY <2>1, <2>2
  <1>8. Pointer
    BY DEF Pointer, Numbered
  <1>9. ~OnList(Eob)
    BY <1>3, <1>5 DEF OnList
  <1>10. Unsent
    BY <1>9, InitialWords DEF Unsent
  <1>11. Sending
    BY DEF Sending
  <1> QED BY <1>4, <1>6, <1>8, <1>10, <1>11 DEF IInv, Shape

\* A step that touches no word and no setting, outside of a commit.
LEMMA RestWords ==
    ASSUME IInv, Shape', pc' # "commit",
           UNCHANGED <<block_data, alarm, list, commits>>
    PROVE  IInv'
  <1>1. Unsent'
    BY DEF IInv, Unsent, WordMeant, FirstWordMeant, SecondWordMeant, SideHasRoom, SideMeant,
           OnList, IsSecond, alarm
  <1>2. Sending'
    BY DEF Sending
  <1> QED BY <1>1, <1>2 DEF IInv

\* A block that is appended has its word already; the end marker gets it then.
LEMMA AppendWords ==
    ASSUME IInv, NEW b \in Blocks, fb_chain(b) \/ (b = Eob /\ fb_terminate)
    PROVE  IInv'
  <1>1. Shape'
    BY ChainShape, TerminateShape DEF IInv
  <1>2. /\ pc' = "to_tail" /\ pc = "idle"
        /\ UNCHANGED <<alarm, commits>>
    BY DEF fb_chain, fb_terminate
  <1>3. Types /\ list \in Seq(Blocks)
    BY DEF IInv, Shape, Types
  <1>4. CASE fb_chain(b)
    <2>1. list' = list \o WithSecond(b) /\ block_data' = block_data /\ b # Eob /\ ~OnList(Eob)
      BY <1>4 DEF fb_chain
    <2>2. ~OnList(Eob)'
      <3>1. Second[b] # NULL => Second[b] # Eob
        BY BlockAssumption DEF Alarms
      <3>2. /\ \A i \in 1 .. Len(list) : list'[i] = list[i]
            /\ list'[Len(list) + 1] = b
            /\ Second[b] = NULL => Len(list') = Len(list) + 1
            /\ Second[b] # NULL => Len(list') = Len(list) + 2 /\ list'[Len(list) + 2] = Second[b]
        BY ONLY <1>3, <2>1, b \in Blocks, Appended
      <3> QED BY <1>3, <2>1, <3>1, <3>2 DEF OnList
    <2>3. Unsent'
      BY <1>2, <2>1, <2>2 DEF IInv, Unsent, WordMeant, FirstWordMeant, SecondWordMeant,
         SideHasRoom, SideMeant, IsSecond, alarm
    <2> QED BY <1>1, <1>2, <2>3 DEF IInv, Sending
  <1>5. CASE b = Eob /\ fb_terminate
    <2>1. block_data' = [block_data EXCEPT ![Eob] = FB__EOB]
      BY <1>5 DEF fb_terminate
    <2>2. Eob \notin Alarms /\ \A a \in Alarms : Second[a] # Eob
      BY BlockAssumption DEF Alarms
    <2>3. WordMeant(Eob, block_data[Eob])'
      BY <1>3, <2>1, <2>2, BlockAssumption DEF WordMeant, Types, IsSecond
    <2>4. ASSUME commits = 0, NEW c \in Blocks \ {Eob} PROVE WordMeant(c, block_data[c])'
      <3>1. WordMeant(c, block_data[c]) /\ block_data'[c] = block_data[c]
        BY <1>3, <2>1, <2>4 DEF IInv, Unsent, Types
      <3> QED BY <1>2, <3>1 DEF WordMeant, FirstWordMeant, SecondWordMeant,
              SideHasRoom, SideMeant, IsSecond, alarm
    <2>5. Unsent'
      BY <1>2, <2>3, <2>4 DEF Unsent
    <2> QED BY <1>1, <1>2, <2>5 DEF IInv, Sending
  <1> QED BY <1>4, <1>5

LEMMA CommitInvariant ==
    ASSUME IInv, fb_commit
    PROVE  IInv'
  <1>1. Types /\ Chain
    BY DEF IInv, Shape
  <1>2. /\ pc = "idle" /\ pc' = "commit" /\ temp' = FirstBlock
        /\ commits < MaxCommits /\ commits' = commits + 1
        /\ UNCHANGED <<links, next_block, block_data, probe, alarm, list, first>>
    BY DEF fb_commit
  <1>3. Types'
    BY <1>1, <1>2, BlockAssumption DEF Types, links, probe, alarm
  <1>4. 1 \in 1 .. Len(list) /\ list[1] = FirstBlock
    BY <1>1 DEF Types, Chain
  <1>5. Shape'
    <2>1. OnList(temp')
      BY <1>2, <1>4 DEF OnList
    <2> QED BY <1>2, <1>3, <2>1, RestShape DEF IInv
  <1>6. commits \in Nat /\ commits' # 0
    BY <1>1, <1>2, BlockAssumption DEF Types
  <1>7. ASSUME commits = 0 PROVE SentUpTo(1)'
    <2>1. \A i \in 1 .. Len(list) : WordMeant(list[i], block_data[list[i]])'
      <3> SUFFICES ASSUME NEW i \in 1 .. Len(list)
                   PROVE  WordMeant(list[i], block_data[list[i]])'
        OBVIOUS
      <3>1. list[i] \in Blocks /\ OnList(list[i])
        BY <1>1 DEF Types, OnList
      <3>2. WordMeant(list[i], block_data[list[i]])
        BY <1>7, <3>1 DEF IInv, Unsent
      <3> QED BY <1>2, <3>2 DEF WordMeant, FirstWordMeant, SecondWordMeant, SideHasRoom,
              SideMeant, IsSecond, alarm
    <2> QED BY <1>2, <1>4, <2>1 DEF SentUpTo
  <1>8. Sending'
    <2>1. 1 \in 1 .. Len(list) + 1
      BY <1>4
    <2> QED BY <1>2, <1>6, <1>7, <2>1 DEF Sending
  <1>9. Unsent'
    BY <1>6 DEF Unsent
  <1> QED BY <1>5, <1>8, <1>9 DEF IInv

\* Within the program no number has wrapped.
LEMMA NumberInProgram ==
    ASSUME Shape, pc = "commit", first # NULL, NEW j \in 1 .. Len(list),
           j > 1 => first + (j - 1) - 1 < FB__PROGRAM_MAX
    PROVE  /\ block_idx[list[j]] = first + j - 1
           /\ first + j - 1 \in Nat
  <1>1. first \in Nat /\ first < IdxModulus /\ j \in Nat
    BY BlockAssumption DEF Shape, Types, Indexes
  <1>2. first + j - 1 < IdxModulus
    BY <1>1, BlockAssumption
  <1>3. (first + j - 1) % IdxModulus = first + j - 1
    BY <1>1, <1>2, BlockAssumption
  <1>4. block_idx[list[j]] = (first + j - 1) % IdxModulus
    BY DEF Shape, Pointer, Numbered
  <1> QED BY <1>1, <1>3, <1>4

LEMMA CommitWriteInvariant ==
    ASSUME IInv, CommitWrite
    PROVE  IInv'
  <1>1. Types /\ Shape /\ pc = "commit" /\ temp \in Blocks /\ OnList(temp) /\ commits >= 1
    BY DEF IInv, Shape, Types, Pointer, CommitWrite, Sending
  <1>2. UNCHANGED <<links, next_block, meant, settings, history>> /\ pc' \in {"idle", "commit"}
    BY <1>1 DEF CommitWrite, alarm
  <1>3. PICK n \in 1 .. Len(list) : temp = list[n]
    BY <1>1, PlaceOnList
  <1>4. next[temp] = IF n = Len(list) THEN NULL ELSE list[n + 1]
    BY <1>1, <1>3 DEF Shape, Linked
  <1>5. block_data[temp] \in Words /\ Reverse(block_data[temp]) \in Words
        /\ Reverse(Reverse(block_data[temp])) = block_data[temp]
    BY <1>1, TwiceReversed DEF Types
  <1>6. /\ block_data' \in [Blocks -> Words]
        /\ program' \in [0 .. FB__PROGRAM_MAX - 1 -> Words \cup {NULL}]
        /\ failures' \in 0 .. MaxFailures
    <2>1. /\ reverse_bytes(temp) \/ block_data' = block_data
          /\ Store(temp) \/ program' = program
          /\ failures' = failures \/ (failures < MaxFailures /\ failures' = failures + 1)
      BY DEF CommitWrite, probe
    <2>2. block_data' \in [Blocks -> Words]
      BY <1>1, <1>5, <2>1 DEF reverse_bytes, Types
    <2>3. program' \in [0 .. FB__PROGRAM_MAX - 1 -> Words \cup {NULL}]
      BY <1>1, <1>5, <2>1 DEF Store, Types
    <2>4. failures' \in 0 .. MaxFailures
      BY <1>1, <2>1, BlockAssumption DEF Types
    <2> QED BY <2>2, <2>3, <2>4
  <1>7. temp' \in Blocks \cup {NULL} /\ (temp' = NULL \/ OnList(temp'))
    <2>1. temp' = temp \/ temp' = next[temp]
      BY DEF CommitWrite
    <2>2. n # Len(list) => n + 1 \in 1 .. Len(list)
      BY <1>1 DEF Types
    <2> QED BY <1>1, <1>4, <2>1, <2>2 DEF Types, OnList
  <1>8. Types'
    BY <1>1, <1>2, <1>6, <1>7 DEF Types, links, history
  <1>9. Shape'
    BY <1>1, <1>2, <1>7, <1>8, RestShape DEF history
  <1>10. Unsent'
    BY <1>1, <1>2 DEF Unsent, history
  <1>11. CASE pc' = "idle" \/ commits # 1
    BY <1>1, <1>2, <1>9, <1>10, <1>11 DEF IInv, Sending, history
  <1>12. CASE pc' = "commit" /\ commits = 1
    <2>1. PICK j \in 1 .. Len(list) + 1 : SentUpTo(j)
      BY <1>1, <1>12 DEF IInv, Sending
    <2>2. j \in 1 .. Len(list) /\ temp = list[j]
      BY <1>1, <2>1, BlockAssumption DEF SentUpTo, Types
    <2>3. j = n
      <3>1. \A i, m \in 1 .. Len(list) : list[i] = list[m] => i = m
        BY <1>1 DEF Shape, Chain
      <3> QED BY ONLY <1>3, <2>2, <3>1
    <2>4. /\ ~TooLong /\ reverse_bytes(temp) /\ Store(temp) /\ temp' = next[temp]
      BY <1>12 DEF CommitWrite
    <2>5. PICK k \in Nat : k = j + 1
      BY <2>2
    <2>6. k \in 1 .. Len(list) + 1 /\ Len(list) \in Nat
      BY <1>1, <2>2, <2>5 DEF Types
    <2>7. temp' = IF k <= Len(list) THEN list[k] ELSE NULL
      BY <1>4, <2>2, <2>3, <2>4, <2>5, <2>6
    <2>8. ASSUME NEW i \in k .. Len(list)
          PROVE  WordMeant(list[i], block_data[list[i]])'
      <3>1. i \in j .. Len(list) /\ i # j /\ i \in 1 .. Len(list)
        BY <2>2, <2>5, <2>6
      <3>2. WordMeant(list[i], block_data[list[i]])
        BY <2>1, <3>1 DEF SentUpTo
      <3>3. list[i] # temp
        BY <1>1, <2>2, <3>1 DEF Shape, Chain
      <3>4. block_data'[list[i]] = block_data[list[i]]
        BY <1>1, <2>4, <3>1, <3>3 DEF reverse_bytes, Types
      <3>5. list' = list
        BY <1>2 DEF history
      <3> QED BY <1>2, <3>2, <3>4, <3>5 DEF WordMeant, FirstWordMeant, SecondWordMeant,
              SideHasRoom, SideMeant, IsSecond
    <2>9. ASSUME first # NULL, NEW i \in 1 .. k - 1
           PROVE  /\ first + i - 1 < FB__PROGRAM_MAX
                  /\ program'[first + i - 1] \in Words
                  /\ WordMeant(list[i], fb_program_read(first + i - 1))'
      <3>1. j > 1 => first + (j - 1) - 1 < FB__PROGRAM_MAX
        BY <2>1, <2>2, <2>9 DEF SentUpTo
      <3>2. block_idx[temp] = first + j - 1 /\ first + j - 1 \in Nat
        BY <1>1, <2>2, <2>9, <3>1, NumberInProgram
      <3>3. first + j - 1 < FB__PROGRAM_MAX
        BY <2>4, <3>2, BlockAssumption DEF TooLong
      <3>4. program' = [program EXCEPT ![first + j - 1] = Reverse(block_data[temp])]
        BY <2>4, <3>2 DEF Store
      <3>5. first \in Nat /\ program \in [0 .. FB__PROGRAM_MAX - 1 -> Words \cup {NULL}]
            /\ list' = list /\ first' = first
        BY <1>1, <1>2, <2>9 DEF Types, Indexes, history
      <3>6. CASE i = j
        <4>1. program'[first + i - 1] = Reverse(block_data[temp])
          BY <3>2, <3>3, <3>4, <3>5, <3>6, BlockAssumption
        <4>2. Reverse(program'[first + i - 1]) = block_data[list[i]]
          BY <1>5, <2>2, <3>6, <4>1
        <4>3. WordMeant(list[i], block_data[list[i]])
          BY <2>1, <2>2, <3>6 DEF SentUpTo
        <4>4. WordMeant(list[i], fb_program_read(first + i - 1))'
          BY <1>2, <3>5, <4>2, <4>3 DEF fb_program_read, WordMeant, FirstWordMeant,
             SecondWordMeant, SideHasRoom, SideMeant, IsSecond
        <4> QED BY <1>5, <3>3, <3>6, <4>1, <4>4
      <3>7. CASE i # j
        <4>1. i \in 1 .. j - 1
          BY <2>2, <2>5, <3>7
        <4>2. /\ first + i - 1 < FB__PROGRAM_MAX
              /\ program[first + i - 1] \in Words
              /\ WordMeant(list[i], fb_program_read(first + i - 1))
          BY <2>1, <2>9, <4>1 DEF SentUpTo
        <4>3. program'[first + i - 1] = program[first + i - 1]
          BY <2>2, <3>4, <3>5, <4>1, <4>2
        <4>4. WordMeant(list[i], fb_program_read(first + i - 1))'
          BY <1>2, <3>5, <4>2, <4>3 DEF fb_program_read, WordMeant, FirstWordMeant,
             SecondWordMeant, SideHasRoom, SideMeant, IsSecond
        <4> QED BY <4>2, <4>3, <4>4
      <3> QED BY <3>6, <3>7
    <2>10. SentUpTo(k)'
      BY <1>2, <2>7, <2>8, <2>9 DEF SentUpTo, history
    <2>11. Sending'
      BY <1>1, <1>2, <2>6, <2>10 DEF Sending, history
    <2> QED BY <1>9, <1>10, <2>11 DEF IInv
  <1> QED BY <1>2, <1>11, <1>12

LEMMA CommitDoneInvariant ==
    ASSUME IInv, CommitDone
    PROVE  IInv'
  <1>1. Types /\ Shape /\ pc = "commit"
    BY DEF IInv, Shape, CommitDone
  <1>2. pc' = "idle" /\ temp' = temp
        /\ UNCHANGED <<links, next_block, block_data, probe, alarm, history>>
    BY DEF CommitDone
  <1>3. Types'
    BY <1>1, <1>2 DEF Types, links, probe, alarm, history
  <1>4. Shape'
    BY <1>1, <1>2, <1>3, RestShape DEF history
  <1> QED BY <1>2, <1>4, RestWords DEF history

LEMMA EraseInvariant ==
    ASSUME IInv, fb_program_erase_all
    PROVE  IInv'
  <1>1. Types /\ Shape /\ pc = "idle" /\ pc' = "idle"
    BY DEF IInv, Shape, fb_program_erase_all, fb_program_erase
  <1>2. UNCHANGED <<links, loop, block_data, alarm, history>>
    BY DEF fb_program_erase_all, fb_program_erase
  <1>3. program' \in [0 .. FB__PROGRAM_MAX - 1 -> Words \cup {NULL}]
    <2>1. Reverse(FB__EOB) \in Words
      BY EobIsWord, TwiceReversed
    <2>2. program' \in {program, [program EXCEPT ![0] = Reverse(FB__EOB)]}
      BY DEF fb_program_erase_all, fb_program_erase
    <2> QED BY <1>1, <2>1, <2>2 DEF Types
  <1>4. failures' \in 0 .. MaxFailures
    BY <1>1, BlockAssumption DEF fb_program_erase_all, fb_program_erase, Types
  <1>5. Types'
    BY <1>1, <1>2, <1>3, <1>4 DEF Types, links, loop, alarm, history
  <1>6. Shape'
    BY <1>1, <1>2, <1>5, RestShape DEF history
  <1> QED BY <1>1, <1>2, <1>6, RestWords DEF history

-----------------------------------------------------------------------------
(* The theorems                                                            *)

\* Every step keeps the invariant: the list has the order in which it was made, is
\* numbered as far as the running loop has come, and its words are what was meant
\* until the first commit has sent them.
LEMMA Inductive == IInv /\ [Next]_vars => IInv'
  <1> SUFFICES ASSUME IInv, [Next]_vars PROVE IInv'
    OBVIOUS
  <1>1. ASSUME NEW i \in FirstIndexes, fb_init_head(i) PROVE IInv'
    <2>1. Shape'
      BY <1>1, InitHeadShape DEF IInv
    <2> QED BY <1>1, <2>1, RestWords DEF fb_init_head
  <1>2. ASSUME NEW b \in Blocks, fb_chain(b) PROVE IInv'
    BY <1>2, AppendWords
  <1>3. CASE fb_terminate
    BY <1>3, AppendWords, BlockAssumption
  <1>4. CASE fb_commit
    BY <1>4, CommitInvariant
  <1>5. CASE fb_program_erase_all
    BY <1>5, EraseInvariant
  <1>6. ASSUME NEW a \in Alarms, SetAlarm(a) PROVE IInv'
    BY <1>6, SetAlarmInvariant
  <1>7. CASE NumberNext
    <2>1. Shape'
      BY <1>7, NumberNextShape DEF IInv
    <2> QED BY <1>7, <2>1, RestWords DEF NumberNext, history
  <1>8. CASE ToTail
    <2>1. Shape'
      BY <1>8, ToTailShape DEF IInv
    <2> QED BY <1>8, <2>1, RestWords DEF ToTail, history
  <1>9. CASE Link
    <2>1. Shape'
      BY <1>9, LinkShape DEF IInv
    <2> QED BY <1>9, <2>1, RestWords DEF Link, history
  <1>10. CASE Renumber
    <2>1. Shape'
      BY <1>10, RenumberShape DEF IInv
    <2> QED BY <1>10, <2>1, RestWords DEF Renumber, history
  <1>11. CASE CommitWrite
    BY <1>11, CommitWriteInvariant
  <1>12. CASE CommitDone
    BY <1>12, CommitDoneInvariant
  <1>13. CASE UNCHANGED vars
    <2>1. UNCHANGED vars
      BY <1>13
    <2>2. Types' /\ Chain' /\ Linked'
      BY <2>1 DEF vars, links, loop, probe, alarm, history, IInv, Shape, Types, Chain, Linked,
         OnList
    <2>3. Pointer'
      BY <2>1 DEF vars, links, loop, probe, alarm, history, IInv, Shape, Pointer, Numbered,
         OnList
    <2>4. Unsent'
      BY <2>1 DEF vars, links, loop, probe, alarm, history, IInv, Unsent, WordMeant,
         FirstWordMeant, SecondWordMeant, SideHasRoom, SideMeant, IsSecond, OnList
    <2>5. Sending'
      BY <2>1 DEF vars, links, loop, probe, alarm, history, IInv, Sending, SentUpTo,
         WordMeant, FirstWordMeant, SecondWordMeant, SideHasRoom, SideMeant, IsSecond,
         fb_program_read
    <2> QED BY <2>2, <2>3, <2>4, <2>5 DEF IInv, Shape
  <1> QED BY <1>1, <1>2, <1>3, <1>4, <1>5, <1>6, <1>7, <1>8, <1>9, <1>10, <1>11, <1>12, <1>13
          DEF Next, Loops

LEMMA Invariant == Spec => []IInv
  <1>1. Init => IInv
    BY Initially
  <1>2. IInv /\ [Next]_vars => IInv'
    BY Inductive
  <1> QED BY <1>1, <1>2, PTL DEF Spec

\* Links and pointers stay blocks, numbers fit uint8_t and the data of a block stays a
\* word of four bytes.
THEOREM TypeCorrect == Spec => []TypeOK
  <1>1. IInv => TypeOK
    BY DEF IInv, Shape, Types, TypeOK
  <1> QED BY <1>1, Invariant, PTL

\* However many blocks and alarms there are: between calls the links from the head are
\* the blocks in the order in which fb_chain and fb_terminate were given them.
THEOREM ListKeepsOrder == Spec => []LinkedInOrder
  <1>1. IInv => LinkedInOrder
    BY DEF IInv, Shape, Linked, LinkedInOrder
  <1> QED BY <1>1, Invariant, PTL

\* Between calls the blocks are numbered from the index fb_init_head was given, wrapping
\* as uint8_t does, those too that fb_chain appended later with a second block.
THEOREM ListKeepsNumbers == Spec => []NumberedInOrder
  <1>1. IInv => NumberedInOrder
    BY DEF IInv, Shape, Pointer, Numbered, NumberedInOrder
  <1> QED BY <1>1, Invariant, PTL

\* What the words of an alarm mean on the probe once the commit has written both.
LEMMA AlarmReached ==
    ASSUME NEW a \in Alarms, NEW i \in Nat,
           meant[a] \in Settings, block_idx[a] = i,
           WordMeant(a, fb_program_read(i)), WordMeant(Second[a], fb_program_read(i + 1)),
           HaveRoom(a)
    PROVE  AlarmWritten(a, i)
  <1>1. FirstWordMeant(a, fb_program_read(i)) /\ SecondWordMeant(a, fb_program_read(i + 1))
    BY DEF WordMeant
  <1>2. SideHasRoom(meant[a].low) /\ SideHasRoom(meant[a].high)
    BY DEF HaveRoom, SideHasRoom
  <1>3. /\ Field(fb_program_read(i), W1.block_enable) = meant[a].enable
        /\ Field(fb_program_read(i), W1.block_type) = FUNCTION_BLOCK_ALARM
        /\ Field(fb_program_read(i), W1.alarm_mode) = meant[a].mode
        /\ Field(fb_program_read(i), W1.source_index) = meant[a].sensor
        /\ fb_alarm_get_status(a) = 0
    BY <1>1 DEF FirstWordMeant, HaveRoom, fb_alarm_get_status
  <1>4. (Field(fb_program_read(i), W1.latching) = 1) <=> meant[a].latching
    BY <1>1 DEF FirstWordMeant
  <1>5. /\ SideMeant(fb_program_read(i + 1), 1, meant[a].low)
        /\ SideMeant(fb_program_read(i + 1), 2, meant[a].high)
    BY <1>1, <1>2 DEF SecondWordMeant
  <1> QED BY <1>3, <1>4, <1>5 DEF AlarmWritten

\* When the first fb_commit is about to return E_OK, the program of the probe is the
\* list that was built, each block at its number, in the probe's byte order and with
\* the settings that were asked for: for any alarms, settings and length.
THEOREM FirstCommitIsComplete == Spec => []FirstCommitWritesProgram
  <1>1. IInv => FirstCommitWritesProgram
    <2> SUFFICES ASSUME IInv, commits = 1, pc = "commit", temp = NULL, first # NULL,
                        NEW i \in 1 .. Len(list)
                 PROVE  /\ program[first + i - 1] # NULL
                        /\ BlockWritten(list[i], first + i - 1)
      BY DEF FirstCommitWritesProgram, ProgramWritten
    <2>1. Shape /\ Types /\ Chain
      BY DEF IInv, Shape
    <2>2. list \in Seq(Blocks) /\ first \in Nat
      BY <2>1, BlockAssumption DEF Types, Indexes
    <2>3. PICK j \in 1 .. Len(list) + 1 : SentUpTo(j)
      BY DEF IInv, Sending
    <2>4. j = Len(list) + 1
      <3>1. j <= Len(list) => list[j] = NULL /\ list[j] \in Blocks
        BY <2>2, <2>3 DEF SentUpTo
      <3> QED BY <2>2, <3>1, BlockAssumption
    <2>5. \A n \in 1 .. Len(list) :
             /\ first + n - 1 < FB__PROGRAM_MAX
             /\ program[first + n - 1] \in Words
             /\ WordMeant(list[n], fb_program_read(first + n - 1))
      BY <2>2, <2>3, <2>4 DEF SentUpTo
    <2>6. program[first + i - 1] # NULL
      BY <2>5, NoWordAssumption
    <2>7. list[i] \in Blocks
      BY <2>2
    <2>8. CASE list[i] \in Alarms
      <3>1. i + 1 \in 1 .. Len(list) /\ list[i + 1] = Second[list[i]]
        BY <2>1, <2>2, <2>8 DEF Chain
      <3>2. i > 1 => first + (i - 1) - 1 < FB__PROGRAM_MAX
        <4>1. i > 1 => i - 1 \in 1 .. Len(list)
          BY <2>2
        <4> QED BY <2>5, <4>1
      <3>3. block_idx[list[i]] = first + i - 1 /\ first + i - 1 \in Nat
        BY <2>1, <3>2, NumberInProgram
      <3>4. first + (i + 1) - 1 = (first + i - 1) + 1
        BY <2>2
      <3>5. WordMeant(Second[list[i]], fb_program_read((first + i - 1) + 1))
        BY <2>5, <3>1, <3>4
      <3>6. meant[list[i]] \in Settings
        BY <2>1, <2>8 DEF Types
      <3>7. HaveRoom(list[i]) => AlarmWritten(list[i], first + i - 1)
        BY <2>5, <2>8, <3>3, <3>5, <3>6, AlarmReached
      <3>8. \A a \in Alarms : Second[a] # list[i]
        BY <2>8, AlarmBlocks
      <3> QED BY <2>6, <2>8, <3>7, <3>8, AlarmBlocks DEF BlockWritten
    <2>9. CASE list[i] \notin Alarms /\ IsSecond(list[i])
      <3>1. list[i] # Eob
        BY <2>9, AlarmBlocks DEF IsSecond
      <3> QED BY <2>6, <2>9, <3>1 DEF BlockWritten, IsSecond
    <2>10. CASE list[i] \notin Alarms /\ ~IsSecond(list[i])
      BY <2>5, <2>6, <2>10 DEF BlockWritten, IsSecond, WordMeant
    <2> QED BY <2>8, <2>9, <2>10
  <1> QED BY <1>1, Invariant, PTL
=============================================================================
