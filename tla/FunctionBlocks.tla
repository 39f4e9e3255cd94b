--------------------------- MODULE FunctionBlocks ---------------------------
(***************************************************************************)
(* A program of function blocks (core/function_block.c): the application   *)
(* links blocks to a list, numbers them and commits them to the probe.  An *)
(* alarm is two blocks that fb_alarm_init (core/alarm.c) has linked.  Each *)
(* iteration of a loop over the list is a step, so that a loop that does   *)
(* not end shows, and so that any write of a commit can fail.              *)
(*                                                                         *)
(* The application uses the list as one does: a block is appended when it  *)
(* is not on the list, and nothing is appended after fb_terminate.  It sets *)
(* fields of the alarms on the list whenever it likes.                     *)
(*                                                                         *)
(* The data of a block is a word of four bytes, numbered as they lie in    *)
(* the memory of the host.  On the wire the last comes first.              *)
(***************************************************************************)
EXTENDS Naturals, SequencesExt

CONSTANTS Blocks, FirstBlock, Eob,   \* the blocks, the first one, the end marker
          Second,              \* the second block of each alarm, or NULL
          NULL,
          FB__PROGRAM_MAX,     \* blocks a program can have in the probe
          IdxModulus,          \* block_idx wraps here (uint8_t)
          FirstIndexes,        \* bound: what fb_init_head is given
          Arguments,           \* bound: what the functions that set a field are given
          MaxSettings,         \* bound: calls that set a field
          MaxCommits,          \* bound: calls of fb_commit
          MaxFailures          \* bound: writes that fail

\* The first blocks of the alarms.
Alarms == {b \in Blocks : Second[b] # NULL}

\* The second block of an alarm is a member of its structure: it belongs to no other
\* alarm, has no second one itself and is neither the first block nor the end marker.
ASSUME BlockAssumption ==
    /\ FirstBlock \in Blocks /\ Eob \in Blocks /\ FirstBlock # Eob
    /\ NULL \notin Blocks
    /\ Second \in [Blocks -> Blocks \cup {NULL}]
    /\ \A a \in Alarms :
          /\ Second[Second[a]] = NULL /\ Second[a] \notin {FirstBlock, Eob}
          /\ \A b \in Alarms : Second[a] = Second[b] => a = b
    /\ Second[Eob] = NULL
    /\ FB__PROGRAM_MAX \in Nat \ {0}
    /\ IdxModulus \in Nat /\ IdxModulus > FB__PROGRAM_MAX
    /\ FirstIndexes \subseteq 0 .. IdxModulus - 1
    /\ Arguments \in [{"enable", "mode", "sensor", "latching", "percent", "parameter"}
                         -> SUBSET (0 .. 255)]
    /\ MaxSettings \in Nat /\ MaxCommits \in Nat /\ MaxFailures \in Nat

VARIABLES pc,
          next, block_idx,     \* fields of each block
          block_data,          \* the word of each block
          temp, next_block,    \* the pointer of the running loop, the block to append
          program,             \* the probe's program, a word for each index
          failures,
          list,                \* history: the blocks in the order they were appended
          first,               \* history: what fb_init_head was given, or NULL
          meant,               \* history: the settings of each alarm
          settings,            \* history: how many calls have set a field
          commits              \* history: how many calls of fb_commit there were

links == <<next, block_idx>>
loop == <<temp, next_block>>
probe == <<program, failures>>
alarm == <<meant, settings>>
history == <<list, first, commits>>
vars == <<pc, links, loop, block_data, probe, alarm, history>>

Indexes == 0 .. IdxModulus - 1
\* Mutant: the number is wider than its type.
IncWithoutWrap(i) == i + 1

Inc(i) == (i + 1) % IdxModulus

OnList(b) == \E i \in 1 .. Len(list) : list[i] = b

-----------------------------------------------------------------------------
(* Words and their fields: alarm_ctrl_w1_t, alarm_ctrl_w2_t, fb_data_t.    *)

Words == [1 .. 4 -> 0 .. 255]
\* A place of the program that was not written holds no word.
ASSUME NoWordAssumption == NULL \notin Words

FB__EOB == <<\h7e, \hff, \hff, \hff>>

FUNCTION_BLOCK_ALARM == 0
FUNCTION_BLOCK_MATH == 1

Bits(byte, weight, size) == [byte |-> byte, weight |-> weight, size |-> size]

W1 == [block_enable |-> Bits(1, 1, 2), block_type |-> Bits(1, 2, 16),
       alarm_mode |-> Bits(1, 32, 4), status |-> Bits(1, 128, 2),
       source_index |-> Bits(2, 1, 32), latching |-> Bits(2, 128, 2)]

\* What w2 has in its first byte for the low side, in its second for the high side.
W2(byte) == [value |-> Bits(byte, 1, 128), opt |-> Bits(byte, 128, 2),
             index |-> Bits(byte, 1, 32), bpa |-> Bits(byte, 32, 2),
             fba |-> Bits(byte, 64, 2)]

Field(word, f) == (word[f.byte] \div f.weight) % f.size

\* Assigning a bit field keeps the bits of the value that fit.
Put(word, f, value) ==
    [word EXCEPT ![f.byte] = (@ - f.weight * Field(word, f)) + f.weight * (value % f.size)]

\* An application's block of another kind.
OwnWord == Put(Put(<<0, 0, 0, 0>>, W1.block_enable, 1), W1.block_type, FUNCTION_BLOCK_MATH)

Unset == [enable |-> 0, mode |-> 0, sensor |-> 0, latching |-> FALSE,
          low |-> <<"percent", 0>>, high |-> <<"percent", 0>>]

\* The two words of an alarm after fb_alarm_init, those of the others as they are.
InitialWord(b) ==
    IF b \in Alarms THEN Put(<<0, 0, 0, 0>>, W1.block_type, FUNCTION_BLOCK_ALARM)
    ELSE IF \E a \in Alarms : Second[a] = b THEN <<0, 0, 0, 0>>
    ELSE OwnWord

\* An alarm has its second block from the start.
WithSecond(b) == IF Second[b] = NULL THEN <<b>> ELSE <<b, Second[b]>>

Init ==
    /\ pc = "idle"
    /\ next = Second
    /\ block_idx = [b \in Blocks |-> 0]
    /\ block_data = [b \in Blocks |-> InitialWord(b)]
    /\ temp = NULL /\ next_block = NULL
    /\ program = [i \in 0 .. FB__PROGRAM_MAX - 1 |-> NULL]
    /\ failures = 0
    /\ list = WithSecond(FirstBlock)
    /\ first = NULL
    /\ meant = [a \in Alarms |-> Unset]
    /\ settings = 0
    /\ commits = 0

-----------------------------------------------------------------------------
(* fb_init_head.                                                           *)

fb_init_head(index) ==
    /\ pc = "idle"
    /\ pc' = "number"
    /\ temp' = FirstBlock
    /\ block_idx' = [block_idx EXCEPT ![FirstBlock] = index]
    /\ first' = index
    /\ UNCHANGED <<next, next_block, block_data, probe, alarm, list, commits>>

NumberNext ==
    /\ pc = "number"
    /\ \/ /\ next[temp] # NULL
          /\ temp' = next[temp]
          /\ block_idx' = [block_idx EXCEPT ![next[temp]] = Inc(block_idx[temp])]
          /\ UNCHANGED pc
       \/ /\ next[temp] = NULL
          /\ pc' = "idle"
          /\ UNCHANGED <<temp, block_idx>>
    /\ UNCHANGED <<next, next_block, block_data, probe, alarm, history>>

-----------------------------------------------------------------------------
(* fb_chain and fb_terminate.                                              *)

Free(b) == ~OnList(b) /\ \A c \in Blocks : Second[c] # b

fb_chain(b) ==
    /\ pc = "idle"
    /\ Free(b) /\ b # Eob /\ ~OnList(Eob)
    /\ pc' = "to_tail"
    /\ temp' = FirstBlock
    /\ next_block' = b
    /\ list' = list \o WithSecond(b)
    /\ UNCHANGED <<links, block_data, probe, alarm, first, commits>>

fb_terminate ==
    /\ pc = "idle"
    /\ ~OnList(Eob)
    /\ block_data' = [block_data EXCEPT ![Eob] = FB__EOB]
    /\ next' = [next EXCEPT ![Eob] = NULL]
    /\ pc' = "to_tail"
    /\ temp' = FirstBlock
    /\ next_block' = Eob
    /\ list' = Append(list, Eob)
    /\ UNCHANGED <<block_idx, probe, alarm, first, commits>>

ToTail ==
    /\ pc = "to_tail"
    /\ next[temp] # NULL
    /\ temp' = next[temp]
    /\ UNCHANGED <<pc, links, next_block, block_data, probe, alarm, history>>

\* Mutant: the appended block gets the number of the one before it.
LinkSameNumber ==
    /\ pc = "to_tail"
    /\ next[temp] = NULL
    /\ block_idx' = [block_idx EXCEPT ![next_block] = block_idx[temp]]
    /\ next' = [next EXCEPT ![temp] = next_block]
    /\ temp' = next_block
    /\ pc' = "renumber"
    /\ UNCHANGED <<next_block, block_data, probe, alarm, history>>

\* Mutant: the block is linked behind the head, whatever followed it.
LinkAtHead ==
    /\ pc = "to_tail"
    /\ next[temp] = NULL
    /\ block_idx' = [block_idx EXCEPT ![next_block] = Inc(block_idx[temp])]
    /\ next' = [next EXCEPT ![FirstBlock] = next_block]
    /\ temp' = next_block
    /\ pc' = "renumber"
    /\ UNCHANGED <<next_block, block_data, probe, alarm, history>>

Link ==
    /\ pc = "to_tail"
    /\ next[temp] = NULL
    /\ block_idx' = [block_idx EXCEPT ![next_block] = Inc(block_idx[temp])]
    /\ next' = [next EXCEPT ![temp] = next_block]
    /\ temp' = next_block
    /\ pc' = "renumber"
    /\ UNCHANGED <<next_block, block_data, probe, alarm, history>>

\* Mutant: the loop is entered when nothing follows.
RenumberInverted ==
    /\ pc = "renumber"
    /\ next[temp] # NULL
    /\ pc' = "idle"
    /\ UNCHANGED <<links, loop, block_data, probe, alarm, history>>

\* The loop numbers the block that follows, again and again: temp never moves.
Renumber ==
    /\ pc = "renumber"
    /\ \/ /\ next[temp] # NULL
          /\ block_idx' = [block_idx EXCEPT ![next[temp]] = Inc(block_idx[temp])]
          /\ UNCHANGED pc
       \/ /\ next[temp] = NULL
          /\ pc' = "idle"
          /\ UNCHANGED block_idx
    /\ UNCHANGED <<next, loop, block_data, probe, alarm, history>>

-----------------------------------------------------------------------------
(* fb_commit: fb_program_write for each block, which writes a register of  *)
(* four bytes from the block's own memory and leaves that reversed.        *)

fb_commit ==
    /\ pc = "idle"
    /\ pc' = "commit"
    /\ temp' = FirstBlock
    /\ commits < MaxCommits
    /\ commits' = commits + 1
    /\ UNCHANGED <<links, next_block, block_data, probe, alarm, list, first>>

reverse_bytes(b) == block_data' = [block_data EXCEPT ![b] = Reverse(@)]

Store(b) == program' = [program EXCEPT ![block_idx[b]] = Reverse(block_data[b])]

TooLong == block_idx[temp] >= FB__PROGRAM_MAX

\* Mutant: a write that failed does not end the commit.
CommitGoesOn ==
    /\ pc = "commit"
    /\ temp # NULL
    /\ \/ /\ TooLong
          /\ pc' = "idle" /\ UNCHANGED temp
          /\ UNCHANGED <<block_data, probe>>
       \/ /\ ~TooLong
          /\ reverse_bytes(temp)
          /\ temp' = next[temp]
          /\ \/ Store(temp) /\ UNCHANGED failures
             \/ failures < MaxFailures /\ failures' = failures + 1 /\ UNCHANGED program
          /\ UNCHANGED pc
    /\ UNCHANGED <<links, next_block, alarm, history>>

CommitWrite ==
    /\ pc = "commit"
    /\ temp # NULL
    /\ \/ /\ TooLong
          /\ pc' = "idle" /\ UNCHANGED temp
          /\ UNCHANGED <<block_data, probe>>
       \/ /\ ~TooLong
          /\ reverse_bytes(temp)
          /\ Store(temp)
          /\ temp' = next[temp]
          /\ UNCHANGED <<pc, failures>>
       \/ /\ ~TooLong
          /\ failures < MaxFailures
          /\ failures' = failures + 1
          /\ reverse_bytes(temp)
          /\ (Store(temp) \/ UNCHANGED program)
          /\ pc' = "idle" /\ UNCHANGED temp
    /\ UNCHANGED <<links, next_block, alarm, history>>

CommitDone ==
    /\ pc = "commit"
    /\ temp = NULL
    /\ pc' = "idle" /\ UNCHANGED temp
    /\ UNCHANGED <<links, next_block, block_data, probe, alarm, history>>

\* The end marker is written over a block; of the local variable it is written from
\* nothing is seen afterwards.
fb_program_erase(index) ==
    /\ pc = "idle"
    /\ index < FB__PROGRAM_MAX
    /\ \/ /\ program' = [program EXCEPT ![index] = Reverse(FB__EOB)]
          /\ UNCHANGED failures
       \/ /\ failures < MaxFailures
          /\ failures' = failures + 1
          /\ program' \in {program, [program EXCEPT ![index] = Reverse(FB__EOB)]}
    /\ UNCHANGED <<pc, links, loop, block_data, alarm, history>>

fb_program_erase_all == fb_program_erase(0)

\* What a read of a word of the program returns, which the call has reversed, and what
\* fb_alarm_get_status makes of it.
fb_program_read(index) == Reverse(program[index])
fb_alarm_get_status(a) == Field(fb_program_read(block_idx[a]), W1.status)

-----------------------------------------------------------------------------
(* The functions that set fields of an alarm.                              *)

\* One of the words of alarm a becomes word; it was asked for value as its what.
Set(a, b, word, what, value) ==
    /\ pc = "idle"
    /\ settings < MaxSettings
    /\ settings' = settings + 1
    /\ block_data' = [block_data EXCEPT ![b] = word]
    /\ meant' = [meant EXCEPT ![a][what] = value]
    /\ UNCHANGED <<pc, links, loop, probe, history>>

fb_alarm_enable(a, enable) ==
    Set(a, a, Put(block_data[a], W1.block_enable, enable), "enable", enable)

fb_alarm_set_mode(a, mode) ==
    Set(a, a, Put(block_data[a], W1.alarm_mode, mode), "mode", mode)

fb_alarm_set_sensor(a, sensor_index) ==
    Set(a, a, Put(block_data[a], W1.source_index, sensor_index), "sensor", sensor_index)

fb_alarm_set_latching(a, latch) ==
    Set(a, a, Put(block_data[a], W1.latching, IF latch # 0 THEN 1 ELSE 0),
        "latching", latch # 0)

Percent(word, byte, rate) == Put(Put(word, W2(byte).opt, 0), W2(byte).value, rate)

Threshold(word, byte, param_index) ==
    LET f == W2(byte) IN
    Put(Put(Put(Put(word, f.opt, 1), f.index, param_index), f.fba, 0), f.bpa, 1)

fb_alarm_ctrl_set_percent_increase_rate(a, rate) ==
    Set(a, Second[a], Percent(block_data[Second[a]], 1, rate), "low", <<"percent", rate>>)

fb_alarm_ctrl_set_percent_decrease_rate(a, rate) ==
    Set(a, Second[a], Percent(block_data[Second[a]], 2, rate), "high", <<"percent", rate>>)

fb_alarm_ctrl_set_low_threshold_value(a, param_index) ==
    Set(a, Second[a], Threshold(block_data[Second[a]], 1, param_index),
        "low", <<"parameter", param_index>>)

fb_alarm_ctrl_set_high_threshold_value(a, param_index) ==
    Set(a, Second[a], Threshold(block_data[Second[a]], 2, param_index),
        "high", <<"parameter", param_index>>)

SetAlarm(a) ==
    \/ \E v \in Arguments.enable : fb_alarm_enable(a, v)
    \/ \E v \in Arguments.mode : fb_alarm_set_mode(a, v)
    \/ \E v \in Arguments.sensor : fb_alarm_set_sensor(a, v)
    \/ \E v \in Arguments.latching : fb_alarm_set_latching(a, v)
    \/ \E v \in Arguments.percent :
          \/ fb_alarm_ctrl_set_percent_increase_rate(a, v)
          \/ fb_alarm_ctrl_set_percent_decrease_rate(a, v)
    \/ \E v \in Arguments.parameter :
          \/ fb_alarm_ctrl_set_low_threshold_value(a, v)
          \/ fb_alarm_ctrl_set_high_threshold_value(a, v)

-----------------------------------------------------------------------------
Loops == NumberNext \/ ToTail \/ Link \/ Renumber \/ CommitWrite \/ CommitDone

Next ==
    \/ \E i \in FirstIndexes : fb_init_head(i)
    \/ \E b \in Blocks : fb_chain(b)
    \/ fb_terminate \/ fb_commit \/ fb_program_erase_all
    \/ \E a \in Alarms : OnList(a) /\ SetAlarm(a)
    \/ Loops

Spec == Init /\ [][Next]_vars

(* Fairness: a loop goes on.  Nothing makes the application call anything. *)
FairSpec == Spec /\ WF_vars(Loops)

-----------------------------------------------------------------------------
TypeOK ==
    /\ pc \in {"idle", "number", "to_tail", "renumber", "commit"}
    /\ next \in [Blocks -> Blocks \cup {NULL}]
    /\ block_idx \in [Blocks -> Indexes]
    /\ \A b \in Blocks : block_data[b] \in Words
    /\ temp \in Blocks \cup {NULL}
    /\ next_block \in Blocks \cup {NULL}
    /\ \A i \in 0 .. FB__PROGRAM_MAX - 1 : program[i] # NULL => program[i] \in Words
    /\ failures \in 0 .. MaxFailures
    /\ first \in Indexes \cup {NULL}
    /\ settings \in 0 .. MaxSettings
    /\ commits \in 0 .. MaxCommits

\* Whenever no call is running, the links from the head are the blocks in the
\* order in which they were appended: nothing is lost, repeated or closed to a ring.
LinkedInOrder ==
    pc = "idle" =>
        \A i \in 1 .. Len(list) :
            next[list[i]] = IF i = Len(list) THEN NULL ELSE list[i + 1]

\* Once fb_init_head was called, the blocks are numbered from its index in the
\* order of the list, also those that are appended later.
NumberedInOrder ==
    (pc = "idle" /\ first # NULL) =>
        \A i \in 1 .. Len(list) : block_idx[list[i]] = (first + i - 1) % IdxModulus

\* One side of an alarm's second word asks for what was set.
SideMeant(word, byte, side) ==
    LET f == W2(byte) IN
    IF side[1] = "percent" THEN Field(word, f.opt) = 0 /\ Field(word, f.value) = side[2]
    ELSE /\ Field(word, f.opt) = 1 /\ Field(word, f.index) = side[2]
         /\ Field(word, f.bpa) = 1 /\ Field(word, f.fba) = 0

\* The settings have room in their fields.  Of the modes ALARM_HI_LO and ALARM_BAND,
\* 16 and 17, have not.
HaveRoom(a) ==
    /\ meant[a].enable < 2 /\ meant[a].mode < 4 /\ meant[a].sensor < 32
    /\ \A side \in {meant[a].low, meant[a].high} :
          side[2] < (IF side[1] = "percent" THEN 128 ELSE 32)

\* The words from index i are the alarm that was set up, which has not gone off.
AlarmWritten(a, i) ==
    LET w1 == fb_program_read(i)
        w2 == fb_program_read(i + 1) IN
    /\ Field(w1, W1.block_enable) = meant[a].enable
    /\ Field(w1, W1.block_type) = FUNCTION_BLOCK_ALARM
    /\ Field(w1, W1.alarm_mode) = meant[a].mode
    /\ Field(w1, W1.source_index) = meant[a].sensor
    /\ (Field(w1, W1.latching) = 1) <=> meant[a].latching
    /\ SideMeant(w2, 1, meant[a].low) /\ SideMeant(w2, 2, meant[a].high)
    /\ fb_alarm_get_status(a) = 0

BlockWritten(b, i) ==
    CASE b \in Alarms -> HaveRoom(b) => AlarmWritten(b, i)
      [] \E a \in Alarms : Second[a] = b -> TRUE
      [] b = Eob -> fb_program_read(i) = FB__EOB
      [] OTHER -> fb_program_read(i) = OwnWord

ProgramWritten ==
    (pc = "commit" /\ temp = NULL /\ first # NULL) =>
        /\ \A i \in 1 .. Len(list) : program[first + i - 1] # NULL
        /\ \A i \in 1 .. Len(list) : BlockWritten(list[i], first + i - 1)

\* When the first commit is about to return E_OK, the probe holds all blocks that
\* were appended, with the end marker if there is one, each at its number and in
\* the probe's byte order, and every alarm with the settings it was given if
\* they have room, provided fb_init_head was called.
FirstCommitWritesProgram == commits = 1 => ProgramWritten

\* Every call returns, except for fb_chain with an alarm: renumbering what follows the
\* appended block never moves on.
OtherCallsReturn ==
    (pc # "idle" /\ (next_block = NULL \/ Second[next_block] = NULL)) ~> pc = "idle"

\* "write func blocks down to smartsensor": so does every commit that returns E_OK,
\* the second of the same program and the one that follows a commit that failed.
CommitWritesProgram == ProgramWritten
=============================================================================
