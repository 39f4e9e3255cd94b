--------------------------- MODULE DataLog_proofs ---------------------------
(***************************************************************************)
(* Clients that configure a probe and use its log at the same time do what *)
(* they report, for any number of clients, calls and failures, any of the  *)
(* functions with any arguments, any ranges and any number of sensors.     *)
(***************************************************************************)
EXTENDS DataLog, SequenceTheorems, FiniteSetTheorems, TLAPS

-----------------------------------------------------------------------------
(* The steps of the functions                                              *)

Callable == Library \cup Ranged
Extracting == {sensor_log_extract, sensor_log_count_record}
Steps == UNION {{f.steps[i] : i \in DOMAIN f.steps} : f \in Callable}

BitsOf == [SYSTEM_CONTROL |-> SystemBits, INTERRUPT_CONTROL |-> InterruptBits]
RangeRegisters == {"EXTRACT_START_TIME", "EXTRACT_END_TIME"}
Commanded == {"TRIGGER_EXTRACT", "TRIGGER_EXTRACT_NEXT", "TRIGGER_CLEAR_LOG",
              "TRIGGER_DEVICE_RESET", "TRIGGER_FACTORY_RESET", "TRIGGER_PASSWORD_RESET"}

\* What the step s writes is of the type of the register.
WellTyped(s) ==
    \/ s.reg = "TRIGGER_REQUESTS"
       /\ s.arg \in Commanded \ {"TRIGGER_EXTRACT", "TRIGGER_CLEAR_LOG"}
    \/ s.reg \in DOMAIN BitsOf /\ s.arg \subseteq BitsOf[s.reg]
    \/ s.reg \in RangeRegisters /\ s.arg \in Times
    \/ s.reg \in {"EVENT_0_TIME_BASE", "EVENT_1_TIME_BASE"}

\* The i-th step of f changes the bits the step before it has read.
ReadBefore(f, i) ==
    LET s == f.steps[i] IN
    /\ i > 1 /\ f.steps[i - 1].op = "read" /\ f.steps[i - 1].reg = s.reg
    /\ s.reg \in DOMAIN BitsOf /\ s.arg.set \subseteq BitsOf[s.reg]
    /\ s.arg.set \cap s.arg.clear = {}

\* What the i-th step of f writes, none of the later ones writes again.
WrittenLast(f, i) ==
    \A j \in i + 1 .. Len(f.steps) :
        f.steps[j].op \in {"write", "modify", "writetime"}
            => f.steps[i].reg \notin Changed(f.steps[j])

\* Of a function that takes no range and extracts nothing.
PlainStep(f, i) ==
    LET s == f.steps[i] IN
    \/ s.op = "read" /\ s.reg # "TRIGGER_REQUESTS"
    \/ s.op = "write" /\ WellTyped(s) /\ WrittenLast(f, i)
    \/ s.op = "modify" /\ ReadBefore(f, i) /\ WrittenLast(f, i)
    \/ s.op = "poll" /\ s.reg # "TRIGGER_REQUESTS"
       /\ \A j \in 1 .. Len(f.steps) : f.steps[j].op = "poll"

-----------------------------------------------------------------------------
(* The inductive invariant                                                 *)

\* How many steps of its function client c has behind it.
Behind(c) == Len(call[c].steps) - Len(todo[c])

\* What is left to do is the end of the function.
Positioned(c) ==
    IF call[c] = None THEN todo[c] = <<>> /\ ~retried[c] /\ cnt[c] = 0 /\ ret[c] = "E_OK"
    ELSE /\ call[c] \in Callable
         /\ todo[c] \in Seq(Steps) /\ Len(todo[c]) <= Len(call[c].steps)
         /\ \A i \in 1 .. Len(todo[c]) : todo[c][i] = call[c].steps[Behind(c) + i]
         /\ retried[c] => call[c] = sensor_log_search
         /\ Busy(c) /\ call[c] \in Extracting => ret[c] = "E_OK"

\* The register a step wrote is as the step meant it.
Holds(s, c) ==
    s.reg \in DOMAIN Defaults \ dirty[c] =>
        /\ s.op = "write" => reg[s.reg] = s.arg
        /\ s.op = "modify" => s.arg.set \subseteq reg[s.reg] /\ s.arg.clear \cap reg[s.reg] = {}

Done(c) ==
    call[c] # None /\ ret[c] = "E_OK" =>
        \A i \in 1 .. Behind(c) : Holds(call[c].steps[i], c)

\* The bits about to be changed are those of the register.
Fresh(c) ==
    Busy(c) /\ NextStep(c).op = "modify" =>
        /\ got[c] \subseteq BitsOf[NextStep(c).reg]
        /\ NextStep(c).reg \notin dirty[c] => got[c] = reg[NextStep(c).reg]

\* The range that was asked for, in the variables and then in the registers.
Asking(c) ==
    call[c] \in Ranged /\ ~retried[c] =>
        /\ Behind(c) = 0 => var[c].START = asked[c].START
        /\ Behind(c) \in {0, 1} => var[c].END = asked[c].END
        /\ Behind(c) \in {1, 2} /\ "EXTRACT_START_TIME" \notin dirty[c]
              => reg.EXTRACT_START_TIME = asked[c].START
        /\ Behind(c) = 2 /\ "EXTRACT_END_TIME" \notin dirty[c]
              => reg.EXTRACT_END_TIME = asked[c].END

\* How many steps are behind after the time stamp was read.
StampRead(f) == IF f = sensor_log_extract THEN 1 ELSE 7

\* What was read of the record is of the one that is extracted.
Whole(c) ==
    LET n == Behind(c) - StampRead(call[c]) IN
    /\ call[c] \in Extracting
    /\ n \in 0 .. MAX_SENSOR_COUNT /\ ret[c] = "E_OK" /\ "EXTRACTED" \notin dirty[c]
    => /\ record[c].time = extracted
       /\ extracted # LOG_TIME_EOF
             => \A i \in 0 .. n - 1 : record[c].value[i] = extracted

Undisturbed(c) ==
    {"EXTRACT_START_TIME", "EXTRACT_END_TIME", "EXTRACTED", "LOG"} \cap dirty[c] = {}

New == {t \in LogTimes : t <= now /\ t \notin LoggedBefore}

\* The records counted by client c, those still to count and how they make up the range.
Counted(c, C) ==
    LET n == Behind(c) IN
    /\ cnt[c] = Cardinality(C) /\ C \subseteq inRange[c] \cup New
    /\ n \in 0 .. 2 => C = {}
    /\ n \in 3 .. 5 => /\ inRange[c] \subseteq C \cup found
                       /\ found \subseteq inRange[c] \cup New /\ C \cap found = {}
    /\ n \in 6 .. 7 + MAX_SENSOR_COUNT =>
          IF extracted = LOG_TIME_EOF THEN inRange[c] \subseteq C
          ELSE /\ inRange[c] \subseteq C \cup {extracted} \cup found
               /\ {extracted} \cup found \subseteq inRange[c] \cup New
               /\ C \cap found = {} /\ extracted \notin C \cup found
    /\ n = 8 + MAX_SENSOR_COUNT /\ ret[c] = "E_OK" => inRange[c] \subseteq C

Counting(c) ==
    call[c] = sensor_log_count_record /\ Undisturbed(c) =>
        \E C \in SUBSET LogTimes : Counted(c, C)

Probe ==
    /\ log \subseteq LogTimes /\ found \subseteq LogTimes
    /\ extracted \in LogTimes \cup {LOG_TIME_EOF}
    /\ ready \in BOOLEAN /\ now \in LogTimes
    /\ DOMAIN reg = DOMAIN Defaults
    /\ reg.SYSTEM_CONTROL \subseteq SystemBits
    /\ reg.INTERRUPT_CONTROL \subseteq InterruptBits
    /\ reg.EXTRACT_START_TIME \in Times /\ reg.EXTRACT_END_TIME \in Times
    /\ \A t \in log \cup found \cup LoggedBefore : t <= now

Locals(c) ==
    /\ ret[c] \in {"E_OK", "E_BUFFER_MEM_SIZE", "E_PORT_ERR", "E_BUS_OPERATION"}
    /\ cnt[c] \in Nat
    /\ var[c] \in [START : Times, END : Times]
    /\ DOMAIN record[c] = {"time", "value"}
    /\ DOMAIN record[c].value = 0 .. MAX_SENSOR_COUNT - 1
    /\ dirty[c] \subseteq Everything
    /\ inRange[c] \subseteq {t \in LogTimes : t <= now}

ClientInv(c) ==
    /\ Locals(c) /\ Positioned(c) /\ Done(c) /\ Fresh(c) /\ Asking(c) /\ Whole(c)
    /\ Counting(c)

\* The tables of the clients have a place for each of them.
Tables ==
    /\ DOMAIN call = Client /\ DOMAIN todo = Client /\ DOMAIN ret = Client
    /\ DOMAIN got = Client /\ DOMAIN var = Client /\ DOMAIN record = Client
    /\ DOMAIN cnt = Client /\ DOMAIN dirty = Client /\ DOMAIN asked = Client
    /\ DOMAIN retried = Client /\ DOMAIN inRange = Client

IInv == Probe /\ Tables /\ \A c \in Client : ClientInv(c)

-----------------------------------------------------------------------------
(* What the steps of each function are                                     *)

Plain(f) ==
    /\ f.steps \in Seq({f.steps[i] : i \in DOMAIN f.steps})
    /\ \A i \in 1 .. Len(f.steps) : PlainStep(f, i)
    /\ f.name \notin {"sensor_log_search", "sensor_log_erase", "sensor_log_count_record",
                      "sensor_log_extract"}

\* A function that reads once, and one that writes once.
LEMMA OneRead ==
    ASSUME NEW f, NEW name, NEW size, f.steps = <<Read(name, size)>>,
           name # "TRIGGER_REQUESTS",
           f.name \notin {"sensor_log_search", "sensor_log_erase", "sensor_log_count_record",
                          "sensor_log_extract"}
    PROVE  Plain(f)
  BY DEF Plain, PlainStep, Read, Step

LEMMA OneWrite ==
    ASSUME NEW f, NEW s, f.steps = <<s>>, s.op = "write", WellTyped(s),
           f.name \notin {"sensor_log_search", "sensor_log_erase", "sensor_log_count_record",
                          "sensor_log_extract"}
    PROVE  Plain(f)
  BY DEF Plain, PlainStep, WrittenLast

\* A function that reads bits and writes them back changed.
LEMMA ReadAndModify ==
    ASSUME NEW f, NEW a, NEW b,
           f.steps = <<Read("SYSTEM_CONTROL", Sizeof.u16),
                       WriteBits("SYSTEM_CONTROL", Sizeof.u16, a, b)>>,
           a \subseteq SystemBits, a \cap b = {},
           f.name \notin {"sensor_log_search", "sensor_log_erase", "sensor_log_count_record",
                          "sensor_log_extract"}
    PROVE  Plain(f)
  <1>1. /\ Len(f.steps) = 2
        /\ f.steps[1].op = "read" /\ f.steps[1].reg = "SYSTEM_CONTROL"
        /\ f.steps[2].op = "modify" /\ f.steps[2].reg = "SYSTEM_CONTROL"
        /\ f.steps[2].arg.set = a /\ f.steps[2].arg.clear = b
    BY DEF Read, WriteBits, Step
  <1>2. f.steps \in Seq({f.steps[i] : i \in DOMAIN f.steps})
    OBVIOUS
  <1>3. PlainStep(f, 1)
    BY <1>1 DEF PlainStep
  <1>4. PlainStep(f, 2)
    BY <1>1 DEF PlainStep, ReadBefore, WrittenLast, BitsOf
  <1> QED BY <1>1, <1>2, <1>3, <1>4 DEF Plain

LEMMA DefaultInitIsPlain ==
    Plain(probe_default_init(LOG_TIME_FIRST_FOUND, LOG_TIME_EOF))
  <1> DEFINE f == probe_default_init(LOG_TIME_FIRST_FOUND, LOG_TIME_EOF)
             q == f.steps
  <1>1. /\ f.name = "probe_default_init" /\ Len(q) = 8
        /\ q \in Seq({q[i] : i \in DOMAIN q})
    BY DEF probe_default_init, Function
  <1>2. /\ q[1].op = "read" /\ q[1].reg = "INTERRUPT_CONTROL"
        /\ q[2].op = "modify" /\ q[2].reg = "INTERRUPT_CONTROL"
        /\ q[2].arg.set = InterruptBits \ {"EVENT_0"} /\ q[2].arg.clear = {}
        /\ q[3].op = "read" /\ q[3].reg = "SYSTEM_CONTROL"
        /\ q[4].op = "modify" /\ q[4].reg = "SYSTEM_CONTROL"
        /\ q[4].arg.set = SystemBits \ {"EVENT_2_READ"} /\ q[4].arg.clear = {}
    BY DEF probe_default_init, Function, Read, WriteBits, Step
  <1>3. /\ q[5].op = "write" /\ q[5].reg = "EXTRACT_START_TIME" /\ q[5].arg \in Times
        /\ q[6].op = "write" /\ q[6].reg = "EXTRACT_END_TIME" /\ q[6].arg \in Times
        /\ q[7].op = "write" /\ q[7].reg = "EVENT_0_TIME_BASE"
        /\ q[8].op = "write" /\ q[8].reg = "EVENT_1_TIME_BASE"
    BY DEF probe_default_init, Function, Write, Step, Times, LOG_TIME_FIRST_FOUND, LOG_TIME_EOF
  <1> HIDE DEF f
  <1>4. \A i \in 1 .. 8 : i = 1 \/ i = 2 \/ i = 3 \/ i = 4 \/ i = 5 \/ i = 6 \/ i = 7 \/ i = 8
    OBVIOUS
  <1>5. \A i \in 1 .. 8 : \A j \in i + 1 .. 8 :
           q[j].op = "read" \/ (q[j].reg # q[i].reg /\ q[j].reg # "TRIGGER_REQUESTS")
           \/ (i \in {1, 3} /\ q[j].reg # "TRIGGER_REQUESTS")
    BY <1>2, <1>3, <1>4
  <1>6. \A i \in {2, 4, 5, 6, 7, 8} : WrittenLast(f, i)
    <2> SUFFICES ASSUME NEW i \in {2, 4, 5, 6, 7, 8}, NEW j \in i + 1 .. 8,
                        q[j].op \in {"write", "modify", "writetime"}
                 PROVE  q[i].reg \notin Changed(q[j])
      BY <1>1 DEF WrittenLast
    <2>1. q[j].reg # q[i].reg /\ q[j].reg # "TRIGGER_REQUESTS"
      BY <1>5
    <2> QED BY <2>1 DEF Changed
  <1>7. PlainStep(f, 1) /\ PlainStep(f, 3)
    BY <1>2 DEF PlainStep
  <1>8. PlainStep(f, 2) /\ PlainStep(f, 4)
    BY <1>2, <1>6 DEF PlainStep, ReadBefore, BitsOf
  <1>9. PlainStep(f, 5) /\ PlainStep(f, 6) /\ PlainStep(f, 7) /\ PlainStep(f, 8)
    BY <1>3, <1>6 DEF PlainStep, WellTyped, RangeRegisters
  <1> QED BY <1>1, <1>4, <1>7, <1>8, <1>9 DEF Plain, f

LEMMA PresetConfigIsPlain == Plain(preset_config)
  <1> DEFINE q == preset_config.steps
  <1>1. /\ preset_config.name = "preset_config" /\ Len(q) = 3
        /\ q \in Seq({q[i] : i \in DOMAIN q})
    BY DEF preset_config, Function
  <1>2. /\ q[1].op = "write" /\ q[1].reg = "EVENT_0_TIME_BASE"
        /\ q[2].op = "write" /\ q[2].reg = "INTERRUPT_CONTROL" /\ q[2].arg = {"DATA_READY"}
        /\ q[3].op = "write" /\ q[3].reg = "SYSTEM_CONTROL" /\ q[3].arg = {"EVENT_1_READ"}
    BY DEF preset_config, Function, Write, Step
  <1>3. \A i \in 1 .. 3 : WrittenLast(preset_config, i)
    BY <1>1, <1>2 DEF WrittenLast, Changed
  <1>4. \A i \in 1 .. 3 : WellTyped(q[i])
    BY <1>2 DEF WellTyped, BitsOf, InterruptBits, SystemBits
  <1>5. \A i \in 1 .. 3 : q[i].op = "write"
    BY <1>2
  <1> QED BY <1>1, <1>3, <1>4, <1>5 DEF Plain, PlainStep

LEMMA WaitIsPlain == Plain(wait_for_device_ready)
  <1> DEFINE q == wait_for_device_ready.steps
  <1>1. /\ wait_for_device_ready.name = "wait_for_device_ready"
        /\ q = [n \in 1 .. WaitPolls |->
                  Step("poll", "SYSTEM_STATUS", Sizeof.system_status_t, {})]
    BY DEF wait_for_device_ready, Function
  <1>2. WaitPolls \in Nat
    BY ConfigurationAssumption
  <1>3. Len(q) = WaitPolls /\ q \in Seq({q[i] : i \in DOMAIN q})
    BY <1>1, <1>2
  <1>4. \A i \in 1 .. Len(q) : q[i].op = "poll" /\ q[i].reg # "TRIGGER_REQUESTS"
    BY <1>1, <1>2, <1>3 DEF Step
  <1> QED BY <1>1, <1>3, <1>4 DEF Plain, PlainStep

LEMMA LibraryIsPlain == \A f \in Library \ {sensor_log_extract} : Plain(f)
  <1> SUFFICES ASSUME NEW f \in Library \ {sensor_log_extract} PROVE Plain(f)
    OBVIOUS
  <1>1. CASE \E g \in Getters : f = Getter(g)
    <2>1. PICK g \in Getters : f = Getter(g)
      BY <1>1
    <2>2. f.name = g[1] /\ f.steps = <<Read(g[2], g[3])>>
      BY <2>1 DEF Getter, Function
    <2>3. g[1] \notin {"sensor_log_search", "sensor_log_erase", "sensor_log_count_record",
                      "sensor_log_extract"} /\ g[2] # "TRIGGER_REQUESTS"
      BY DEF Getters
    <2> QED BY <2>2, <2>3, OneRead
  <1>2. CASE \E bits \in SUBSET SystemBits : f = system_control_set_bits(bits)
    <2>1. PICK bits \in SUBSET SystemBits : f = system_control_set_bits(bits)
      BY <1>2
    <2> QED BY <2>1, ReadAndModify DEF system_control_set_bits, Function
  <1>3. CASE \E bits \in SUBSET SystemBits : f = system_control_clear_bits(bits)
    <2>1. PICK bits \in SUBSET SystemBits : f = system_control_clear_bits(bits)
      BY <1>3
    <2> QED BY <2>1, ReadAndModify DEF system_control_clear_bits, Function
  <1>4. CASE \E bits \in SUBSET SystemBits : f = system_control_write_bits(bits)
    BY <1>4, OneWrite
       DEF system_control_write_bits, Function, Write, Step, WellTyped, BitsOf
  <1>5. CASE \E control \in SUBSET InterruptBits : f = set_interrupt_control(control)
    BY <1>5, OneWrite DEF set_interrupt_control, Function, Write, Step, WellTyped, BitsOf
  <1>6. CASE \E sample_time \in Times : f = set_sample_time(sample_time)
    BY <1>6, OneWrite DEF set_sample_time, Function, Write, Step, WellTyped
  <1>7. CASE f \in {soft_reset, factory_reset, password_reset, sensor_log_extract_next}
    BY <1>7, OneWrite DEF soft_reset, factory_reset, password_reset, sensor_log_extract_next,
       Function, Trigger, Write, Step, WellTyped, Commanded
  <1> QED BY <1>1, <1>2, <1>3, <1>4, <1>5, <1>6, <1>7, DefaultInitIsPlain, PresetConfigIsPlain,
          WaitIsPlain DEF Library

\* The steps of the functions that use the range or the record that is extracted.
Op(f, i) == f.steps[i].op
RegOf(f, i) == f.steps[i].reg

LEMMA SearchShape ==
    LET f == sensor_log_search IN
    /\ f.name = "sensor_log_search" /\ Len(f.steps) = 5
    /\ f.steps \in Seq({f.steps[i] : i \in DOMAIN f.steps})
    /\ Op(f, 1) = "writetime" /\ RegOf(f, 1) = "EXTRACT_START_TIME"
    /\ Op(f, 2) = "writetime" /\ RegOf(f, 2) = "EXTRACT_END_TIME"
    /\ f.steps[3] = Trigger("TRIGGER_EXTRACT")
    /\ Op(f, 4) = "readtime" /\ RegOf(f, 4) = "EXTRACT_START_TIME"
    /\ Op(f, 5) = "readtime" /\ RegOf(f, 5) = "EXTRACT_END_TIME"
  BY DEF sensor_log_search, Function, SearchSteps, WriteTime, ReadTime, Step, Op, RegOf

LEMMA EraseShape ==
    LET f == sensor_log_erase IN
    /\ f.name = "sensor_log_erase" /\ Len(f.steps) = 3
    /\ f.steps \in Seq({f.steps[i] : i \in DOMAIN f.steps})
    /\ Op(f, 1) = "writetime" /\ RegOf(f, 1) = "EXTRACT_START_TIME"
    /\ Op(f, 2) = "writetime" /\ RegOf(f, 2) = "EXTRACT_END_TIME"
    /\ f.steps[3] = Trigger("TRIGGER_CLEAR_LOG")
  BY DEF sensor_log_erase, Function, WriteTime, Step, Op, RegOf

Values == {Step("value", "EXTRACTED_DATA", Sizeof.float, i) : i \in 0 .. MAX_SENSOR_COUNT - 1}
Stamp == Step("stamp", "EXTRACTED_TIME_STAMP", Sizeof.u32, {})

LEMMA ExtractStepsShape ==
    /\ ExtractSteps \in Seq({Stamp} \cup Values) /\ Len(ExtractSteps) = MAX_SENSOR_COUNT + 1
    /\ ExtractSteps[1] = Stamp
    /\ \A i \in 1 .. MAX_SENSOR_COUNT :
          ExtractSteps[i + 1] = Step("value", "EXTRACTED_DATA", Sizeof.float, i - 1)
  <1> DEFINE v == [i \in 1 .. MAX_SENSOR_COUNT |->
                      Step("value", "EXTRACTED_DATA", Sizeof.float, i - 1)]
             S == {Stamp} \cup Values
  <1>1. MAX_SENSOR_COUNT \in Nat /\ MAX_SENSOR_COUNT > 0
    BY DataLogAssumption
  <1>2. \A i \in 1 .. MAX_SENSOR_COUNT : v[i] \in S
    <2> TAKE i \in 1 .. MAX_SENSOR_COUNT
    <2>1. i - 1 \in 0 .. MAX_SENSOR_COUNT - 1
      BY <1>1
    <2> QED BY <2>1 DEF Values
  <1>3. v \in Seq(S) /\ Len(v) = MAX_SENSOR_COUNT
    BY <1>1, <1>2
  <1>4. <<Stamp>> \in Seq(S) /\ Len(<<Stamp>>) = 1
    OBVIOUS
  <1>5. ExtractSteps = <<Stamp>> \o v
    BY DEF ExtractSteps, Stamp
  <1> HIDE DEF v, S
  <1>6. /\ ExtractSteps \in Seq(S) /\ Len(ExtractSteps) = 1 + MAX_SENSOR_COUNT
        /\ \A i \in 1 .. 1 + MAX_SENSOR_COUNT :
              ExtractSteps[i] = IF i <= 1 THEN <<Stamp>>[i] ELSE v[i - 1]
    BY <1>3, <1>4, <1>5, ConcatProperties
  <1>7. ASSUME NEW i \in 1 .. MAX_SENSOR_COUNT
        PROVE  ExtractSteps[i + 1] = Step("value", "EXTRACTED_DATA", Sizeof.float, i - 1)
    <2>1. ExtractSteps[i + 1] = v[i]
      BY <1>1, <1>6
    <2> QED BY <2>1 DEF v
  <1> QED BY <1>1, <1>6, <1>7 DEF S

Again == Step("again", None, 0, {})
Next1 == Trigger("TRIGGER_EXTRACT_NEXT")

LEMMA CountStepsShape ==
    /\ CountSteps \in Seq({Next1, Stamp, Again} \cup Values)
    /\ Len(CountSteps) = MAX_SENSOR_COUNT + 3
    /\ CountSteps[1] = Next1 /\ CountSteps[2] = Stamp
    /\ \A i \in 1 .. MAX_SENSOR_COUNT :
          CountSteps[i + 2] = Step("value", "EXTRACTED_DATA", Sizeof.float, i - 1)
    /\ CountSteps[MAX_SENSOR_COUNT + 3] = Again
  <1> DEFINE S == {Next1, Stamp, Again} \cup Values
             a == <<Next1>>
             b == <<Again>>
             ab == <<Next1>> \o ExtractSteps
  <1>1. MAX_SENSOR_COUNT \in Nat /\ MAX_SENSOR_COUNT > 0
    BY DataLogAssumption
  <1>2. ExtractSteps \in Seq(S)
    BY ExtractStepsShape, SeqMonotonic, {Stamp} \cup Values \subseteq S
  <1>3. a \in Seq(S) /\ Len(a) = 1 /\ a[1] = Next1 /\ b \in Seq(S) /\ Len(b) = 1 /\ b[1] = Again
    OBVIOUS
  <1>4. CountSteps = ab \o b
    BY DEF CountSteps, Next1, Again
  <1> HIDE DEF S, a, b
  <1>5. /\ ab \in Seq(S) /\ Len(ab) = MAX_SENSOR_COUNT + 2
        /\ \A i \in 1 .. MAX_SENSOR_COUNT + 2 :
              ab[i] = IF i <= 1 THEN a[i] ELSE ExtractSteps[i - 1]
    BY <1>1, <1>2, <1>3, ExtractStepsShape, ConcatProperties DEF a
  <1> HIDE DEF ab
  <1>6. /\ CountSteps \in Seq(S) /\ Len(CountSteps) = MAX_SENSOR_COUNT + 3
        /\ \A i \in 1 .. MAX_SENSOR_COUNT + 3 :
              CountSteps[i] = IF i <= MAX_SENSOR_COUNT + 2 THEN ab[i]
                              ELSE b[i - (MAX_SENSOR_COUNT + 2)]
    <2>1. /\ CountSteps \in Seq(S) /\ Len(CountSteps) = Len(ab) + Len(b)
          /\ \A i \in 1 .. Len(ab) + Len(b) :
                CountSteps[i] = IF i <= Len(ab) THEN ab[i] ELSE b[i - Len(ab)]
      BY ONLY <1>3, <1>4, <1>5, ConcatProperties
    <2> QED BY <1>1, <1>3, <1>5, <2>1
  <1>7. CountSteps[1] = Next1 /\ CountSteps[2] = Stamp /\ CountSteps[MAX_SENSOR_COUNT + 3] = Again
    BY <1>1, <1>3, <1>5, <1>6, ExtractStepsShape
  <1>8. ASSUME NEW i \in 1 .. MAX_SENSOR_COUNT
        PROVE  CountSteps[i + 2] = Step("value", "EXTRACTED_DATA", Sizeof.float, i - 1)
    BY <1>1, <1>5, <1>6, ExtractStepsShape
  <1> QED BY <1>6, <1>7, <1>8 DEF S

LEMMA ExtractShape ==
    LET f == sensor_log_extract IN
    /\ f.name = "sensor_log_extract" /\ Len(f.steps) = MAX_SENSOR_COUNT + 1
    /\ f.steps \in Seq({f.steps[i] : i \in DOMAIN f.steps})
    /\ f.steps[1] = Stamp
    /\ \A i \in 1 .. MAX_SENSOR_COUNT :
          f.steps[i + 1] = Step("value", "EXTRACTED_DATA", Sizeof.float, i - 1)
  BY ExtractStepsShape DEF sensor_log_extract, Function

LEMMA CountShape ==
    LET f == sensor_log_count_record IN
    /\ f.name = "sensor_log_count_record" /\ Len(f.steps) = MAX_SENSOR_COUNT + 8
    /\ f.steps \in Seq({f.steps[i] : i \in DOMAIN f.steps})
    /\ \A i \in 1 .. 5 : f.steps[i] = sensor_log_search.steps[i]
    /\ \A i \in 1 .. MAX_SENSOR_COUNT + 3 : f.steps[i + 5] = CountSteps[i]
    /\ f.steps[6] = Next1 /\ f.steps[7] = Stamp
    /\ \A i \in 1 .. MAX_SENSOR_COUNT :
          f.steps[i + 7] = Step("value", "EXTRACTED_DATA", Sizeof.float, i - 1)
    /\ f.steps[MAX_SENSOR_COUNT + 8] = Again
  <1> DEFINE f == sensor_log_count_record
             S == {SearchSteps[i] : i \in 1 .. 5}
             T == {Next1, Stamp, Again} \cup Values
  <1>1. MAX_SENSOR_COUNT \in Nat /\ MAX_SENSOR_COUNT > 0
    BY DataLogAssumption
  <1>2. SearchSteps \in Seq(S) /\ Len(SearchSteps) = 5
    BY DEF SearchSteps
  <1>3. SearchSteps \in Seq(S \cup T) /\ CountSteps \in Seq(S \cup T)
    BY <1>2, CountStepsShape, SeqMonotonic, S \subseteq S \cup T, T \subseteq S \cup T
  <1>4. f.steps = SearchSteps \o CountSteps /\ f.name = "sensor_log_count_record"
    BY DEF sensor_log_count_record, Function
  <1> HIDE DEF f, S, T
  <1>5. /\ f.steps \in Seq(S \cup T) /\ Len(f.steps) = MAX_SENSOR_COUNT + 8
        /\ \A i \in 1 .. MAX_SENSOR_COUNT + 8 :
              f.steps[i] = IF i <= 5 THEN SearchSteps[i] ELSE CountSteps[i - 5]
    <2>1. /\ f.steps \in Seq(S \cup T) /\ Len(f.steps) = Len(SearchSteps) + Len(CountSteps)
          /\ \A i \in 1 .. Len(SearchSteps) + Len(CountSteps) :
                f.steps[i] = IF i <= Len(SearchSteps) THEN SearchSteps[i]
                             ELSE CountSteps[i - Len(SearchSteps)]
      BY ONLY <1>3, <1>4, ConcatProperties
    <2> QED BY <1>1, <1>2, <2>1, CountStepsShape
  <1>6. f.steps \in Seq({f.steps[i] : i \in DOMAIN f.steps})
    BY <1>5
  <1>7. \A i \in 1 .. 5 : f.steps[i] = sensor_log_search.steps[i]
    BY <1>1, <1>5 DEF sensor_log_search, Function
  <1>8. \A i \in 1 .. MAX_SENSOR_COUNT + 3 : f.steps[i + 5] = CountSteps[i]
    BY <1>1, <1>5
  <1>9. f.steps[6] = Next1 /\ f.steps[7] = Stamp /\ f.steps[MAX_SENSOR_COUNT + 8] = Again
    <2>1. /\ f.steps[1 + 5] = CountSteps[1] /\ f.steps[2 + 5] = CountSteps[2]
          /\ f.steps[(MAX_SENSOR_COUNT + 3) + 5] = CountSteps[MAX_SENSOR_COUNT + 3]
      BY <1>1, <1>8
    <2> QED BY <1>1, <2>1, CountStepsShape
  <1>10. ASSUME NEW i \in 1 .. MAX_SENSOR_COUNT
         PROVE  f.steps[i + 7] = Step("value", "EXTRACTED_DATA", Sizeof.float, i - 1)
    <2>1. f.steps[(i + 2) + 5] = CountSteps[i + 2]
      BY <1>1, <1>8
    <2>2. CountSteps[i + 2] = Step("value", "EXTRACTED_DATA", Sizeof.float, i - 1)
      BY CountStepsShape
    <2>3. (i + 2) + 5 = i + 7
      OBVIOUS
    <2> QED BY <2>1, <2>2, <2>3
  <1> QED BY <1>4, <1>5, <1>6, <1>7, <1>8, <1>9, <1>10 DEF f

\* What the i-th step of the function f is.
Kind(f, i) ==
    LET s == f.steps[i] IN
    \/ f \in Library \ {sensor_log_extract} /\ PlainStep(f, i)
    \/ f \in Ranged /\ i = 1 /\ s.op = "writetime" /\ s.reg = "EXTRACT_START_TIME"
    \/ f \in Ranged /\ i = 2 /\ s.op = "writetime" /\ s.reg = "EXTRACT_END_TIME"
    \/ f \in {sensor_log_search, sensor_log_count_record} /\ i = 3
       /\ s = Trigger("TRIGGER_EXTRACT")
    \/ f = sensor_log_erase /\ i = 3 /\ s = Trigger("TRIGGER_CLEAR_LOG")
    \/ f \in {sensor_log_search, sensor_log_count_record} /\ i \in {4, 5}
       /\ s.op = "readtime" /\ s.reg \in RangeRegisters
    \/ f = sensor_log_count_record /\ i = 6 /\ s = Next1
    \/ f \in Extracting /\ i = StampRead(f) /\ s = Stamp
    \/ f \in Extracting /\ i - StampRead(f) \in 1 .. MAX_SENSOR_COUNT
       /\ s = Step("value", "EXTRACTED_DATA", Sizeof.float, i - StampRead(f) - 1)
    \/ f = sensor_log_count_record /\ i = MAX_SENSOR_COUNT + 8 /\ s = Again

\* The functions are told apart by their names.
LEMMA Names ==
    /\ \A f \in Callable : f.name = "sensor_log_search" <=> f = sensor_log_search
    /\ \A f \in Callable : f.name = "sensor_log_erase" <=> f = sensor_log_erase
    /\ \A f \in Callable : f.name = "sensor_log_count_record" <=> f = sensor_log_count_record
    /\ \A f \in Callable : f.name = "sensor_log_extract" <=> f = sensor_log_extract
    /\ \A f \in Library : f \notin Ranged
    /\ sensor_log_extract \in Library /\ sensor_log_search # sensor_log_count_record
    /\ sensor_log_extract # sensor_log_count_record /\ sensor_log_search # sensor_log_erase
    /\ sensor_log_erase # sensor_log_count_record
    /\ None \notin Callable
  <1>1. /\ sensor_log_search.name = "sensor_log_search"
        /\ sensor_log_erase.name = "sensor_log_erase"
        /\ sensor_log_count_record.name = "sensor_log_count_record"
        /\ sensor_log_extract.name = "sensor_log_extract"
    BY SearchShape, EraseShape, CountShape, ExtractShape
  <1>2. \A f \in Library \ {sensor_log_extract} :
           f.name \notin {"sensor_log_search", "sensor_log_erase", "sensor_log_count_record",
                          "sensor_log_extract"}
    BY LibraryIsPlain DEF Plain
  <1>3. sensor_log_extract \in Library
    BY DEF Library
  <1>4. None \notin Callable
    BY LibraryAssumption DEF Callable
  <1> QED BY <1>1, <1>2, <1>3, <1>4 DEF Callable, Ranged

LEMMA Callables ==
    \A f \in Callable : /\ f.steps \in Seq(Steps)
                        /\ \A i \in 1 .. Len(f.steps) : Kind(f, i)
  <1> SUFFICES ASSUME NEW f \in Callable
               PROVE  /\ f.steps \in Seq(Steps)
                      /\ \A i \in 1 .. Len(f.steps) : Kind(f, i)
    OBVIOUS
  <1>1. f \in Library \ {sensor_log_extract} \/ f = sensor_log_extract \/ f = sensor_log_search
        \/ f = sensor_log_erase \/ f = sensor_log_count_record
    BY DEF Callable, Ranged
  <1>2. MAX_SENSOR_COUNT \in Nat /\ MAX_SENSOR_COUNT > 0
    BY DataLogAssumption
  <1>3. f.steps \in Seq({f.steps[i] : i \in DOMAIN f.steps})
    <2>1. CASE f \in Library \ {sensor_log_extract}
      BY <2>1, LibraryIsPlain DEF Plain
    <2>2. CASE f = sensor_log_extract
      BY <2>2, ExtractShape
    <2>3. CASE f = sensor_log_search
      BY <2>3, SearchShape
    <2>4. CASE f = sensor_log_erase
      BY <2>4, EraseShape
    <2>5. CASE f = sensor_log_count_record
      BY <2>5, CountShape
    <2> QED BY <1>1, <2>1, <2>2, <2>3, <2>4, <2>5
  <1>4. f.steps \in Seq(Steps)
    <2>1. {f.steps[i] : i \in DOMAIN f.steps} \subseteq Steps
      BY DEF Steps
    <2> HIDE DEF Steps
    <2> QED BY ONLY <1>3, <2>1, SeqMonotonic
  <1>5. ASSUME NEW i \in 1 .. Len(f.steps)
        PROVE  Kind(f, i)
    <2>1. CASE f \in Library \ {sensor_log_extract}
      BY <2>1, LibraryIsPlain DEF Plain, Kind
    <2>2. CASE f = sensor_log_extract
      <3>1. StampRead(f) = 1 /\ f \in Extracting
        BY <2>2 DEF StampRead, Extracting
      <3>2. CASE i = 1
        BY <2>2, <3>1, <3>2, ExtractShape DEF Kind
      <3>3. CASE i # 1
        <4>1. i - 1 \in 1 .. MAX_SENSOR_COUNT
          BY <1>2, <2>2, <3>3, ExtractShape
        <4>2. f.steps[(i - 1) + 1] = Step("value", "EXTRACTED_DATA", Sizeof.float, (i - 1) - 1)
          BY <2>2, <4>1, ExtractShape
        <4> QED BY <3>1, <4>1, <4>2 DEF Kind
      <3> QED BY <3>2, <3>3
    <2>3. CASE f = sensor_log_search
      <3>1. i = 1 \/ i = 2 \/ i = 3 \/ i = 4 \/ i = 5
        BY <2>3, SearchShape
      <3> QED BY <2>3, <3>1, SearchShape DEF Kind, Op, RegOf, Ranged, RangeRegisters
    <2>4. CASE f = sensor_log_erase
      <3>1. i = 1 \/ i = 2 \/ i = 3
        BY <2>4, EraseShape
      <3> QED BY <2>4, <3>1, EraseShape DEF Kind, Op, RegOf, Ranged
    <2>5. CASE f = sensor_log_count_record
      <3>1. StampRead(f) = 7 /\ f \in Extracting /\ f \in Ranged
        BY <2>5, Names DEF StampRead, Extracting, Ranged
      <3>2. CASE i \in 1 .. 5
        <4>1. i = 1 \/ i = 2 \/ i = 3 \/ i = 4 \/ i = 5
          BY <3>2
        <4>2. f.steps[i] = sensor_log_search.steps[i]
          BY <2>5, <3>2, CountShape
        <4> QED BY <2>5, <3>1, <4>1, <4>2, SearchShape DEF Kind, Op, RegOf, RangeRegisters
      <3>3. CASE i = 6
        BY <2>5, <3>3, CountShape DEF Kind
      <3>4. CASE i = 7
        BY <2>5, <3>1, <3>4, CountShape DEF Kind
      <3>5. CASE i - 7 \in 1 .. MAX_SENSOR_COUNT
        <4>1. f.steps[(i - 7) + 7] = Step("value", "EXTRACTED_DATA", Sizeof.float, (i - 7) - 1)
          BY <2>5, <3>5, CountShape
        <4> QED BY <3>1, <3>5, <4>1 DEF Kind
      <3>6. CASE i = MAX_SENSOR_COUNT + 8
        BY <2>5, <3>6, CountShape DEF Kind
      <3>7. i \in 1 .. MAX_SENSOR_COUNT + 8
        BY <2>5, CountShape
      <3> QED BY <1>2, <3>2, <3>3, <3>4, <3>5, <3>6, <3>7
    <2> QED BY <1>1, <2>1, <2>2, <2>3, <2>4, <2>5
  <1> QED BY <1>4, <1>5

-----------------------------------------------------------------------------
(* Where a client is in its function                                       *)

LEMMA Difference ==
    ASSUME NEW a \in Nat, NEW b \in Nat, b <= a
    PROVE  a - b \in 0 .. a /\ b = a - (a - b) /\ (b = 0 <=> a - b = a)
  OBVIOUS

LEMMA PlaceOf ==
    ASSUME NEW f \in Callable, NEW t \in Seq(Steps), Len(t) <= Len(f.steps)
    PROVE  /\ f.steps \in Seq(Steps) /\ Len(f.steps) \in Nat
           /\ Len(f.steps) - Len(t) \in 0 .. Len(f.steps)
           /\ Len(t) = Len(f.steps) - (Len(f.steps) - Len(t))
           /\ t = <<>> <=> Len(f.steps) - Len(t) = Len(f.steps)
  <1>1. f.steps \in Seq(Steps)
    BY Callables
  <1>2. Len(t) \in Nat /\ Len(f.steps) \in Nat
    BY <1>1
  <1>3. t = <<>> <=> Len(t) = 0
    OBVIOUS
  <1>4. /\ Len(f.steps) - Len(t) \in 0 .. Len(f.steps)
        /\ Len(t) = Len(f.steps) - (Len(f.steps) - Len(t))
        /\ Len(t) = 0 <=> Len(f.steps) - Len(t) = Len(f.steps)
    BY ONLY <1>2, Difference, Len(t) <= Len(f.steps)
  <1> QED BY <1>1, <1>2, <1>3, <1>4

LEMMA UpcomingOf ==
    ASSUME NEW f \in Callable, NEW t \in Seq(Steps), Len(t) <= Len(f.steps), t # <<>>,
           \A i \in 1 .. Len(t) : t[i] = f.steps[(Len(f.steps) - Len(t)) + i]
    PROVE  /\ (Len(f.steps) - Len(t)) + 1 \in 1 .. Len(f.steps)
           /\ Head(t) = f.steps[(Len(f.steps) - Len(t)) + 1]
           /\ Head(t) \in Steps /\ Kind(f, (Len(f.steps) - Len(t)) + 1)
  <1>1. Len(t) \in Nat /\ Len(t) >= 1 /\ Head(t) = t[1] /\ Head(t) \in Steps
    OBVIOUS
  <1>2. (Len(f.steps) - Len(t)) + 1 \in 1 .. Len(f.steps)
    BY <1>1, PlaceOf
  <1> QED BY <1>1, <1>2, Callables

LEMMA Place ==
    ASSUME NEW c \in Client, Positioned(c), call[c] # None
    PROVE  /\ call[c] \in Callable /\ call[c].steps \in Seq(Steps)
           /\ Len(call[c].steps) \in Nat
           /\ Behind(c) \in 0 .. Len(call[c].steps)
           /\ Len(todo[c]) = Len(call[c].steps) - Behind(c)
           /\ todo[c] = <<>> <=> Behind(c) = Len(call[c].steps)
  <1>1. call[c] \in Callable /\ todo[c] \in Seq(Steps) /\ Len(todo[c]) <= Len(call[c].steps)
    BY DEF Positioned
  <1> QED BY ONLY <1>1, PlaceOf DEF Behind

LEMMA PlacePrimed ==
    ASSUME NEW c \in Client, Positioned(c)', call'[c] # None
    PROVE  /\ call'[c] \in Callable /\ Len(call'[c].steps) \in Nat
           /\ Behind(c)' \in 0 .. Len(call'[c].steps)
           /\ todo'[c] = <<>> <=> Behind(c)' = Len(call'[c].steps)
  <1>1. /\ call'[c] \in Callable /\ todo'[c] \in Seq(Steps)
        /\ Len(todo'[c]) <= Len(call'[c].steps)
    BY DEF Positioned
  <1> QED BY ONLY <1>1, PlaceOf DEF Behind

LEMMA Upcoming ==
    ASSUME NEW c \in Client, Positioned(c), Busy(c)
    PROVE  /\ call[c] # None /\ call[c] \in Callable
           /\ Behind(c) + 1 \in 1 .. Len(call[c].steps)
           /\ NextStep(c) = call[c].steps[Behind(c) + 1]
           /\ NextStep(c) \in Steps /\ Kind(call[c], Behind(c) + 1)
  <1>1. call[c] # None
    BY DEF Positioned, Busy
  <1>2. /\ call[c] \in Callable /\ todo[c] \in Seq(Steps)
        /\ Len(todo[c]) <= Len(call[c].steps) /\ todo[c] # <<>>
        /\ \A i \in 1 .. Len(todo[c]) :
              todo[c][i] = call[c].steps[(Len(call[c].steps) - Len(todo[c])) + i]
    BY <1>1 DEF Positioned, Busy, Behind
  <1> QED BY ONLY <1>1, <1>2, UpcomingOf DEF Behind, NextStep

LEMMA UpcomingPrimed ==
    ASSUME NEW c \in Client, Positioned(c)', Busy(c)'
    PROVE  /\ call'[c] # None /\ call'[c] \in Callable
           /\ Behind(c)' + 1 \in 1 .. Len(call'[c].steps)
           /\ NextStep(c)' = call'[c].steps[Behind(c)' + 1]
           /\ Kind(call'[c], Behind(c)' + 1)
  <1>1. call'[c] # None
    BY DEF Positioned, Busy
  <1>2. /\ call'[c] \in Callable /\ todo'[c] \in Seq(Steps)
        /\ Len(todo'[c]) <= Len(call'[c].steps) /\ todo'[c] # <<>>
        /\ \A i \in 1 .. Len(todo'[c]) :
              todo'[c][i] = call'[c].steps[(Len(call'[c].steps) - Len(todo'[c])) + i]
    BY <1>1 DEF Positioned, Busy, Behind
  <1> QED BY ONLY <1>1, <1>2, UpcomingOf DEF Behind, NextStep

\* What is left after k steps.
LEMMA Moved ==
    ASSUME NEW c \in Client, NEW k, call'[c] \in Callable, k \in 0 .. Len(call'[c].steps),
           todo'[c] \in Seq(Steps), Len(todo'[c]) = Len(call'[c].steps) - k,
           \A i \in 1 .. Len(todo'[c]) : todo'[c][i] = call'[c].steps[k + i],
           retried'[c] => call'[c] = sensor_log_search,
           Busy(c)' /\ call'[c] \in Extracting => ret'[c] = "E_OK"
    PROVE  Positioned(c)' /\ Behind(c)' = k
  <1>1. call'[c] # None /\ call'[c].steps \in Seq(Steps)
    BY Names, Callables
  <1>2. Len(call'[c].steps) \in Nat /\ k \in Nat
    BY <1>1
  <1>3. Behind(c)' = k
    BY <1>2 DEF Behind
  <1>4. Len(todo'[c]) <= Len(call'[c].steps)
    BY <1>2
  <1> QED BY <1>1, <1>3, <1>4 DEF Positioned

\* The next step is made.
LEMMA Advances ==
    ASSUME NEW c \in Client, Positioned(c), Busy(c), todo'[c] = Tail(todo[c]),
           UNCHANGED <<call, retried>>,
           call[c] \in Extracting => ret'[c] = ret[c]
    PROVE  Positioned(c)' /\ Behind(c)' = Behind(c) + 1
  <1>1. call[c] # None
    BY DEF Positioned, Busy
  <1>2. /\ todo[c] \in Seq(Steps) /\ todo[c] # <<>>
        /\ \A i \in 1 .. Len(todo[c]) : todo[c][i] = call[c].steps[Behind(c) + i]
    BY <1>1 DEF Positioned, Busy
  <1>3. /\ todo'[c] \in Seq(Steps) /\ Len(todo'[c]) = Len(todo[c]) - 1
        /\ \A i \in 1 .. Len(todo[c]) - 1 : todo'[c][i] = todo[c][i + 1]
    BY <1>2
  <1>4. /\ call[c] \in Callable /\ call[c].steps \in Seq(Steps)
        /\ Behind(c) \in 0 .. Len(call[c].steps)
        /\ Len(todo[c]) = Len(call[c].steps) - Behind(c)
    BY <1>1, Place
  <1>5. Len(todo[c]) \in Nat /\ Len(todo[c]) >= 1 /\ Len(call[c].steps) \in Nat
    BY <1>2, <1>4
  <1>6. Behind(c) + 1 \in 0 .. Len(call[c].steps)
        /\ Len(todo'[c]) = Len(call[c].steps) - (Behind(c) + 1)
    BY <1>3, <1>4, <1>5
  <1>7. ASSUME NEW i \in 1 .. Len(todo'[c])
        PROVE  todo'[c][i] = call[c].steps[(Behind(c) + 1) + i]
    <2>1. i + 1 \in 1 .. Len(todo[c]) /\ i \in 1 .. Len(todo[c]) - 1
      BY <1>3, <1>5
    <2>2. todo'[c][i] = call[c].steps[Behind(c) + (i + 1)]
      BY <1>2, <1>3, <2>1
    <2>3. Behind(c) + (i + 1) = (Behind(c) + 1) + i
      BY <1>4
    <2> QED BY <2>2, <2>3
  <1>8. /\ retried'[c] => call'[c] = sensor_log_search
        /\ Busy(c)' /\ call'[c] \in Extracting => ret'[c] = "E_OK"
    BY <1>1 DEF Positioned
  <1> QED BY <1>3, <1>4, <1>6, <1>7, <1>8, Moved

\* The function ends.
LEMMA Ends ==
    ASSUME NEW c \in Client, Positioned(c), call[c] # None, todo'[c] = <<>>,
           UNCHANGED <<call, retried>>
    PROVE  /\ Positioned(c)' /\ Behind(c)' = Len(call[c].steps) /\ ~Busy(c)'
           /\ Len(call[c].steps) \in Nat
  <1>1. /\ call[c] \in Callable /\ call[c].steps \in Seq(Steps)
        /\ Len(call[c].steps) \in Nat
    BY Place
  <1>2. todo'[c] \in Seq(Steps) /\ Len(todo'[c]) = 0
    OBVIOUS
  <1>3. retried'[c] => call'[c] = sensor_log_search
    BY DEF Positioned
  <1>4. ~Busy(c)'
    BY DEF Busy
  <1> DEFINE k == Len(call'[c].steps)
  <1>5. /\ call'[c] \in Callable /\ k \in 0 .. Len(call'[c].steps)
        /\ Len(todo'[c]) = Len(call'[c].steps) - k
        /\ \A i \in 1 .. Len(todo'[c]) : todo'[c][i] = call'[c].steps[k + i]
    BY <1>1, <1>2
  <1>6. Positioned(c)' /\ Behind(c)' = k
    <2> HIDE DEF k
    <2> QED BY <1>2, <1>3, <1>4, <1>5, Moved
  <1> QED BY <1>1, <1>4, <1>6

\* Only a function without a range changes bits, those it has read before.
LEMMA ModifyIsPlain ==
    ASSUME NEW c \in Client, Positioned(c), Busy(c), NextStep(c).op = "modify"
    PROVE  /\ call[c] # None /\ call[c] \in Library \ {sensor_log_extract}
           /\ ReadBefore(call[c], Behind(c) + 1) /\ WrittenLast(call[c], Behind(c) + 1)
           /\ NextStep(c).reg \in DOMAIN BitsOf /\ NextStep(c).reg \in DOMAIN Defaults
  <1> DEFINE k == Behind(c) + 1
  <1>1. call[c] # None /\ NextStep(c) = call[c].steps[k] /\ Kind(call[c], k)
    BY Upcoming
  <1> HIDE DEF k
  <1>2. call[c] \in Library \ {sensor_log_extract} /\ PlainStep(call[c], k)
    BY <1>1 DEF Kind, Trigger, Write, Next1, Stamp, Again, Step
  <1>3. ReadBefore(call[c], k) /\ WrittenLast(call[c], k)
    BY <1>1, <1>2 DEF PlainStep
  <1>4. NextStep(c).reg \in DOMAIN BitsOf
    BY <1>1, <1>3 DEF ReadBefore
  <1>5. NextStep(c).reg \in DOMAIN Defaults
    BY <1>4 DEF BitsOf, Defaults
  <1> QED BY <1>1, <1>2, <1>3, <1>4, <1>5 DEF k

-----------------------------------------------------------------------------
(* What a write does to the probe                                          *)

\* What is outside of the set S is as before.
Kept(S) ==
    /\ \A r \in DOMAIN Defaults \ S : reg'[r] = reg[r]
    /\ "EXTRACTED" \notin S => extracted' = extracted /\ found' = found

\* What the step s of client c writes is of the type of the register.
Writable(c, s) ==
    \/ s.op = "write" /\ s.reg = "TRIGGER_REQUESTS" /\ s.arg \in Commanded
    \/ s.op = "write" /\ s.reg # "TRIGGER_REQUESTS" /\ WellTyped(s)
    \/ s.op = "modify" /\ s.reg \in DOMAIN BitsOf /\ s.arg.set \subseteq BitsOf[s.reg]
       /\ got[c] \subseteq BitsOf[s.reg]
    \/ s.op = "writetime" /\ s.reg \in RangeRegisters /\ var[c] \in [START : Times, END : Times]

LEMMA LogTimesInRange == LogTimes \subseteq 1 .. 6 /\ LogTimes \subseteq Times
                         /\ LogTimes \subseteq Nat /\ LOG_TIME_EOF \notin LogTimes
  BY DataLogAssumption DEF LOG_TIME_FIRST_FOUND, LOG_TIME_LAST_FOUND, LOG_TIME_EOF, Times

LEMMA DefaultsTyped ==
    /\ Defaults.SYSTEM_CONTROL \subseteq SystemBits
    /\ Defaults.INTERRUPT_CONTROL \subseteq InterruptBits
    /\ Defaults.EXTRACT_START_TIME \in Times /\ Defaults.EXTRACT_END_TIME \in Times
  BY DEF Defaults, SystemBits, InterruptBits, Times, LOG_TIME_FIRST_FOUND, LOG_TIME_LAST_FOUND,
         LOG_TIME_EOF

\* A set of times has an earliest and a latest one.
LEMMA EarliestExists ==
    ASSUME NEW S \in SUBSET LogTimes, S # {}
    PROVE  \E t \in S : \A u \in S : t <= u
  <1>0. S \subseteq 1 .. 6
    BY LogTimesInRange
  <1>1. CASE 1 \in S
    BY <1>0, <1>1
  <1>2. CASE 1 \notin S /\ 2 \in S
    BY <1>0, <1>2
  <1>3. CASE 1 \notin S /\ 2 \notin S /\ 3 \in S
    BY <1>0, <1>3
  <1>4. CASE 1 \notin S /\ 2 \notin S /\ 3 \notin S /\ 4 \in S
    BY <1>0, <1>4
  <1>5. CASE 1 \notin S /\ 2 \notin S /\ 3 \notin S /\ 4 \notin S /\ 5 \in S
    BY <1>0, <1>5
  <1>6. CASE \A i \in 1 .. 5 : i \notin S
    <2>1. \A t \in S : t = 6
      BY <1>0, <1>6
    <2> QED BY <2>1
  <1>7. (\A i \in 1 .. 5 : i \notin S) \/ \E i \in 1 .. 5 : i \in S
    OBVIOUS
  <1> QED BY <1>1, <1>2, <1>3, <1>4, <1>5, <1>6, <1>7

LEMMA LatestExists ==
    ASSUME NEW S \in SUBSET LogTimes, S # {}
    PROVE  \E t \in S : \A u \in S : u <= t
  <1>0. S \subseteq 1 .. 6
    BY LogTimesInRange
  <1>1. CASE 6 \in S
    BY <1>0, <1>1
  <1>2. CASE 6 \notin S /\ 5 \in S
    BY <1>0, <1>2
  <1>3. CASE 6 \notin S /\ 5 \notin S /\ 4 \in S
    BY <1>0, <1>3
  <1>4. CASE 6 \notin S /\ 5 \notin S /\ 4 \notin S /\ 3 \in S
    BY <1>0, <1>4
  <1>5. CASE 6 \notin S /\ 5 \notin S /\ 4 \notin S /\ 3 \notin S /\ 2 \in S
    BY <1>0, <1>5
  <1>6. CASE \A i \in 2 .. 6 : i \notin S
    <2>1. \A t \in S : t = 1
      BY <1>0, <1>6
    <2> QED BY <2>1
  <1>7. (\A i \in 2 .. 6 : i \notin S) \/ \E i \in 2 .. 6 : i \in S
    OBVIOUS
  <1> QED BY <1>1, <1>2, <1>3, <1>4, <1>5, <1>6, <1>7

LEMMA EndsOfRange ==
    ASSUME NEW S \in SUBSET LogTimes, S # {}
    PROVE  Earliest(S) \in S /\ Latest(S) \in S
  BY EarliestExists, LatestExists DEF Earliest, Latest

LEMMA ReversedInTimes == \A t \in Times : Reversed(t) \in Times
  BY DEF Times, Reversed, Base, LOG_TIME_EOF

\* A write to a register of the configuration.
LEMMA RegisterWritten ==
    ASSUME NEW c \in Client, NEW s, Probe, Writable(c, s), s.reg # "TRIGGER_REQUESTS",
           Takes(c, s)
    PROVE  Probe' /\ Kept(Changed(s)) /\ now' = now /\ reg'[s.reg] = Written(c, s)
           /\ s.reg \in DOMAIN Defaults /\ log' = log
  <1>1. /\ reg' = [reg EXCEPT ![s.reg] = Written(c, s)]
        /\ UNCHANGED <<ready, log, now, found, extracted>>
    BY DEF Takes
  <1>2. DOMAIN reg = {"SYSTEM_CONTROL", "INTERRUPT_CONTROL", "EVENT_0_TIME_BASE",
                      "EVENT_1_TIME_BASE", "EXTRACT_START_TIME", "EXTRACT_END_TIME"}
    BY DEF Probe, Defaults
  <1>3. \/ s.reg \in DOMAIN BitsOf /\ Written(c, s) \subseteq BitsOf[s.reg]
        \/ s.reg \in RangeRegisters /\ Written(c, s) \in Times
        \/ s.reg \in {"EVENT_0_TIME_BASE", "EVENT_1_TIME_BASE"}
    <2>1. CASE s.op = "write"
      BY <2>1 DEF Writable, WellTyped, Written
    <2>2. CASE s.op = "modify"
      BY <2>2 DEF Writable, Written
    <2>3. CASE s.op = "writetime"
      BY <2>3 DEF Writable, Written, Bound
    <2> QED BY <2>1, <2>2, <2>3 DEF Writable
  <1>4. s.reg \in DOMAIN reg
    BY <1>2, <1>3 DEF BitsOf, RangeRegisters
  <1>5. /\ reg'[s.reg] = Written(c, s) /\ DOMAIN reg' = DOMAIN reg
        /\ \A r \in DOMAIN reg \ {s.reg} : reg'[r] = reg[r]
    BY <1>1, <1>4
  <1>6. /\ reg'.SYSTEM_CONTROL \subseteq SystemBits
        /\ reg'.INTERRUPT_CONTROL \subseteq InterruptBits
        /\ reg'.EXTRACT_START_TIME \in Times /\ reg'.EXTRACT_END_TIME \in Times
    <2>1. CASE s.reg = "SYSTEM_CONTROL"
      BY <1>2, <1>3, <1>5, <2>1 DEF Probe, BitsOf, RangeRegisters
    <2>2. CASE s.reg = "INTERRUPT_CONTROL"
      BY <1>2, <1>3, <1>5, <2>2 DEF Probe, BitsOf, RangeRegisters
    <2>3. CASE s.reg \in RangeRegisters
      BY <1>2, <1>3, <1>5, <2>3 DEF Probe, BitsOf, RangeRegisters
    <2>4. CASE s.reg \in {"EVENT_0_TIME_BASE", "EVENT_1_TIME_BASE"}
      BY <1>2, <1>5, <2>4 DEF Probe
    <2> QED BY <1>2, <1>4, <2>1, <2>2, <2>3, <2>4 DEF RangeRegisters
  <1>7. Probe'
    BY <1>1, <1>5, <1>6 DEF Probe
  <1>8. Kept(Changed(s))
    BY <1>1, <1>5 DEF Kept, Changed, Probe
  <1> QED BY <1>1, <1>4, <1>5, <1>7, <1>8 DEF Probe

\* A command to the probe.
LEMMA CommandTaken ==
    ASSUME NEW c \in Client, NEW s, Probe, Writable(c, s), s.reg = "TRIGGER_REQUESTS",
           Takes(c, s)
    PROVE  Probe' /\ Kept(Changed(s)) /\ now' = now
  <1>1. Triggered(s.arg)
    BY DEF Takes
  <1>2. now \in Nat /\ found \in SUBSET LogTimes
    BY LogTimesInRange DEF Probe
  <1>3. CASE s.arg = "TRIGGER_EXTRACT" /\ Extract
    <2> DEFINE f == InRange(reg.EXTRACT_START_TIME, reg.EXTRACT_END_TIME)
    <2>1. f \subseteq log /\ f \in SUBSET LogTimes
      BY DEF InRange, Probe
    <2>2. /\ found' = f /\ UNCHANGED <<ready, log, now, extracted>>
          /\ reg' = IF f = {} THEN reg
                    ELSE [reg EXCEPT !.EXTRACT_START_TIME = Earliest(f),
                                     !.EXTRACT_END_TIME = Latest(f)]
      BY <1>3 DEF Extract
    <2> HIDE DEF f
    <2>3. /\ DOMAIN reg' = DOMAIN reg
          /\ \A r \in DOMAIN reg \ {"EXTRACT_START_TIME", "EXTRACT_END_TIME"} : reg'[r] = reg[r]
      BY <2>2
    <2>4. reg'.EXTRACT_START_TIME \in Times /\ reg'.EXTRACT_END_TIME \in Times
      <3>1. CASE f = {}
        BY <2>2, <3>1 DEF Probe
      <3>2. CASE f # {}
        BY <2>1, <2>2, <3>2, EndsOfRange, LogTimesInRange DEF Probe, Defaults
      <3> QED BY <3>1, <3>2
    <2>5. Probe'
      BY <2>1, <2>2, <2>3, <2>4 DEF Probe, Defaults
    <2>6. Changed(s) = {"EXTRACTED", "EXTRACT_START_TIME", "EXTRACT_END_TIME"}
      BY <1>3 DEF Changed
    <2> QED BY <2>2, <2>3, <2>5, <2>6 DEF Kept, Probe
  <1>4. CASE s.arg = "TRIGGER_EXTRACT_NEXT" /\ ExtractNext
    <2>1. /\ extracted' = IF found = {} THEN LOG_TIME_EOF ELSE Earliest(found)
          /\ found' = found \ {extracted'} /\ UNCHANGED <<reg, ready, log, now>>
      BY <1>4 DEF ExtractNext
    <2>2. extracted' \in LogTimes \cup {LOG_TIME_EOF}
      BY <1>2, <2>1, EndsOfRange
    <2>3. Probe'
      BY <2>1, <2>2 DEF Probe
    <2>4. Changed(s) = {"EXTRACTED"}
      BY <1>4 DEF Changed
    <2> QED BY <2>1, <2>3, <2>4 DEF Kept
  <1>5. CASE s.arg = "TRIGGER_CLEAR_LOG" /\ ClearLog
    <2>1. /\ log' \subseteq log /\ found' = found \cap log'
          /\ UNCHANGED <<reg, ready, now, extracted>>
      BY <1>5 DEF ClearLog
    <2>2. Probe'
      BY <2>1 DEF Probe
    <2>3. Changed(s) = {"LOG", "EXTRACTED"}
      BY <1>5 DEF Changed
    <2> QED BY <2>1, <2>2, <2>3 DEF Kept
  <1>6. CASE s.arg \in {"TRIGGER_DEVICE_RESET", "TRIGGER_FACTORY_RESET"} /\ Reset(s.arg)
    <2>1. /\ reg' = Defaults /\ ready' = FALSE /\ log' \subseteq log /\ found' = {}
          /\ extracted' = LOG_TIME_EOF /\ now' = now
      BY <1>6 DEF Reset
    <2>2. /\ DOMAIN reg' = DOMAIN Defaults
          /\ reg'.SYSTEM_CONTROL \subseteq SystemBits
          /\ reg'.INTERRUPT_CONTROL \subseteq InterruptBits
          /\ reg'.EXTRACT_START_TIME \in Times /\ reg'.EXTRACT_END_TIME \in Times
      BY <2>1, DefaultsTyped
    <2>3. log' \subseteq LogTimes /\ found' \subseteq LogTimes /\ ready' \in BOOLEAN
          /\ extracted' \in LogTimes \cup {LOG_TIME_EOF} /\ now' \in LogTimes
      BY <2>1 DEF Probe
    <2>4. \A t \in (log \cup found \cup LoggedBefore)' : t <= now'
      BY <2>1 DEF Probe
    <2>5. Probe'
      BY <2>2, <2>3, <2>4 DEF Probe
    <2>6. Changed(s) = Everything
      BY <1>6 DEF Changed
    <2> QED BY <2>1, <2>5, <2>6 DEF Kept, Everything
  <1>7. CASE s.arg = "TRIGGER_PASSWORD_RESET" /\ ready' = FALSE
             /\ UNCHANGED <<reg, log, now, found, extracted>>
    BY <1>7 DEF Probe, Kept
  <1> QED BY <1>1, <1>3, <1>4, <1>5, <1>6, <1>7 DEF Triggered

LEMMA Taken ==
    ASSUME NEW c \in Client, NEW s, Probe, Writable(c, s), Takes(c, s)
    PROVE  Probe' /\ Kept(Changed(s)) /\ now' = now
  BY RegisterWritten, CommandTaken

-----------------------------------------------------------------------------
(* A client in the steps of the others                                     *)

\* What client d sees of a step that is not its own.
Environment(d) ==
    /\ call'[d] = call[d] /\ todo'[d] = todo[d] /\ ret'[d] = ret[d] /\ got'[d] = got[d]
    /\ var'[d] = var[d] /\ record'[d] = record[d] /\ cnt'[d] = cnt[d] /\ asked'[d] = asked[d]
    /\ retried'[d] = retried[d] /\ inRange'[d] = inRange[d]
    /\ dirty[d] \subseteq dirty'[d] /\ dirty'[d] \subseteq Everything
    /\ now <= now'
    /\ call[d] # None =>
          /\ \A r \in DOMAIN Defaults \ dirty'[d] : reg'[r] = reg[r]
          /\ "EXTRACTED" \notin dirty'[d] =>
                /\ extracted' = extracted
                /\ found' = found \/ (now < now' /\ found' = found \cup {now'})

LEMMA OthersKeep ==
    ASSUME NEW d \in Client, Probe, Probe', ClientInv(d), Environment(d)
    PROVE  ClientInv(d)'
  <1>1. /\ call'[d] = call[d] /\ todo'[d] = todo[d] /\ ret'[d] = ret[d] /\ got'[d] = got[d]
        /\ var'[d] = var[d] /\ record'[d] = record[d] /\ cnt'[d] = cnt[d]
        /\ asked'[d] = asked[d] /\ retried'[d] = retried[d] /\ inRange'[d] = inRange[d]
        /\ dirty[d] \subseteq dirty'[d] /\ dirty'[d] \subseteq Everything /\ now <= now'
    BY DEF Environment
  <1>2. /\ call[d] # None => \A r \in DOMAIN Defaults \ dirty'[d] : reg'[r] = reg[r]
        /\ call[d] # None /\ "EXTRACTED" \notin dirty'[d] =>
                /\ extracted' = extracted
                /\ found' = found \/ (now < now' /\ found' = found \cup {now'})
    BY DEF Environment
  <1>3. Behind(d)' = Behind(d) /\ (Busy(d)' <=> Busy(d)) /\ NextStep(d)' = NextStep(d)
    BY <1>1 DEF Behind, Busy, NextStep
  <1>4. now \in Nat /\ now' \in Nat /\ \A t \in LogTimes : t \in Nat
    BY LogTimesInRange DEF Probe
  <1>5. Locals(d)'
    <2>1. inRange'[d] \subseteq {t \in LogTimes : t <= now'}
      BY <1>1, <1>4 DEF ClientInv, Locals
    <2> QED BY <1>1, <2>1 DEF ClientInv, Locals
  <1>6. Positioned(d)'
    <2>1. Positioned(d)
      BY DEF ClientInv
    <2>2. CASE call[d] = None
      BY <1>1, <2>1, <2>2 DEF Positioned
    <2>3. CASE call[d] # None
      BY <1>1, <1>3, <2>1, <2>3 DEF Positioned
    <2> QED BY <2>2, <2>3
  <1>7. Done(d)'
    <2> SUFFICES ASSUME call[d] # None, ret[d] = "E_OK", NEW i \in 1 .. Behind(d)
                 PROVE  Holds(call[d].steps[i], d)'
      BY <1>1, <1>3 DEF Done
    <2> DEFINE s == call[d].steps[i]
    <2>1. Holds(s, d)
      BY DEF ClientInv, Done
    <2>2. s.reg \in DOMAIN Defaults \ dirty'[d] => reg'[s.reg] = reg[s.reg]
      BY <1>2
    <2>3. call'[d].steps[i] = s
      BY <1>1
    <2> QED BY <1>1, <2>1, <2>2, <2>3 DEF Holds
  <1>8. Fresh(d)'
    <2> SUFFICES ASSUME Busy(d), NextStep(d).op = "modify"
                 PROVE  /\ got'[d] \subseteq BitsOf[NextStep(d).reg]
                        /\ NextStep(d).reg \notin dirty'[d] => got'[d] = reg'[NextStep(d).reg]
      BY <1>3 DEF Fresh
    <2>1. /\ got[d] \subseteq BitsOf[NextStep(d).reg]
          /\ NextStep(d).reg \notin dirty[d] => got[d] = reg[NextStep(d).reg]
      BY DEF ClientInv, Fresh
    <2>2. call[d] # None /\ NextStep(d).reg \in DOMAIN Defaults
      <3>1. Positioned(d)
        BY DEF ClientInv
      <3> QED BY <3>1, ModifyIsPlain
    <2> QED BY <1>1, <1>2, <2>1, <2>2
  <1>9. Asking(d)'
    <2> SUFFICES ASSUME call[d] \in Ranged, ~retried[d]
                 PROVE  Asking(d)'
      BY <1>1 DEF Asking
    <2>1. call[d] # None
      BY Names DEF Callable
    <2>2. \A r \in RangeRegisters : r \notin dirty'[d] => reg'[r] = reg[r]
      BY <1>2, <2>1 DEF RangeRegisters, Defaults
    <2>3. Asking(d)
      BY DEF ClientInv
    <2> QED BY <1>1, <1>3, <2>2, <2>3 DEF Asking, RangeRegisters
  <1>10. Whole(d)'
    <2> SUFFICES ASSUME call[d] \in Extracting, ret[d] = "E_OK", "EXTRACTED" \notin dirty'[d],
                        Behind(d) - StampRead(call[d]) \in 0 .. MAX_SENSOR_COUNT
                 PROVE  Whole(d)'
      BY <1>1, <1>3 DEF Whole
    <2>1. extracted' = extracted
      BY <1>2, Names DEF Extracting, Callable, Ranged
    <2>2. Whole(d) /\ "EXTRACTED" \notin dirty[d]
      BY <1>1 DEF ClientInv
    <2> QED BY <1>1, <1>3, <2>1, <2>2 DEF Whole
  <1>11. Counting(d)'
    <2> SUFFICES ASSUME call[d] = sensor_log_count_record, Undisturbed(d)'
                 PROVE  \E C \in SUBSET LogTimes : Counted(d, C)'
      BY <1>1 DEF Counting
    <2>1. Undisturbed(d) /\ "EXTRACTED" \notin dirty'[d]
      BY <1>1 DEF Undisturbed
    <2>2. PICK C \in SUBSET LogTimes : Counted(d, C)
      BY <2>1 DEF ClientInv, Counting
    <2>3. /\ extracted' = extracted
          /\ found' = found \/ (now < now' /\ found' = found \cup {now'})
      BY <1>2, <2>1, Names DEF Callable, Ranged
    <2>4. New \subseteq New'
      BY <1>1, <1>4 DEF New
    <2>5. CASE found' = found
      BY <1>1, <1>3, <2>2, <2>3, <2>4, <2>5 DEF Counted
    <2>6. CASE now < now' /\ found' = found \cup {now'}
      <3>1. now' \in New'
        <4>1. \A t \in LoggedBefore : t <= now
          BY DEF Probe
        <4>2. now' \notin LoggedBefore
          BY <1>4, <2>6, <4>1
        <4> QED BY <1>4, <4>2 DEF New, Probe
      <3>2. \A t \in inRange[d] \cup New \cup found : t <= now /\ t \in Nat
        BY LogTimesInRange DEF ClientInv, Locals, New, Probe
      <3>3. now' \notin inRange[d] \cup New \cup found
        BY <1>4, <2>6, <3>2
      <3> QED BY <1>1, <1>3, <2>2, <2>3, <2>4, <2>6, <3>1, <3>3 DEF Counted
    <2> QED BY <2>3, <2>5, <2>6
  <1> QED BY <1>5, <1>6, <1>7, <1>8, <1>9, <1>10, <1>11 DEF ClientInv

\* The variables of client d are as before, the history of what others wrote aside.
Untouched(d) ==
    /\ call'[d] = call[d] /\ todo'[d] = todo[d] /\ ret'[d] = ret[d] /\ got'[d] = got[d]
    /\ var'[d] = var[d] /\ record'[d] = record[d] /\ cnt'[d] = cnt[d] /\ asked'[d] = asked[d]
    /\ retried'[d] = retried[d] /\ inRange'[d] = inRange[d]

LEMMA ChangedIsKnown ==
    ASSUME NEW c, NEW s, Writable(c, s)
    PROVE  Changed(s) \subseteq Everything
  <1>1. s.reg # "TRIGGER_REQUESTS" => s.reg \in DOMAIN Defaults
    BY DEF Writable, WellTyped, BitsOf, RangeRegisters, Defaults
  <1>2. {"EXTRACTED", "EXTRACT_START_TIME", "EXTRACT_END_TIME", "LOG"} \subseteq Everything
    BY DEF Everything, Defaults
  <1> QED BY <1>1, <1>2 DEF Changed, Everything

\* A write of client c, for client d.
LEMMA TakenElsewhere ==
    ASSUME NEW c \in Client, NEW d \in Client, d # c, NEW s, Probe, Writable(c, s), Takes(c, s),
           dirty[d] \subseteq Everything, Untouched(d)
    PROVE  Environment(d)
  <1>1. dirty' = [e \in Client |-> IF e = c \/ call[e] = None THEN dirty[e]
                                   ELSE dirty[e] \cup Changed(s)]
    BY DEF Takes
  <1>2. Kept(Changed(s)) /\ now' = now /\ Changed(s) \subseteq Everything
    BY Taken, ChangedIsKnown
  <1>3. now <= now'
    BY <1>2, LogTimesInRange DEF Probe
  <1>4. dirty'[d] = IF call[d] = None THEN dirty[d] ELSE dirty[d] \cup Changed(s)
    BY <1>1
  <1>5. dirty[d] \subseteq dirty'[d] /\ dirty'[d] \subseteq Everything
    BY <1>2, <1>4
  <1>6. ASSUME call[d] # None
        PROVE  /\ \A r \in DOMAIN Defaults \ dirty'[d] : reg'[r] = reg[r]
               /\ "EXTRACTED" \notin dirty'[d] => extracted' = extracted /\ found' = found
    BY <1>2, <1>4, <1>6 DEF Kept
  <1> QED BY <1>3, <1>5, <1>6 DEF Environment, Untouched

\* A step of client c that leaves the probe alone, for client d.
LEMMA AloneElsewhere ==
    ASSUME NEW d \in Client, Probe, UNCHANGED probe, dirty'[d] = dirty[d],
           dirty[d] \subseteq Everything, Untouched(d)
    PROVE  Environment(d)
  <1>1. UNCHANGED <<reg, ready, log, now, found, extracted>>
    BY DEF probe
  <1>2. now <= now'
    BY <1>1, LogTimesInRange DEF Probe
  <1> QED BY <1>1, <1>2 DEF Environment, Untouched

-----------------------------------------------------------------------------
(* A client in its own steps                                               *)

\* A function that takes no range and extracts nothing.
LEMMA PlainKeeps ==
    ASSUME NEW c \in Client, call'[c] \in Library \ {sensor_log_extract},
           Locals(c)', Positioned(c)', Done(c)', Fresh(c)'
    PROVE  ClientInv(c)'
  <1>1. call'[c] \notin Ranged \cup Extracting
    BY Names DEF Ranged, Extracting
  <1>2. Asking(c)' /\ Whole(c)' /\ Counting(c)'
    BY <1>1 DEF Asking, Whole, Counting, Extracting
  <1> QED BY <1>2 DEF ClientInv

\* The other functions write the range and commands only.
LEMMA NotPlain ==
    ASSUME NEW f \in Ranged \cup Extracting, NEW i \in 1 .. Len(f.steps)
    PROVE  /\ f.steps[i].op \notin {"read", "modify", "poll"}
           /\ f.steps[i].op = "write" => f.steps[i].reg \notin DOMAIN Defaults
  <1>1. f \in Callable /\ f \notin Library \ {sensor_log_extract}
    BY Names DEF Callable, Ranged, Extracting
  <1>2. Kind(f, i)
    BY <1>1, Callables
  <1>3. \A command : /\ Trigger(command).op = "write"
                     /\ Trigger(command).reg = "TRIGGER_REQUESTS"
    BY DEF Trigger, Write, Step
  <1>4. "TRIGGER_REQUESTS" \notin DOMAIN Defaults
    BY DEF Defaults
  <1> QED BY <1>1, <1>2, <1>3, <1>4 DEF Kind, Next1, Stamp, Again, Step

LEMMA RangedKeeps ==
    ASSUME NEW c \in Client, call'[c] \in Ranged \cup Extracting,
           Locals(c)', Positioned(c)', Asking(c)', Whole(c)', Counting(c)'
    PROVE  ClientInv(c)'
  <1>1. call'[c] # None /\ call'[c] \in Callable
    BY Names DEF Ranged, Extracting, Callable
  <1>2. /\ Behind(c)' \in 0 .. Len(call'[c].steps) /\ Len(call'[c].steps) \in Nat
    BY <1>1, PlacePrimed
  <1>3. Done(c)'
    <2> SUFFICES ASSUME NEW i \in 1 .. Behind(c)'
                 PROVE  Holds(call[c].steps[i], c)'
      BY DEF Done
    <2>1. i \in 1 .. Len(call'[c].steps)
      BY <1>2
    <2>2. /\ call'[c].steps[i].op # "modify"
          /\ call'[c].steps[i].op = "write" => call'[c].steps[i].reg \notin DOMAIN Defaults
      BY <2>1, NotPlain
    <2> QED BY <2>2 DEF Holds
  <1>4. Fresh(c)'
    <2> SUFFICES ASSUME Busy(c)'
                 PROVE  NextStep(c)'.op # "modify"
      BY DEF Fresh
    <2>1. NextStep(c)' = call'[c].steps[Behind(c)' + 1] /\ Behind(c)' + 1 \in 1 .. Len(call'[c].steps)
      BY UpcomingPrimed
    <2> QED BY <2>1, NotPlain
  <1> QED BY <1>3, <1>4 DEF ClientInv

\* An access that fails or is refused ends the function.
LEMMA FailsKeeps ==
    ASSUME NEW c \in Client, ClientInv(c), Busy(c), UNCHANGED <<call, asked, retried>>,
           dirty'[c] = dirty[c], cnt'[c] = cnt[c], now' = now,
           inRange'[c] = inRange[c] \/ Behind(c) = 2,
           todo'[c] = <<>>, ret'[c] # "E_OK", Locals(c)'
    PROVE  ClientInv(c)'
  <1>1. Positioned(c) /\ call[c] # None
    BY Upcoming DEF ClientInv
  <1>2. /\ Positioned(c)' /\ Behind(c)' = Len(call[c].steps) /\ ~Busy(c)'
    BY <1>1, Ends
  <1>3. Done(c)' /\ Fresh(c)' /\ Whole(c)'
    BY <1>2 DEF Done, Fresh, Whole
  <1>4. MAX_SENSOR_COUNT \in Nat /\ MAX_SENSOR_COUNT > 0
    BY DataLogAssumption
  <1>5. Asking(c)'
    <2>1. ASSUME call[c] \in Ranged
          PROVE  Behind(c)' \notin {0, 1, 2}
      <3>1. CASE call[c] = sensor_log_search
        BY <1>2, <3>1, SearchShape
      <3>2. CASE call[c] = sensor_log_erase
        BY <1>2, <3>2, EraseShape
      <3>3. CASE call[c] = sensor_log_count_record
        <4>1. Behind(c)' = MAX_SENSOR_COUNT + 8
          BY <1>2, <3>3, CountShape
        <4>2. MAX_SENSOR_COUNT + 8 \notin {0, 1, 2}
          BY <1>4
        <4> QED BY <4>1, <4>2
      <3> QED BY <2>1, <3>1, <3>2, <3>3 DEF Ranged
    <2> QED BY <2>1 DEF Asking
  <1>6. Counting(c)'
    <2> SUFFICES ASSUME call[c] = sensor_log_count_record, Undisturbed(c)'
                 PROVE  \E C \in SUBSET LogTimes : Counted(c, C)'
      BY DEF Counting
    <2>1. Undisturbed(c)
      BY DEF Undisturbed
    <2>2. PICK C \in SUBSET LogTimes : Counted(c, C)
      BY <2>1 DEF ClientInv, Counting
    <2>3. Behind(c)' = MAX_SENSOR_COUNT + 8
      BY <1>2, CountShape
    <2>4. New' = New
      BY DEF New
    <2>5. cnt'[c] = Cardinality(C) /\ C \subseteq (inRange[c] \cup New)'
      <3>1. Behind(c) = 2 => C = {}
        BY <2>2 DEF Counted
      <3> QED BY <2>2, <2>4, <3>1 DEF Counted
    <2> HIDE DEF Counting
    <2> QED BY <1>4, <2>3, <2>5 DEF Counted
  <1> QED BY <1>2, <1>3, <1>5, <1>6 DEF ClientInv

\* A read of bits.
LEMMA ReadKeeps ==
    ASSUME NEW c \in Client, Probe, Tables, ClientInv(c), Busy(c), NextStep(c).op = "read",
           Finds(c, NextStep(c)), UNCHANGED <<probe, call, cnt, history>>
    PROVE  ClientInv(c)'
  <1> DEFINE s == NextStep(c)
             k == Behind(c) + 1
             f == call[c]
  <1>1. /\ Positioned(c) /\ f \in Callable /\ k \in 1 .. Len(f.steps) /\ s = f.steps[k]
        /\ Behind(c) \in Nat /\ k = Behind(c) + 1
    BY Upcoming, Place DEF ClientInv
  <1>2. f \in Library \ {sensor_log_extract}
    BY <1>1, NotPlain DEF Callable, Extracting
  <1>3. /\ got' = IF s.reg \in DOMAIN reg THEN [got EXCEPT ![c] = reg[s.reg]] ELSE got
        /\ todo'[c] = Tail(todo[c]) /\ UNCHANGED <<ret, var, record>>
    BY DEF Finds, Proceeds, Tables
  <1>4. UNCHANGED <<reg, now, call, cnt, dirty, asked, retried, inRange>>
    BY DEF probe, history
  <1>5. Positioned(c)' /\ Behind(c)' = k
    BY <1>1, <1>3, <1>4, Advances
  <1>6. Locals(c)'
    BY <1>3, <1>4 DEF ClientInv, Locals
  <1>7. Done(c)'
    <2> SUFFICES ASSUME ret[c] = "E_OK", NEW i \in 1 .. k
                 PROVE  Holds(f.steps[i], c)'
      BY <1>3, <1>4, <1>5 DEF Done
    <2>1. CASE i = k
      BY <1>1, <2>1 DEF Holds
    <2>2. CASE i \in 1 .. Behind(c)
      BY <1>1, <1>4, <2>2, Upcoming DEF ClientInv, Done, Holds
    <2> QED BY <1>1, <2>1, <2>2
  <1>8. Fresh(c)'
    <2> SUFFICES ASSUME Busy(c)', NextStep(c)'.op = "modify"
                 PROVE  /\ got'[c] \subseteq BitsOf[NextStep(c)'.reg]
                        /\ got'[c] = reg[NextStep(c)'.reg]
      BY <1>4 DEF Fresh
    <2> DEFINE t == f.steps[k + 1]
    <2>1. NextStep(c)' = t /\ Kind(f, k + 1) /\ k + 1 \in 1 .. Len(f.steps)
      BY <1>4, <1>5, UpcomingPrimed
    <2>2. ReadBefore(f, k + 1)
      BY <1>2, <2>1, LibraryIsPlain DEF Plain, PlainStep
    <2>3. f.steps[(k + 1) - 1].reg = t.reg /\ t.reg \in DOMAIN BitsOf
      BY <2>2 DEF ReadBefore
    <2>4. s.reg = t.reg
      BY <1>1, <2>3
    <2>5. t.reg \in DOMAIN reg /\ reg[t.reg] \subseteq BitsOf[t.reg]
      BY <2>3 DEF Probe, BitsOf, Defaults
    <2>6. got'[c] = reg[t.reg]
      BY <1>3, <2>4, <2>5 DEF Tables
    <2> QED BY <2>1, <2>5, <2>6
  <1> QED BY <1>2, <1>4, <1>5, <1>6, <1>7, <1>8, PlainKeeps

\* A look at the status.
LEMMA PollKeeps ==
    ASSUME NEW c \in Client, Probe, Tables, ClientInv(c), Busy(c), PollAccess(c),
           UNCHANGED call
    PROVE  ClientInv(c)'
  <1> DEFINE s == NextStep(c)
             k == Behind(c) + 1
             f == call[c]
  <1>1. /\ Positioned(c) /\ f \in Callable /\ k \in 1 .. Len(f.steps) /\ s = f.steps[k]
        /\ f # None
    BY Upcoming DEF ClientInv
  <1>2. s.op = "poll" /\ UNCHANGED <<probe, locals, history>>
    BY DEF PollAccess
  <1>3. UNCHANGED <<reg, now, got, var, record, cnt, dirty, asked, retried, inRange>>
    BY <1>2 DEF probe, locals, history
  <1>4. /\ todo'[c] = <<>> \/ todo'[c] = Tail(todo[c])
        /\ ret'[c] \in {"E_OK", "E_BUS_OPERATION"}
    BY DEF PollAccess, EndsWith, Tables
  <1>5. f \in Library \ {sensor_log_extract} /\ f \notin Extracting
    <2>1. f \in Library \ {sensor_log_extract}
      BY <1>1, <1>2, NotPlain DEF Callable, Extracting
    <2> QED BY <2>1, Names DEF Extracting, Ranged
  <1>6. \A i \in 1 .. Len(f.steps) : f.steps[i].op = "poll"
    <2>1. PlainStep(f, k)
      BY <1>1, <1>5, LibraryIsPlain DEF Plain
    <2> QED BY <1>1, <1>2, <2>1 DEF PlainStep
  <1>7. Positioned(c)'
    BY <1>1, <1>3, <1>4, <1>5, Advances, Ends
  <1>8. Locals(c)'
    BY <1>3, <1>4 DEF ClientInv, Locals
  <1>9. Done(c)'
    <2> SUFFICES ASSUME NEW i \in 1 .. Behind(c)'
                 PROVE  Holds(f.steps[i], c)'
      BY DEF Done
    <2>1. i \in 1 .. Len(f.steps)
      BY <1>1, <1>7, PlacePrimed
    <2> QED BY <1>6, <2>1 DEF Holds
  <1>10. Fresh(c)'
    <2> SUFFICES ASSUME Busy(c)'
                 PROVE  NextStep(c)'.op # "modify"
      BY DEF Fresh
    <2>1. NextStep(c)' = f.steps[Behind(c)' + 1] /\ Behind(c)' + 1 \in 1 .. Len(f.steps)
      BY <1>7, UpcomingPrimed
    <2> QED BY <1>6, <2>1
  <1> QED BY <1>5, <1>7, <1>8, <1>9, <1>10, PlainKeeps

\* A write to the configuration that is taken.
LEMMA WriteKeeps ==
    ASSUME NEW c \in Client, Probe, Tables, ClientInv(c), Busy(c),
           call[c] \in Library \ {sensor_log_extract},
           NextStep(c).op \in {"write", "modify"},
           Kept(Changed(NextStep(c))),
           NextStep(c).reg \in DOMAIN Defaults =>
              reg'[NextStep(c).reg] = Written(c, NextStep(c)),
           UNCHANGED <<now, call, asked, retried, var, record, cnt, inRange>>,
           dirty'[c] = dirty[c], Proceeds(c)
    PROVE  ClientInv(c)'
  <1> DEFINE s == NextStep(c)
             k == Behind(c) + 1
             f == call[c]
  <1>1. /\ Positioned(c) /\ f \in Callable /\ k \in 1 .. Len(f.steps) /\ s = f.steps[k]
        /\ Behind(c) \in Nat /\ k = Behind(c) + 1
    BY Upcoming, Place DEF ClientInv
  <1>2. todo'[c] = Tail(todo[c]) /\ UNCHANGED ret
    BY DEF Proceeds, Tables
  <1>3. Positioned(c)' /\ Behind(c)' = k
    BY <1>1, <1>2, Advances
  <1>4. Locals(c)'
    BY <1>2 DEF ClientInv, Locals
  <1>5. \A i \in 1 .. Len(f.steps) : PlainStep(f, i)
    BY LibraryIsPlain DEF Plain
  <1>6. Done(c)'
    <2> SUFFICES ASSUME ret[c] = "E_OK", NEW i \in 1 .. k
                 PROVE  Holds(f.steps[i], c)'
      BY <1>2, <1>3 DEF Done
    <2>1. CASE i = k
      <3>1. CASE s.op = "write"
        BY <1>1, <2>1, <3>1 DEF Holds, Written
      <3>2. CASE s.op = "modify"
        <4>1. s.arg.set \cap s.arg.clear = {}
          BY <1>1, <1>5, <3>2 DEF PlainStep, ReadBefore
        <4>2. s.reg \in DOMAIN Defaults => reg'[s.reg] = (got[c] \ s.arg.clear) \cup s.arg.set
          BY <3>2 DEF Written
        <4> QED BY <1>1, <2>1, <3>2, <4>1, <4>2 DEF Holds
      <3> QED BY <3>1, <3>2
    <2>2. CASE i \in 1 .. Behind(c)
      <3> DEFINE t == f.steps[i]
      <3>1. Holds(t, c)
        BY <2>2, Upcoming DEF ClientInv, Done
      <3>2. i \in 1 .. Len(f.steps) /\ k \in i + 1 .. Len(f.steps)
        BY <1>1, <2>2
      <3>3. CASE t.op \notin {"write", "modify"}
        BY <3>3 DEF Holds
      <3>4. CASE t.op \in {"write", "modify"}
        <4>1. WrittenLast(f, i)
          BY <1>5, <3>2, <3>4 DEF PlainStep
        <4>2. t.reg \notin Changed(s)
          BY <1>1, <3>2, <4>1 DEF WrittenLast
        <4>3. t.reg \in DOMAIN Defaults => reg'[t.reg] = reg[t.reg]
          BY <4>2 DEF Kept
        <4> QED BY <3>1, <4>3 DEF Holds
      <3> QED BY <3>3, <3>4
    <2> QED BY <1>1, <2>1, <2>2
  <1>7. Fresh(c)'
    <2> SUFFICES ASSUME Busy(c)', NextStep(c)'.op = "modify"
                 PROVE  FALSE
      BY DEF Fresh
    <2>1. NextStep(c)' = f.steps[k + 1] /\ k + 1 \in 1 .. Len(f.steps)
      BY <1>3, UpcomingPrimed
    <2>2. f.steps[(k + 1) - 1].op = "read"
      BY <1>5, <2>1 DEF PlainStep, ReadBefore
    <2> QED BY <1>1, <2>2
  <1> QED BY <1>3, <1>4, <1>6, <1>7, PlainKeeps

-----------------------------------------------------------------------------
(* Searches, erasures and counts                                           *)

LEMMA RangedPlace ==
    ASSUME NEW c \in Client, Positioned(c), Busy(c), call[c] \in Ranged \cup Extracting
    PROVE  LET f == call[c]  s == NextStep(c)  k == Behind(c) IN
           \/ f \in Ranged /\ k = 0 /\ s.op = "writetime" /\ s.reg = "EXTRACT_START_TIME"
           \/ f \in Ranged /\ k = 1 /\ s.op = "writetime" /\ s.reg = "EXTRACT_END_TIME"
           \/ f \in {sensor_log_search, sensor_log_count_record} /\ k = 2
              /\ s = Trigger("TRIGGER_EXTRACT")
           \/ f = sensor_log_erase /\ k = 2 /\ s = Trigger("TRIGGER_CLEAR_LOG")
           \/ f \in {sensor_log_search, sensor_log_count_record} /\ k \in {3, 4}
              /\ s.op = "readtime" /\ s.reg \in RangeRegisters
           \/ f = sensor_log_count_record /\ k = 5 /\ s = Next1
           \/ f \in Extracting /\ k = StampRead(f) - 1 /\ s = Stamp
           \/ f \in Extracting /\ k - StampRead(f) \in 0 .. MAX_SENSOR_COUNT - 1
              /\ s = Step("value", "EXTRACTED_DATA", Sizeof.float, k - StampRead(f))
           \/ f = sensor_log_count_record /\ k = MAX_SENSOR_COUNT + 7 /\ s = Again
  <1> DEFINE f == call[c]  s == NextStep(c)  k == Behind(c)
  <1>1. /\ s = f.steps[k + 1] /\ Kind(f, k + 1) /\ f # None
        /\ k \in 0 .. Len(f.steps) /\ Len(f.steps) \in Nat
    BY Upcoming, Place
  <1>2. f \notin Library \ {sensor_log_extract}
    BY Names DEF Ranged, Extracting
  <1>3. MAX_SENSOR_COUNT \in Nat /\ k \in Nat /\ StampRead(f) \in Nat
    BY <1>1, DataLogAssumption DEF StampRead
  <1>4. ASSUME (k + 1) - StampRead(f) \in 1 .. MAX_SENSOR_COUNT
        PROVE  /\ k - StampRead(f) \in 0 .. MAX_SENSOR_COUNT - 1
               /\ (k + 1) - StampRead(f) - 1 = k - StampRead(f)
    BY <1>3, <1>4
  <1>5. /\ k + 1 = 1 => k = 0
        /\ k + 1 = 2 => k = 1
        /\ k + 1 = 3 => k = 2
        /\ k + 1 \in {4, 5} => k \in {3, 4}
        /\ k + 1 = 6 => k = 5
        /\ k + 1 = StampRead(f) => k = StampRead(f) - 1
        /\ k + 1 = MAX_SENSOR_COUNT + 8 => k = MAX_SENSOR_COUNT + 7
    BY <1>3
  <1> HIDE DEF f, s, k
  <1>6. /\ \/ f \in Ranged /\ k + 1 = 1 /\ s.op = "writetime" /\ s.reg = "EXTRACT_START_TIME"
           \/ f \in Ranged /\ k + 1 = 2 /\ s.op = "writetime" /\ s.reg = "EXTRACT_END_TIME"
           \/ f \in {sensor_log_search, sensor_log_count_record} /\ k + 1 = 3
              /\ s = Trigger("TRIGGER_EXTRACT")
           \/ f = sensor_log_erase /\ k + 1 = 3 /\ s = Trigger("TRIGGER_CLEAR_LOG")
           \/ f \in {sensor_log_search, sensor_log_count_record} /\ k + 1 \in {4, 5}
              /\ s.op = "readtime" /\ s.reg \in RangeRegisters
           \/ f = sensor_log_count_record /\ k + 1 = 6 /\ s = Next1
           \/ f \in Extracting /\ k + 1 = StampRead(f) /\ s = Stamp
           \/ f \in Extracting /\ (k + 1) - StampRead(f) \in 1 .. MAX_SENSOR_COUNT
              /\ s = Step("value", "EXTRACTED_DATA", Sizeof.float, (k + 1) - StampRead(f) - 1)
           \/ f = sensor_log_count_record /\ k + 1 = MAX_SENSOR_COUNT + 8 /\ s = Again
    BY <1>1, <1>2 DEF Kind
  <1> QED BY <1>4, <1>5, <1>6 DEF f, s, k

\* What follows the steps that write or read the range: nothing is asked any more.
LEMMA AskingOver ==
    ASSUME NEW c \in Client, Behind(c)' \notin {0, 1, 2}
    PROVE  Asking(c)'
  BY DEF Asking

\* Nothing has been read of a record before the seventh step of a count.
LEMMA NothingRead ==
    ASSUME NEW c \in Client, call'[c] \in Ranged, Behind(c)' \in 0 .. 6
    PROVE  Whole(c)'
  <1>1. call'[c] # sensor_log_extract
    BY Names
  <1>2. Behind(c)' - 7 \notin 0 .. MAX_SENSOR_COUNT
    BY DataLogAssumption
  <1> QED BY <1>1, <1>2 DEF Whole, StampRead

\* A time of the range is written.
LEMMA WriteTimeKeeps ==
    ASSUME NEW c \in Client, Probe, Tables, ClientInv(c), Busy(c), call[c] \in Ranged,
           \/ Behind(c) = 0 /\ NextStep(c).reg = "EXTRACT_START_TIME"
           \/ Behind(c) = 1 /\ NextStep(c).reg = "EXTRACT_END_TIME",
           reg'[NextStep(c).reg] = var[c][Bound(NextStep(c).reg)],
           \A r \in DOMAIN Defaults \ {NextStep(c).reg} : reg'[r] = reg[r],
           var' = [var EXCEPT ![c][Bound(NextStep(c).reg)] = Reversed(@)], Locals(c)',
           UNCHANGED <<now, call, asked, retried, cnt, inRange>>,
           dirty'[c] = dirty[c], Proceeds(c)
    PROVE  ClientInv(c)'
  <1>1. Positioned(c) /\ todo'[c] = Tail(todo[c]) /\ ret' = ret
    BY DEF ClientInv, Proceeds, Tables
  <1>2. Positioned(c)' /\ Behind(c)' = Behind(c) + 1
    BY <1>1, Advances
  <1>3. /\ "EXTRACT_START_TIME" \in DOMAIN Defaults /\ "EXTRACT_END_TIME" \in DOMAIN Defaults
        /\ DOMAIN var[c] = {"START", "END"}
    BY DEF Defaults, ClientInv, Locals
  <1>4. Asking(c)'
    <2> SUFFICES ASSUME ~retried[c]
                 PROVE  Asking(c)'
      BY DEF Asking
    <2>1. /\ Behind(c) = 0 => var[c].START = asked[c].START
          /\ Behind(c) \in {0, 1} => var[c].END = asked[c].END
          /\ Behind(c) \in {1, 2} /\ "EXTRACT_START_TIME" \notin dirty[c]
                => reg.EXTRACT_START_TIME = asked[c].START
      BY DEF ClientInv, Asking
    <2>2. CASE Behind(c) = 0 /\ NextStep(c).reg = "EXTRACT_START_TIME"
      <3>1. Behind(c)' = 1
        BY <1>2, <2>2
      <3>2. var'[c].END = var[c].END
        BY <1>3, <2>2 DEF Bound, Tables
      <3>3. reg'.EXTRACT_START_TIME = var[c].START
        BY <2>2 DEF Bound
      <3> QED BY <2>1, <2>2, <3>1, <3>2, <3>3 DEF Asking
    <2>3. CASE Behind(c) = 1 /\ NextStep(c).reg = "EXTRACT_END_TIME"
      <3>1. Behind(c)' = 2
        BY <1>2, <2>3
      <3>2. reg'.EXTRACT_START_TIME = reg.EXTRACT_START_TIME
        BY <1>3, <2>3
      <3>3. reg'.EXTRACT_END_TIME = var[c].END
        BY <2>3 DEF Bound
      <3> QED BY <2>1, <2>3, <3>1, <3>2, <3>3 DEF Asking
    <2> QED BY <2>2, <2>3
  <1>5. Whole(c)'
    BY <1>2, NothingRead
  <1>6. Counting(c)'
    <2> SUFFICES ASSUME call[c] = sensor_log_count_record, Undisturbed(c)'
                 PROVE  \E C \in SUBSET LogTimes : Counted(c, C)'
      BY DEF Counting
    <2>1. Undisturbed(c)
      BY DEF Undisturbed
    <2>2. PICK C \in SUBSET LogTimes : Counted(c, C)
      BY <2>1 DEF ClientInv, Counting
    <2>3. New' = New /\ Behind(c)' \in {1, 2} /\ MAX_SENSOR_COUNT \in Nat
      BY <1>2, DataLogAssumption DEF New
    <2>4. C = {}
      BY <2>2 DEF Counted
    <2> QED BY <2>2, <2>3, <2>4 DEF Counted
  <1> QED BY <1>2, <1>4, <1>5, <1>6, RangedKeeps

\* The range is searched.
LEMMA SearchKeeps ==
    ASSUME NEW c \in Client, Probe, Tables, ClientInv(c), Busy(c),
           call[c] \in {sensor_log_search, sensor_log_count_record}, Behind(c) = 2,
           Extract, inRange' = [inRange EXCEPT ![c] = Asked(c)],
           UNCHANGED <<call, asked, retried, cnt>>,
           dirty'[c] = dirty[c], Proceeds(c), Locals(c)'
    PROVE  ClientInv(c)'
  <1>1. Positioned(c) /\ todo'[c] = Tail(todo[c]) /\ ret' = ret
    BY DEF ClientInv, Proceeds, Tables
  <1>2. Positioned(c)' /\ Behind(c)' = 3
    BY <1>1, Advances
  <1>3. Asking(c)' /\ Whole(c)' /\ call[c] \in Ranged
    BY <1>2, AskingOver, NothingRead DEF Ranged
  <1>4. Counting(c)'
    <2> SUFFICES ASSUME call[c] = sensor_log_count_record, Undisturbed(c)'
                 PROVE  Counted(c, {})'
      BY DEF Counting
    <2>1. Undisturbed(c) /\ ~retried[c]
      BY <1>1, Names DEF Undisturbed, Positioned, Callable, Ranged
    <2>2. PICK C \in SUBSET LogTimes : Counted(c, C)
      BY <2>1 DEF ClientInv, Counting
    <2>3. C = {} /\ cnt[c] = Cardinality(C)
      BY <2>2 DEF Counted
    <2>4. reg.EXTRACT_START_TIME = asked[c].START /\ reg.EXTRACT_END_TIME = asked[c].END
      BY <1>3, <2>1 DEF ClientInv, Asking, Undisturbed
    <2>5. found' = inRange'[c]
      BY <2>4 DEF Extract, InRange, Asked, Tables
    <2>6. MAX_SENSOR_COUNT \in Nat
      BY DataLogAssumption
    <2> QED BY <1>2, <2>3, <2>5, <2>6 DEF Counted
  <1> QED BY <1>2, <1>3, <1>4, RangedKeeps

\* The range is erased.
LEMMA EraseKeeps ==
    ASSUME NEW c \in Client, Probe, Tables, ClientInv(c), Busy(c),
           call[c] = sensor_log_erase, Behind(c) = 2,
           UNCHANGED <<call, asked, retried>>, Proceeds(c), Locals(c)'
    PROVE  ClientInv(c)'
  <1>1. Positioned(c) /\ todo'[c] = Tail(todo[c]) /\ ret' = ret
    BY DEF ClientInv, Proceeds, Tables
  <1>2. Positioned(c)' /\ Behind(c)' = 3
    BY <1>1, Advances
  <1>3. Asking(c)' /\ Whole(c)' /\ call[c] \in Ranged
    BY <1>2, AskingOver, NothingRead DEF Ranged
  <1>4. Counting(c)'
    BY Names DEF Counting
  <1> QED BY <1>2, <1>3, <1>4, RangedKeeps

\* The range that was found is read.
LEMMA ReadTimeKeeps ==
    ASSUME NEW c \in Client, Probe, Tables, ClientInv(c), Busy(c),
           call[c] \in {sensor_log_search, sensor_log_count_record}, Behind(c) \in {3, 4},
           UNCHANGED <<probe, call, asked, retried, cnt, inRange>>,
           dirty'[c] = dirty[c], Proceeds(c), Locals(c)'
    PROVE  ClientInv(c)'
  <1>1. Positioned(c) /\ todo'[c] = Tail(todo[c]) /\ ret' = ret
    BY DEF ClientInv, Proceeds, Tables
  <1>2. Positioned(c)' /\ Behind(c)' \in {4, 5}
    BY <1>1, Advances
  <1>3. Asking(c)' /\ Whole(c)' /\ call[c] \in Ranged
    BY <1>2, AskingOver, NothingRead DEF Ranged
  <1>4. Counting(c)'
    <2> SUFFICES ASSUME call[c] = sensor_log_count_record, Undisturbed(c)'
                 PROVE  \E C \in SUBSET LogTimes : Counted(c, C)'
      BY DEF Counting
    <2>1. Undisturbed(c)
      BY DEF Undisturbed
    <2>2. PICK C \in SUBSET LogTimes : Counted(c, C)
      BY <2>1 DEF ClientInv, Counting
    <2>3. New' = New /\ found' = found /\ MAX_SENSOR_COUNT \in Nat
      BY DataLogAssumption DEF New, probe
    <2> QED BY <1>2, <2>2, <2>3 DEF Counted
  <1> QED BY <1>2, <1>3, <1>4, RangedKeeps

\* A count goes on to the next record.
LEMMA NextKeeps ==
    ASSUME NEW c \in Client, Probe, Tables, ClientInv(c), Busy(c),
           call[c] = sensor_log_count_record, Behind(c) = 5, ExtractNext,
           UNCHANGED <<call, asked, retried, cnt, inRange>>,
           dirty'[c] = dirty[c], Proceeds(c), Locals(c)'
    PROVE  ClientInv(c)'
  <1>1. Positioned(c) /\ todo'[c] = Tail(todo[c]) /\ ret' = ret
    BY DEF ClientInv, Proceeds, Tables
  <1>2. Positioned(c)' /\ Behind(c)' = 6
    BY <1>1, Advances
  <1>3. Asking(c)' /\ Whole(c)' /\ call[c] \in Ranged
    BY <1>2, AskingOver, NothingRead DEF Ranged
  <1>4. Counting(c)'
    <2> SUFFICES ASSUME Undisturbed(c)'
                 PROVE  \E C \in SUBSET LogTimes : Counted(c, C)'
      BY DEF Counting
    <2>1. Undisturbed(c)
      BY DEF Undisturbed
    <2>2. PICK C \in SUBSET LogTimes : Counted(c, C)
      BY <2>1 DEF ClientInv, Counting
    <2>3. /\ cnt[c] = Cardinality(C) /\ C \subseteq inRange[c] \cup New
          /\ inRange[c] \subseteq C \cup found
          /\ found \subseteq inRange[c] \cup New /\ C \cap found = {}
      BY <2>2 DEF Counted
    <2>4. /\ extracted' = IF found = {} THEN LOG_TIME_EOF ELSE Earliest(found)
          /\ found' = found \ {extracted'} /\ now' = now
      BY DEF ExtractNext
    <2>5. New' = New /\ MAX_SENSOR_COUNT \in Nat /\ MAX_SENSOR_COUNT > 0
      BY <2>4, DataLogAssumption DEF New
    <2>6. CASE found = {}
      BY <1>2, <2>3, <2>4, <2>5, <2>6 DEF Counted
    <2>7. CASE found # {}
      <3>1. extracted' \in found /\ extracted' # LOG_TIME_EOF
        BY <2>4, <2>7, EndsOfRange, LogTimesInRange DEF Probe
      <3> QED BY <1>2, <2>3, <2>4, <2>5, <3>1 DEF Counted
    <2> QED BY <2>6, <2>7
  <1> QED BY <1>2, <1>3, <1>4, RangedKeeps

\* The record is read with everything else as it is.
LEMMA RecordKeeps ==
    ASSUME NEW c \in Client, ClientInv(c), Busy(c), call[c] \in Extracting,
           UNCHANGED <<probe, call, asked, retried, cnt, inRange, ret>>,
           dirty'[c] = dirty[c], Locals(c)', Positioned(c)', Whole(c)',
           Behind(c) - StampRead(call[c]) \in -1 .. MAX_SENSOR_COUNT - 1,
           Behind(c)' - StampRead(call[c]) \in 0 .. MAX_SENSOR_COUNT
    PROVE  ClientInv(c)'
  <1>1. /\ MAX_SENSOR_COUNT \in Nat /\ MAX_SENSOR_COUNT > 0
        /\ Behind(c) \in Nat /\ Behind(c)' \in Nat
    BY DataLogAssumption, Upcoming, Place, PlacePrimed DEF ClientInv
  <1>2. CASE call[c] = sensor_log_extract
    <2>1. Asking(c)' /\ Counting(c)'
      BY <1>2, Names DEF Asking, Counting
    <2> QED BY <2>1, RangedKeeps
  <1>3. CASE call[c] = sensor_log_count_record
    <2>1. StampRead(call[c]) = 7
      BY <1>3, Names DEF StampRead
    <2>2. Behind(c) \in 6 .. 6 + MAX_SENSOR_COUNT /\ Behind(c)' \in 7 .. 7 + MAX_SENSOR_COUNT
      BY <1>1, <2>1
    <2>3. Asking(c)'
      BY <2>2, AskingOver
    <2>4. Counting(c)'
      <3> SUFFICES ASSUME Undisturbed(c)'
                   PROVE  \E C \in SUBSET LogTimes : Counted(c, C)'
        BY DEF Counting
      <3>1. Undisturbed(c)
        BY DEF Undisturbed
      <3>2. PICK C \in SUBSET LogTimes : Counted(c, C)
        BY <1>3, <3>1 DEF ClientInv, Counting
      <3>3. New' = New /\ found' = found /\ extracted' = extracted
        BY DEF New, probe
      <3>4. /\ Behind(c) \in 6 .. 7 + MAX_SENSOR_COUNT
            /\ Behind(c)' \in 6 .. 7 + MAX_SENSOR_COUNT
            /\ Behind(c)' \notin 0 .. 2 /\ Behind(c)' \notin 3 .. 5
            /\ Behind(c)' # 8 + MAX_SENSOR_COUNT
        BY <1>1, <2>2
      <3> QED BY <3>2, <3>3, <3>4 DEF Counted
    <2> QED BY <2>3, <2>4, RangedKeeps
  <1> QED BY <1>2, <1>3 DEF Extracting

\* The time stamp of a record is read.
LEMMA StampKeeps ==
    ASSUME NEW c \in Client, Probe, Tables, ClientInv(c), Busy(c), call[c] \in Extracting,
           Behind(c) = StampRead(call[c]) - 1, NextStep(c) = Stamp, Finds(c, NextStep(c)),
           UNCHANGED <<probe, call, asked, retried, cnt, inRange>>,
           dirty'[c] = dirty[c], Locals(c)'
    PROVE  ClientInv(c)'
  <1> DEFINE M == MAX_SENSOR_COUNT
             f == call[c]
             k == StampRead(call[c])
  <1>1. /\ record' = [record EXCEPT ![c].time = extracted]
        /\ extracted # LOG_TIME_EOF => Proceeds(c)
        /\ extracted = LOG_TIME_EOF =>
              /\ todo' = [todo EXCEPT ![c] = SubSeq(@, MAX_SENSOR_COUNT + 2, Len(@))]
              /\ UNCHANGED ret
    BY DEF Finds, Stamp, Step
  <1>2. /\ Positioned(c) /\ f # None /\ f \in Callable /\ M \in Nat /\ M > 0 /\ k \in {1, 7}
    BY Upcoming, DataLogAssumption DEF ClientInv, StampRead
  <1>3. record'[c].time = extracted
    BY <1>1 DEF Tables, ClientInv, Locals
  <1>4. ret' = ret
    BY <1>1 DEF Proceeds
  <1>5. CASE extracted # LOG_TIME_EOF
    <2>1. todo'[c] = Tail(todo[c])
      BY <1>1, <1>5 DEF Proceeds, Tables
    <2>2. Positioned(c)' /\ Behind(c)' = k
      BY <1>2, <1>4, <2>1, Advances
    <2>3. Behind(c)' - StampRead(f) = 0
      BY <1>2, <2>2
    <2>4. Whole(c)'
      BY <1>3, <2>3 DEF Whole, probe
    <2> QED BY <1>2, <1>4, <2>2, <2>3, <2>4, RecordKeeps
  <1>6. CASE extracted = LOG_TIME_EOF
    <2> DEFINE t == SubSeq(todo[c], M + 2, Len(todo[c]))
    <2>1. todo'[c] = t
      BY <1>1, <1>6 DEF Tables
    <2>2. /\ todo[c] \in Seq(Steps) /\ Len(todo[c]) = Len(f.steps) - (k - 1)
          /\ \A i \in 1 .. Len(todo[c]) : todo[c][i] = f.steps[(k - 1) + i]
      BY <1>2, Place DEF Positioned
    <2>3. Len(f.steps) = IF f = sensor_log_extract THEN M + 1 ELSE M + 8
      BY ExtractShape, CountShape DEF Extracting
    <2>4. Len(todo[c]) = IF f = sensor_log_extract THEN M + 1 ELSE M + 2
      BY <1>2, <2>2, <2>3 DEF StampRead
    <2>5. /\ t \in Seq(Steps) /\ Len(t) = Len(todo[c]) - (M + 1)
          /\ \A i \in 1 .. Len(t) : t[i] = todo[c][(M + 1) + i]
      BY <1>2, <2>2, <2>4
    <2>6. Len(t) = Len(f.steps) - (k + M) /\ k + M \in 0 .. Len(f.steps)
      BY <1>2, <2>3, <2>4, <2>5 DEF StampRead
    <2>7. ASSUME NEW i \in 1 .. Len(t)
          PROVE  t[i] = f.steps[(k + M) + i]
      <3>1. (M + 1) + i \in 1 .. Len(todo[c]) /\ (k - 1) + ((M + 1) + i) = (k + M) + i
        BY <1>2, <2>4, <2>5
      <3> QED BY <2>2, <2>5, <3>1
    <2>8. /\ retried'[c] => f = sensor_log_search
          /\ ret'[c] = "E_OK"
      BY <1>2, <1>4 DEF Positioned
    <2>9. Positioned(c)' /\ Behind(c)' = k + M
      <3> HIDE DEF t, k
      <3> QED BY <1>2, <2>1, <2>5, <2>6, <2>7, <2>8, Moved
    <2>10. Behind(c)' - StampRead(f) = M
      BY <1>2, <2>9
    <2>11. Whole(c)'
      BY <1>3, <1>6 DEF Whole, probe
    <2>12. Behind(c)' - StampRead(f) \in 0 .. M /\ Behind(c) - StampRead(f) \in -1 .. M - 1
      BY <1>2, <2>10
    <2> QED BY <1>4, <2>9, <2>11, <2>12, RecordKeeps
  <1> QED BY <1>5, <1>6

\* A value of a record is read.
LEMMA ValueKeeps ==
    ASSUME NEW c \in Client, Probe, Tables, ClientInv(c), Busy(c), call[c] \in Extracting,
           Behind(c) - StampRead(call[c]) \in 0 .. MAX_SENSOR_COUNT - 1,
           record' = [record EXCEPT ![c].value[Behind(c) - StampRead(call[c])] = extracted],
           Proceeds(c), UNCHANGED <<probe, call, asked, retried, cnt, inRange>>,
           dirty'[c] = dirty[c], Locals(c)'
    PROVE  ClientInv(c)'
  <1> DEFINE j == Behind(c) - StampRead(call[c])
  <1>1. /\ Positioned(c) /\ todo'[c] = Tail(todo[c]) /\ ret' = ret
        /\ MAX_SENSOR_COUNT \in Nat /\ StampRead(call[c]) \in Nat
    BY DataLogAssumption DEF ClientInv, Proceeds, Tables, StampRead
  <1>2. Behind(c) \in Nat
    BY <1>1, Upcoming, Place
  <1>3. Positioned(c)' /\ Behind(c)' = Behind(c) + 1
    BY <1>1, Advances
  <1>4. Behind(c)' - StampRead(call[c]) = j + 1 /\ j + 1 \in 0 .. MAX_SENSOR_COUNT
        /\ j \in -1 .. MAX_SENSOR_COUNT - 1 /\ j \in 0 .. MAX_SENSOR_COUNT
    BY <1>1, <1>2, <1>3
  <1>5. Whole(c)'
    <2> SUFFICES ASSUME "EXTRACTED" \notin dirty[c]
                 PROVE  /\ record'[c].time = extracted
                        /\ extracted # LOG_TIME_EOF =>
                              \A i \in 0 .. j : record'[c].value[i] = extracted
      BY <1>1, <1>4 DEF Whole, probe
    <2>1. ret[c] = "E_OK"
      BY <1>1 DEF Positioned, Busy
    <2>2. /\ record[c].time = extracted
          /\ extracted # LOG_TIME_EOF =>
                \A i \in 0 .. j - 1 : record[c].value[i] = extracted
      BY <1>4, <2>1 DEF ClientInv, Whole
    <2>3. c \in DOMAIN record /\ DOMAIN record[c] = {"time", "value"}
          /\ DOMAIN record[c].value = 0 .. MAX_SENSOR_COUNT - 1
      BY DEF Tables, ClientInv, Locals
    <2>4. /\ record'[c].time = record[c].time
          /\ record'[c].value = [record[c].value EXCEPT ![j] = extracted]
      BY <2>3
    <2>5. \A i \in 0 .. j : i = j \/ i \in 0 .. j - 1
      BY <1>4
    <2>6. \A i \in 0 .. j : i \in DOMAIN record[c].value
      BY <1>1, <1>4, <2>3
    <2> QED BY <2>2, <2>4, <2>5, <2>6
  <1> QED BY <1>1, <1>3, <1>4, <1>5, RecordKeeps

LEMMA InSequence ==
    ASSUME NEW S, NEW T, NEW s \in Seq(S), \A i \in 1 .. Len(s) : s[i] \in T
    PROVE  s \in Seq(T)
  OBVIOUS

\* The loop of a count.
LEMMA AgainKeeps ==
    ASSUME NEW c \in Client, Probe, Tables, ClientInv(c), Busy(c),
           call[c] = sensor_log_count_record, Behind(c) = MAX_SENSOR_COUNT + 7,
           CountsRecord(c), UNCHANGED call, Locals(c)'
    PROVE  ClientInv(c)'
  <1> DEFINE M == MAX_SENSOR_COUNT
             f == call[c]
  <1>1. /\ Positioned(c) /\ f # None /\ f \in Callable /\ M \in Nat /\ M > 0
        /\ StampRead(f) = 7 /\ f \in Ranged /\ f \in Extracting /\ ret[c] = "E_OK"
    BY Upcoming, DataLogAssumption, Names
       DEF ClientInv, StampRead, Ranged, Extracting, Positioned
  <1>2. UNCHANGED <<reg, ready, log, now, found, extracted, dirty, asked, retried, inRange>>
    BY DEF CountsRecord, probe, history
  <1>3. /\ found \subseteq LogTimes /\ extracted \in LogTimes \cup {LOG_TIME_EOF}
        /\ New' = New
    BY <1>2 DEF Probe, New
  <1>4. ASSUME Undisturbed(c)
        PROVE  record[c].time = extracted
    <2>1. "EXTRACTED" \notin dirty[c]
      BY <1>4 DEF Undisturbed
    <2>2. Behind(c) - StampRead(f) \in 0 .. MAX_SENSOR_COUNT
      BY <1>1
    <2> QED BY <1>1, <2>1, <2>2 DEF ClientInv, Whole
  <1>5. ASSUME Undisturbed(c)
        PROVE  sensor_log_get_record_type(record[c]) = "REC_EOF" <=> extracted = LOG_TIME_EOF
    <2>1. \A t \in LogTimes : t <= LOG_TIME_LAST_FOUND
      BY LogTimesInRange DEF LOG_TIME_LAST_FOUND
    <2>2. ~(LOG_TIME_EOF <= LOG_TIME_LAST_FOUND)
      BY DEF LOG_TIME_EOF, LOG_TIME_LAST_FOUND
    <2> QED BY <1>3, <1>4, <1>5, <2>1, <2>2, LogTimesInRange DEF sensor_log_get_record_type
  <1>6. Undisturbed(c) => \E C \in SUBSET LogTimes :
           /\ cnt[c] = Cardinality(C) /\ C \subseteq inRange[c] \cup New
           /\ IF extracted = LOG_TIME_EOF THEN inRange[c] \subseteq C
              ELSE /\ inRange[c] \subseteq C \cup {extracted} \cup found
                   /\ {extracted} \cup found \subseteq inRange[c] \cup New
                   /\ C \cap found = {} /\ extracted \notin C \cup found
    <2> SUFFICES ASSUME Undisturbed(c)
                 PROVE  \E C \in SUBSET LogTimes :
                           /\ cnt[c] = Cardinality(C) /\ C \subseteq inRange[c] \cup New
                           /\ IF extracted = LOG_TIME_EOF THEN inRange[c] \subseteq C
                              ELSE /\ inRange[c] \subseteq C \cup {extracted} \cup found
                                   /\ {extracted} \cup found \subseteq inRange[c] \cup New
                                   /\ C \cap found = {} /\ extracted \notin C \cup found
      OBVIOUS
    <2>1. PICK C \in SUBSET LogTimes : Counted(c, C)
      BY DEF ClientInv, Counting
    <2>2. Behind(c) \in 6 .. 7 + MAX_SENSOR_COUNT
      BY <1>1
    <2> QED BY <2>1, <2>2 DEF Counted
  <1>7. CASE sensor_log_get_record_type(record[c]) = "REC_EOF"
    <2>1. todo'[c] = <<>> /\ ret'[c] = "E_OK" /\ cnt' = cnt
      BY <1>7 DEF CountsRecord, EndsWith, Tables
    <2>2. Positioned(c)' /\ Behind(c)' = M + 8
      BY <1>1, <1>2, <2>1, Ends, CountShape
    <2>3. Asking(c)'
      BY <1>1, <2>2, AskingOver
    <2>4. Whole(c)'
      <3>1. Behind(c)' - StampRead(f) \notin 0 .. MAX_SENSOR_COUNT
        BY <1>1, <2>2
      <3> QED BY <3>1 DEF Whole
    <2>5. Counting(c)'
      <3> SUFFICES ASSUME Undisturbed(c)'
                   PROVE  \E C \in SUBSET LogTimes : Counted(c, C)'
        BY DEF Counting
      <3>1. Undisturbed(c)
        BY <1>2 DEF Undisturbed
      <3>2. PICK C \in SUBSET LogTimes : /\ cnt[c] = Cardinality(C)
                                         /\ C \subseteq inRange[c] \cup New
                                         /\ inRange[c] \subseteq C
        BY <1>5, <1>6, <1>7, <3>1
      <3> QED BY <1>1, <1>2, <1>3, <2>1, <2>2, <3>2 DEF Counted
    <2> QED BY <1>1, <2>2, <2>3, <2>4, <2>5, RangedKeeps
  <1>8. CASE sensor_log_get_record_type(record[c]) # "REC_EOF"
    <2>1. todo'[c] = CountSteps /\ ret' = ret /\ cnt'[c] = cnt[c] + 1
      BY <1>8 DEF CountsRecord, Tables
    <2>2. /\ CountSteps \in Seq(Steps) /\ Len(CountSteps) = M + 3 /\ Len(f.steps) = M + 8
          /\ \A i \in 1 .. M + 3 : CountSteps[i] = f.steps[5 + i]
      <3>1. /\ Len(CountSteps) = M + 3 /\ Len(f.steps) = M + 8
            /\ \A i \in 1 .. M + 3 : f.steps[i + 5] = CountSteps[i]
        BY CountStepsShape, CountShape
      <3>2. \A i \in 1 .. M + 3 : CountSteps[i] = f.steps[5 + i] /\ 5 + i \in 1 .. Len(f.steps)
        BY <1>1, <3>1
      <3>3. f.steps \in Seq(Steps)
        BY <1>1, Callables
      <3>4. \A i \in 1 .. M + 3 : CountSteps[i] \in Steps
        BY <3>2, <3>3
      <3>5. CountSteps \in Seq({Next1, Stamp, Again} \cup Values)
        BY CountStepsShape
      <3>6. CountSteps \in Seq(Steps)
        BY ONLY <3>1, <3>5, <3>4, InSequence
      <3> QED BY <3>1, <3>2, <3>6
    <2>3. Positioned(c)' /\ Behind(c)' = 5
      <3>1. 5 \in 0 .. Len(f.steps) /\ Len(CountSteps) = Len(f.steps) - 5
        BY <1>1, <2>2
      <3>2. retried'[c] => f = sensor_log_search
        BY <1>1, <1>2 DEF Positioned
      <3> QED BY <1>1, <2>1, <2>2, <3>1, <3>2, Moved
    <2>4. Asking(c)' /\ Whole(c)'
      BY <1>1, <2>3, AskingOver, NothingRead
    <2>5. Counting(c)'
      <3> SUFFICES ASSUME Undisturbed(c)'
                   PROVE  \E C \in SUBSET LogTimes : Counted(c, C)'
        BY DEF Counting
      <3>1. Undisturbed(c) /\ extracted # LOG_TIME_EOF
        BY <1>2, <1>5, <1>8 DEF Undisturbed
      <3>2. PICK C \in SUBSET LogTimes :
               /\ cnt[c] = Cardinality(C) /\ C \subseteq inRange[c] \cup New
               /\ inRange[c] \subseteq C \cup {extracted} \cup found
               /\ {extracted} \cup found \subseteq inRange[c] \cup New
               /\ C \cap found = {} /\ extracted \notin C \cup found
        BY <1>6, <3>1
      <3>3. C \cup {extracted} \in SUBSET LogTimes
        BY <1>3, <3>1
      <3>4. PICK D \in SUBSET LogTimes : D = C \cup {extracted}
        BY <3>3
      <3>5. Cardinality(D) = Cardinality(C) + 1
        <4>1. C \subseteq 1 .. 6
          BY LogTimesInRange
        <4>2. 1 \in Int /\ 6 \in Int
          OBVIOUS
        <4>3. IsFiniteSet(1 .. 6)
          BY ONLY <4>2, FS_Interval
        <4>4. IsFiniteSet(C)
          BY ONLY <4>1, <4>3, FS_Subset
        <4> QED BY <3>2, <3>4, <4>4, FS_AddElement
      <3>6. /\ D \subseteq inRange[c] \cup New /\ inRange[c] \subseteq D \cup found
            /\ found \subseteq inRange[c] \cup New /\ D \cap found = {}
        BY <3>2, <3>4
      <3>7. cnt'[c] = Cardinality(D)
        BY <2>1, <3>2, <3>5
      <3>8. 5 \in 3 .. 5 /\ 5 \notin 0 .. 2 /\ 5 \notin 6 .. 7 + MAX_SENSOR_COUNT
            /\ 5 # 8 + MAX_SENSOR_COUNT
        BY <1>1
      <3>9. Counted(c, D)'
        BY <1>2, <1>3, <2>3, <3>6, <3>7, <3>8 DEF Counted
      <3> QED BY <3>9
    <2> QED BY <1>1, <2>3, <2>4, <2>5, RangedKeeps
  <1> QED BY <1>7, <1>8

-----------------------------------------------------------------------------
(* An access of client c                                                   *)

LEMMA PlainWrite ==
    ASSUME NEW f, NEW i, PlainStep(f, i), f.steps[i].op \in {"write", "modify", "writetime"}
    PROVE  /\ f.steps[i].op \in {"write", "modify"}
           /\ ~Commands(f.steps[i], "TRIGGER_EXTRACT")
           /\ f.steps[i].op = "write" => WellTyped(f.steps[i])
           /\ f.steps[i].op = "modify" => ReadBefore(f, i)
  <1> DEFINE s == f.steps[i]
  <1>1. CASE s.op = "write"
    <2>1. WellTyped(s)
      BY <1>1 DEF PlainStep
    <2>2. ~Commands(s, "TRIGGER_EXTRACT")
      BY <2>1 DEF WellTyped, Commands, RangeRegisters, BitsOf
    <2> QED BY <1>1, <2>1, <2>2
  <1>2. CASE s.op = "modify"
    <2>1. ReadBefore(f, i)
      BY <1>2 DEF PlainStep
    <2>2. ~Commands(s, "TRIGGER_EXTRACT")
      BY <2>1 DEF ReadBefore, Commands, BitsOf
    <2> QED BY <1>2, <2>1, <2>2
  <1>3. s.op # "writetime"
    BY DEF PlainStep
  <1> QED BY <1>1, <1>2, <1>3

\* A function that takes no range searches and erases nothing.
LEMMA TriggersOfPlain ==
    ASSUME NEW f, NEW i, PlainStep(f, i), f.steps[i].reg = "TRIGGER_REQUESTS"
    PROVE  f.steps[i].arg \notin {"TRIGGER_EXTRACT", "TRIGGER_CLEAR_LOG"}
  <1>1. f.steps[i].op \in {"write", "modify"}
    BY DEF PlainStep
  <1>2. CASE f.steps[i].op = "write"
    <2>1. WellTyped(f.steps[i])
      BY <1>2, PlainWrite
    <2> QED BY <2>1 DEF WellTyped, BitsOf, RangeRegisters
  <1>3. CASE f.steps[i].op = "modify"
    <2>1. ReadBefore(f, i)
      BY <1>3, PlainWrite
    <2> QED BY <2>1 DEF ReadBefore, BitsOf
  <1> QED BY <1>1, <1>2, <1>3

LEMMA NextWritable ==
    ASSUME NEW c \in Client, ClientInv(c), Busy(c),
           NextStep(c).op \in {"write", "modify", "writetime"}
    PROVE  Writable(c, NextStep(c))
  <1> DEFINE s == NextStep(c)
             k == Behind(c) + 1
             f == call[c]
  <1>1. /\ Positioned(c) /\ f \in Callable /\ k \in 1 .. Len(f.steps) /\ s = f.steps[k]
    BY Upcoming DEF ClientInv
  <1>2. CASE f \in Library \ {sensor_log_extract}
    <2>1. PlainStep(f, k)
      BY <1>1, <1>2, LibraryIsPlain DEF Plain
    <2>2. CASE s.op = "write"
      <3>1. WellTyped(s)
        BY <1>1, <2>1, <2>2, PlainWrite
      <3>2. s.reg = "TRIGGER_REQUESTS" => s.arg \in Commanded
        BY <3>1 DEF WellTyped, BitsOf, RangeRegisters
      <3> QED BY <2>2, <3>1, <3>2 DEF Writable
    <2>3. CASE s.op = "modify"
      <3>1. ReadBefore(f, k)
        BY <1>1, <2>1, <2>3, PlainWrite
      <3>2. s.reg \in DOMAIN BitsOf /\ s.arg.set \subseteq BitsOf[s.reg]
        BY <1>1, <3>1 DEF ReadBefore
      <3>3. got[c] \subseteq BitsOf[s.reg]
        BY <2>3 DEF ClientInv, Fresh
      <3> QED BY <2>3, <3>2, <3>3 DEF Writable
    <2> QED BY <1>1, <2>1, <2>2, <2>3 DEF PlainStep
  <1>3. CASE f \in Ranged \cup Extracting
    <2>1. CASE s.op = "writetime"
      <3>1. s.reg \in RangeRegisters
        BY <1>1, <1>3, <2>1, RangedPlace
           DEF RangeRegisters, Trigger, Write, Next1, Stamp, Again, Step
      <3> QED BY <2>1, <3>1 DEF Writable, ClientInv, Locals
    <2>2. CASE s.op # "writetime"
      <3>1. \E command \in Commanded : s = Trigger(command)
        BY <1>1, <1>3, <2>2, RangedPlace DEF Commanded, Next1, Stamp, Again, Step
      <3> QED BY <3>1 DEF Writable, Trigger, Write, Step
    <2> QED BY <2>1, <2>2
  <1> QED BY <1>1, <1>2, <1>3 DEF Callable, Extracting

LEMMA LocalsAfterWrite ==
    ASSUME NEW c \in Client, Probe, Tables, ClientInv(c), Busy(c), WriteAccess(c), now' = now,
           dirty'[c] = dirty[c]
    PROVE  Locals(c)'
  <1> DEFINE s == NextStep(c)
  <1>1. /\ s.op \in {"write", "modify", "writetime"}
        /\ var' = IF s.op = "writetime" THEN [var EXCEPT ![c][Bound(s.reg)] = Reversed(@)]
                  ELSE var
        /\ inRange' = IF Commands(s, "TRIGGER_EXTRACT") THEN [inRange EXCEPT ![c] = Asked(c)]
                      ELSE inRange
        /\ UNCHANGED <<got, record, cnt, asked, retried>>
    BY DEF WriteAccess
  <1>2. ret'[c] \in {ret[c], "E_PORT_ERR"}
    BY DEF WriteAccess, Proceeds, EndsWith, Tables
  <1>3. var'[c] \in [START : Times, END : Times]
    BY <1>1, ReversedInTimes DEF ClientInv, Locals, Tables, Bound
  <1>4. Asked(c) \subseteq {t \in LogTimes : t <= now}
    BY DEF Asked, Probe
  <1>5. inRange'[c] \subseteq {t \in LogTimes : t <= now'}
    BY <1>1, <1>4 DEF ClientInv, Locals, Tables
  <1> QED BY <1>1, <1>2, <1>3, <1>5 DEF ClientInv, Locals

\* A write, for the client itself.
LEMMA WriteOwn ==
    ASSUME NEW c \in Client, Probe, Tables, ClientInv(c), Busy(c), WriteAccess(c),
           UNCHANGED call
    PROVE  Probe' /\ ClientInv(c)'
  <1> DEFINE s == NextStep(c)
             k == Behind(c)
             f == call[c]
  <1>1. /\ s.op \in {"write", "modify", "writetime"}
        /\ var' = IF s.op = "writetime" THEN [var EXCEPT ![c][Bound(s.reg)] = Reversed(@)]
                  ELSE var
        /\ inRange' = IF Commands(s, "TRIGGER_EXTRACT") THEN [inRange EXCEPT ![c] = Asked(c)]
                      ELSE inRange
        /\ UNCHANGED <<got, record, cnt, asked, retried>>
    BY DEF WriteAccess
  <1>2. Writable(c, s) /\ Positioned(c) /\ f \in Callable
    BY <1>1, NextWritable, Upcoming DEF ClientInv
  <1>3. Takes(c, s) => dirty'[c] = dirty[c]
    BY DEF Takes
  <1>4. CASE Takes(c, s) /\ Proceeds(c)
    <2>1. /\ Probe' /\ Kept(Changed(s)) /\ now' = now /\ dirty'[c] = dirty[c] /\ Locals(c)'
      BY <1>2, <1>3, <1>4, Taken, LocalsAfterWrite
    <2>2. CASE f \in Library \ {sensor_log_extract}
      <3>1. PlainStep(f, k + 1) /\ s = f.steps[k + 1]
        BY <1>2, <2>2, Upcoming, LibraryIsPlain DEF Plain
      <3>2. s.op \in {"write", "modify"} /\ ~Commands(s, "TRIGGER_EXTRACT")
        BY <1>1, <3>1, PlainWrite
      <3>3. UNCHANGED <<var, inRange>>
        BY <1>1, <3>2
      <3>4. s.reg \in DOMAIN Defaults => reg'[s.reg] = Written(c, s)
        <4>1. "TRIGGER_REQUESTS" \notin DOMAIN Defaults
          BY DEF Defaults
        <4> QED BY <1>2, <1>4, <4>1, RegisterWritten
      <3> QED BY <1>1, <1>4, <2>1, <2>2, <3>2, <3>3, <3>4, WriteKeeps
    <2>3. CASE f \in Ranged \cup Extracting
      <3>1. CASE s.op = "writetime"
        <4>1. /\ f \in Ranged
              /\ \/ k = 0 /\ s.reg = "EXTRACT_START_TIME"
                 \/ k = 1 /\ s.reg = "EXTRACT_END_TIME"
          BY <1>2, <2>3, <3>1, RangedPlace DEF Trigger, Write, Next1, Stamp, Again, Step
        <4>2. reg'[s.reg] = var[c][Bound(s.reg)]
          BY <1>2, <1>4, <3>1, <4>1, RegisterWritten DEF Written
        <4>3. \A r \in DOMAIN Defaults \ {s.reg} : reg'[r] = reg[r]
          BY <2>1, <4>1 DEF Kept, Changed
        <4>4. UNCHANGED inRange
          BY <1>1, <4>1 DEF Commands
        <4> QED BY <1>1, <1>4, <2>1, <3>1, <4>1, <4>2, <4>3, <4>4, WriteTimeKeeps
      <3>2. CASE f \in {sensor_log_search, sensor_log_count_record} /\ k = 2
                 /\ s = Trigger("TRIGGER_EXTRACT")
        <4>1. s.reg = "TRIGGER_REQUESTS" /\ s.arg = "TRIGGER_EXTRACT" /\ s.op = "write"
          BY <3>2 DEF Trigger, Write, Step
        <4>2. Extract /\ inRange' = [inRange EXCEPT ![c] = Asked(c)]
          BY <1>1, <1>4, <4>1 DEF Takes, Triggered, Commands
        <4> QED BY <1>1, <1>4, <2>1, <3>2, <4>2, SearchKeeps
      <3>3. CASE f = sensor_log_erase /\ k = 2 /\ s = Trigger("TRIGGER_CLEAR_LOG")
        BY <1>1, <1>4, <2>1, <3>3, EraseKeeps
      <3>4. CASE f = sensor_log_count_record /\ k = 5 /\ s = Next1
        <4>1. s.reg = "TRIGGER_REQUESTS" /\ s.arg = "TRIGGER_EXTRACT_NEXT" /\ s.op = "write"
          BY <3>4 DEF Next1, Trigger, Write, Step
        <4>2. ExtractNext /\ UNCHANGED inRange
          BY <1>1, <1>4, <4>1 DEF Takes, Triggered, Commands
        <4> QED BY <1>1, <1>4, <2>1, <3>4, <4>2, NextKeeps
      <3> QED BY <1>1, <1>2, <2>3, <3>1, <3>2, <3>3, <3>4, RangedPlace
          DEF Stamp, Again, Step
    <2> QED BY <1>2, <2>2, <2>3 DEF Callable, Extracting
  <1>5. CASE (Takes(c, s) \/ UNCHANGED <<probe, dirty>>) /\ EndsWith(c, "E_PORT_ERR")
    <2>1. Probe' /\ now' = now /\ dirty'[c] = dirty[c] /\ Locals(c)'
      <3>1. CASE Takes(c, s)
        BY <1>2, <1>3, <3>1, Taken, LocalsAfterWrite
      <3>2. CASE UNCHANGED <<probe, dirty>>
        BY <3>2, LocalsAfterWrite DEF probe, Probe
      <3> QED BY <1>5, <3>1, <3>2
    <2>2. inRange'[c] = inRange[c] \/ k = 2
      <3> SUFFICES ASSUME Commands(s, "TRIGGER_EXTRACT")
                   PROVE  k = 2
        BY <1>1
      <3>1. f \notin Library \ {sensor_log_extract}
        <4> SUFFICES ASSUME f \in Library \ {sensor_log_extract}
                     PROVE  FALSE
          OBVIOUS
        <4>1. PlainStep(f, k + 1) /\ s = f.steps[k + 1]
          BY <1>2, Upcoming, LibraryIsPlain DEF Plain
        <4> QED BY <1>1, <4>1, PlainWrite
      <3>2. f \in Ranged \cup Extracting
        BY <1>2, <3>1 DEF Callable, Extracting
      <3>3. s.reg = "TRIGGER_REQUESTS" /\ s.arg = "TRIGGER_EXTRACT"
        BY DEF Commands
      <3>4. s # Next1 /\ s # Trigger("TRIGGER_CLEAR_LOG")
        BY <3>3 DEF Next1, Trigger, Write, Step
      <3>5. s # Stamp /\ s # Again
            /\ \A i : s # Step("value", "EXTRACTED_DATA", Sizeof.float, i)
        BY <3>3, <1>1 DEF Stamp, Again, Step
      <3> QED BY <1>1, <1>2, <3>2, <3>3, <3>4, <3>5, RangedPlace
    <2>3. todo'[c] = <<>> /\ ret'[c] # "E_OK"
      BY <1>5 DEF EndsWith, Tables
    <2> QED BY <1>1, <2>1, <2>2, <2>3, FailsKeeps
  <1> QED BY <1>4, <1>5 DEF WriteAccess

\* A read, for the client itself.
LEMMA ReadOwn ==
    ASSUME NEW c \in Client, Probe, Tables, ClientInv(c), Busy(c), ReadAccess(c),
           UNCHANGED call
    PROVE  ClientInv(c)'
  <1> DEFINE s == NextStep(c)
             k == Behind(c)
             f == call[c]
  <1>1. /\ s.op \in {"read", "readtime", "stamp", "value"}
        /\ UNCHANGED <<probe, cnt, history>>
        /\ UNCHANGED <<now, cnt, dirty, asked, retried, inRange>>
    BY DEF ReadAccess, probe, history
  <1>2. Positioned(c) /\ f \in Callable
    BY Upcoming DEF ClientInv
  <1>3. CASE Finds(c, s)
    <2>1. CASE s.op = "read"
      BY <1>1, <1>3, <2>1, ReadKeeps
    <2>2. CASE s.op # "read"
      <3>1. f \in Ranged \cup Extracting
        <4> SUFFICES ASSUME f \in Library \ {sensor_log_extract}
                     PROVE  FALSE
          BY <1>2 DEF Callable, Extracting
        <4>1. PlainStep(f, k + 1) /\ s = f.steps[k + 1]
          BY <1>2, Upcoming, LibraryIsPlain DEF Plain
        <4> QED BY <1>1, <2>2, <4>1 DEF PlainStep
      <3>2. CASE s.op = "readtime"
        <4>1. /\ f \in {sensor_log_search, sensor_log_count_record} /\ k \in {3, 4}
              /\ s.reg \in RangeRegisters
          BY <1>2, <3>1, <3>2, RangedPlace DEF Trigger, Write, Next1, Stamp, Again, Step
        <4>2. /\ var' = [var EXCEPT ![c][Bound(s.reg)] = reg[s.reg]]
              /\ Proceeds(c) /\ UNCHANGED <<got, record>>
          BY <1>3, <3>2 DEF Finds
        <4>3. var'[c] \in [START : Times, END : Times]
          <5>1. reg[s.reg] \in Times
            BY <4>1 DEF RangeRegisters, Probe
          <5> QED BY <4>2, <5>1 DEF ClientInv, Locals, Tables, Bound
        <4>4. Locals(c)'
          BY <1>1, <4>2, <4>3 DEF ClientInv, Locals, Proceeds
        <4> QED BY <1>1, <4>1, <4>2, <4>4, ReadTimeKeeps
      <3>3. CASE s.op = "stamp"
        <4>1. f \in Extracting /\ k = StampRead(f) - 1 /\ s = Stamp
          BY <1>2, <3>1, <3>3, RangedPlace DEF Trigger, Write, Next1, Again, Step
        <4>2. /\ record' = [record EXCEPT ![c].time = extracted]
              /\ UNCHANGED <<ret, var>>
          BY <1>3, <3>3 DEF Finds, Proceeds
        <4>3. Locals(c)'
          BY <1>1, <4>2 DEF ClientInv, Locals, Tables
        <4> QED BY <1>1, <1>3, <4>1, <4>3, StampKeeps
      <3>4. CASE s.op = "value"
        <4>1. /\ f \in Extracting /\ k - StampRead(f) \in 0 .. MAX_SENSOR_COUNT - 1
              /\ s = Step("value", "EXTRACTED_DATA", Sizeof.float, k - StampRead(f))
          BY <1>2, <3>1, <3>4, RangedPlace DEF Trigger, Write, Next1, Stamp, Again, Step
        <4>2. s.arg = k - StampRead(f)
          BY <4>1 DEF Step
        <4>3. /\ record' = [record EXCEPT ![c].value[k - StampRead(f)] = extracted]
              /\ Proceeds(c) /\ UNCHANGED <<ret, var>>
          BY <1>3, <3>4, <4>2 DEF Finds, Proceeds
        <4>4. Locals(c)'
          BY <1>1, <4>3 DEF ClientInv, Locals, Tables
        <4> QED BY <1>1, <4>1, <4>3, <4>4, ValueKeeps
      <3> QED BY <1>1, <2>2, <3>2, <3>3, <3>4
    <2> QED BY <2>1, <2>2
  <1>4. CASE EndsWith(c, "E_BUS_OPERATION") /\ UNCHANGED <<got, var, record>>
    <2>1. todo'[c] = <<>> /\ ret'[c] = "E_BUS_OPERATION"
      BY <1>4 DEF EndsWith, Tables
    <2>2. Locals(c)'
      BY <1>1, <1>4, <2>1 DEF ClientInv, Locals
    <2> QED BY <1>1, <2>1, <2>2, FailsKeeps
  <1> QED BY <1>3, <1>4 DEF ReadAccess

\* An access, for the client itself.
LEMMA AccessOwn ==
    ASSUME NEW c \in Client, Probe, Tables, ClientInv(c), Access(c)
    PROVE  Probe' /\ ClientInv(c)'
  <1>1. Busy(c) /\ UNCHANGED call
    BY DEF Access
  <1>2. CASE NextStep(c).op = "again" /\ CountsRecord(c)
    <2>1. /\ Positioned(c) /\ call[c] \in Callable
      BY <1>1, Upcoming DEF ClientInv
    <2>2. call[c] \in Ranged \cup Extracting
      <3> SUFFICES ASSUME call[c] \in Library \ {sensor_log_extract}
                   PROVE  FALSE
        BY <2>1 DEF Callable, Extracting
      <3>1. PlainStep(call[c], Behind(c) + 1) /\ NextStep(c) = call[c].steps[Behind(c) + 1]
        BY <1>1, <2>1, Upcoming, LibraryIsPlain DEF Plain
      <3> QED BY <1>2, <3>1 DEF PlainStep
    <2>3. call[c] = sensor_log_count_record /\ Behind(c) = MAX_SENSOR_COUNT + 7
      BY <1>1, <1>2, <2>1, <2>2, RangedPlace DEF Trigger, Write, Next1, Stamp, Step
    <2>4. Locals(c)'
      <3>1. UNCHANGED <<now, var, dirty, inRange>>
        BY <1>2 DEF CountsRecord, probe, history
      <3>2. ret'[c] \in {ret[c], "E_OK"} /\ cnt'[c] \in {cnt[c], cnt[c] + 1}
            /\ record'[c] \in {record[c], NoRecord}
        BY <1>2 DEF CountsRecord, EndsWith, Tables
      <3>3. DOMAIN NoRecord = {"time", "value"}
            /\ DOMAIN NoRecord.value = 0 .. MAX_SENSOR_COUNT - 1
        BY DEF NoRecord
      <3> QED BY <3>1, <3>2, <3>3 DEF ClientInv, Locals
    <2> QED BY <1>1, <1>2, <2>3, <2>4, AgainKeeps DEF CountsRecord, probe, Probe
  <1>3. CASE RefusedAccess(c)
    <2>1. UNCHANGED <<probe, locals, history>> /\ todo'[c] = <<>> /\ ret'[c] = "E_BUFFER_MEM_SIZE"
      BY <1>3 DEF RefusedAccess, EndsWith, Tables
    <2>2. UNCHANGED <<now, got, var, record, cnt, dirty, asked, retried, inRange>>
      BY <2>1 DEF probe, locals, history
    <2>3. Locals(c)'
      BY <2>1, <2>2 DEF ClientInv, Locals
    <2> QED BY <1>1, <2>1, <2>2, <2>3, FailsKeeps DEF probe, Probe
  <1>4. CASE WriteAccess(c)
    BY <1>1, <1>4, WriteOwn
  <1>5. CASE ReadAccess(c)
    BY <1>1, <1>5, ReadOwn DEF ReadAccess, probe, Probe
  <1>6. CASE PollAccess(c)
    BY <1>1, <1>6, PollKeeps DEF PollAccess, probe, Probe
  <1> QED BY <1>2, <1>3, <1>4, <1>5, <1>6 DEF Access

\* What an access changes is the client's.
LEMMA AccessTables ==
    ASSUME NEW c \in Client, Tables, Access(c)
    PROVE  Tables' /\ \A d \in Client \ {c} : Untouched(d)
  <1>1. UNCHANGED call
    BY DEF Access
  <1>2. CASE CountsRecord(c)
    BY <1>1, <1>2 DEF CountsRecord, EndsWith, Tables, Untouched, probe, history
  <1>3. CASE RefusedAccess(c)
    BY <1>1, <1>3 DEF RefusedAccess, EndsWith, Tables, Untouched, probe, locals, history
  <1>4. CASE WriteAccess(c)
    <2>1. /\ DOMAIN todo' = Client /\ DOMAIN ret' = Client
          /\ \A d \in Client \ {c} : todo'[d] = todo[d] /\ ret'[d] = ret[d]
      BY <1>4 DEF WriteAccess, Proceeds, EndsWith, Tables
    <2>2. /\ DOMAIN var' = Client /\ DOMAIN inRange' = Client
          /\ \A d \in Client \ {c} : var'[d] = var[d] /\ inRange'[d] = inRange[d]
      BY <1>4 DEF WriteAccess, Tables
    <2>3. DOMAIN dirty' = Client /\ UNCHANGED <<got, record, cnt, asked, retried>>
      BY <1>4 DEF WriteAccess, Takes, Tables
    <2> QED BY <1>1, <2>1, <2>2, <2>3 DEF Tables, Untouched
  <1>5. CASE ReadAccess(c)
    <2>1. /\ DOMAIN todo' = Client /\ DOMAIN ret' = Client
          /\ \A d \in Client \ {c} : todo'[d] = todo[d] /\ ret'[d] = ret[d]
      BY <1>5 DEF ReadAccess, Finds, Proceeds, EndsWith, Tables
    <2>2. /\ DOMAIN var' = Client /\ DOMAIN got' = Client /\ DOMAIN record' = Client
          /\ \A d \in Client \ {c} :
                var'[d] = var[d] /\ got'[d] = got[d] /\ record'[d] = record[d]
      BY <1>5 DEF ReadAccess, Finds, Tables
    <2>3. UNCHANGED <<cnt, dirty, asked, retried, inRange>>
      BY <1>5 DEF ReadAccess, history
    <2> QED BY <1>1, <2>1, <2>2, <2>3 DEF Tables, Untouched
  <1>6. CASE PollAccess(c)
    <2>1. /\ DOMAIN todo' = Client /\ DOMAIN ret' = Client
          /\ \A d \in Client \ {c} : todo'[d] = todo[d] /\ ret'[d] = ret[d]
      BY <1>6 DEF PollAccess, EndsWith, Tables
    <2> QED BY <1>1, <1>6, <2>1 DEF PollAccess, Tables, Untouched, locals, history
  <1> QED BY <1>2, <1>3, <1>4, <1>5, <1>6 DEF Access

\* An access, for the others.
LEMMA AccessElsewhere ==
    ASSUME NEW c \in Client, Probe, Tables, ClientInv(c), Access(c),
           NEW d \in Client \ {c}, ClientInv(d)
    PROVE  Environment(d)
  <1>1. Untouched(d) /\ dirty[d] \subseteq Everything
    BY AccessTables DEF ClientInv, Locals
  <1>2. CASE WriteAccess(c) /\ Takes(c, NextStep(c))
    <2>1. Writable(c, NextStep(c))
      BY <1>2, NextWritable DEF WriteAccess, Access
    <2> QED BY <1>1, <1>2, <2>1, TakenElsewhere
  <1>3. CASE UNCHANGED <<probe, dirty>>
    BY <1>1, <1>3, AloneElsewhere
  <1>4. (WriteAccess(c) /\ Takes(c, NextStep(c))) \/ UNCHANGED <<probe, dirty>>
    BY DEF Access, CountsRecord, RefusedAccess, WriteAccess, ReadAccess, PollAccess, history
  <1> QED BY <1>2, <1>3, <1>4

-----------------------------------------------------------------------------
(* Calls and returns                                                       *)

LEMMA StepsOfCallable ==
    ASSUME NEW c \in Client, call'[c] \in Callable, todo'[c] = call'[c].steps,
           retried'[c] => call'[c] = sensor_log_search, ret'[c] = "E_OK"
    PROVE  Positioned(c)' /\ Behind(c)' = 0
  <1>1. call'[c].steps \in Seq(Steps)
    BY Callables
  <1>2. /\ 0 \in 0 .. Len(call'[c].steps) /\ Len(call'[c].steps) = Len(call'[c].steps) - 0
        /\ \A i \in 1 .. Len(todo'[c]) : todo'[c][i] = call'[c].steps[0 + i]
    BY <1>1
  <1> QED BY <1>1, <1>2, Moved

LEMMA CallFunctionKeeps ==
    ASSUME NEW c \in Client, Probe, Tables, ClientInv(c), CallFunction(c)
    PROVE  ClientInv(c)'
  <1>1. PICK f \in Functions : Calls(c, f)
    BY DEF CallFunction
  <1>2. /\ call[c] = None /\ call'[c] = f /\ todo'[c] = f.steps /\ f \in Library
        /\ UNCHANGED <<probe, ret, got, record, cnt, dirty, retried, inRange, var, asked, now>>
    BY <1>1, LibraryAssumption DEF Calls, CallFunction, Tables, probe
  <1>3. ret[c] = "E_OK" /\ ~retried[c]
    BY <1>2 DEF ClientInv, Positioned
  <1>4. Positioned(c)' /\ Behind(c)' = 0
    BY <1>2, <1>3, StepsOfCallable DEF Callable
  <1>5. Locals(c)'
    BY <1>2 DEF ClientInv, Locals
  <1>6. Done(c)'
    BY <1>4 DEF Done
  <1>7. Asking(c)' /\ Counting(c)'
    BY <1>2, Names DEF Asking, Counting, Ranged
  <1>8. Fresh(c)'
    <2> SUFFICES ASSUME Busy(c)', NextStep(c)'.op = "modify"
                 PROVE  FALSE
      BY DEF Fresh
    <2>1. NextStep(c)' = f.steps[1] /\ 1 \in 1 .. Len(f.steps) /\ Kind(f, 1)
      BY <1>2, <1>4, UpcomingPrimed
    <2>2. f # sensor_log_extract
      BY <1>2, <2>1, NotPlain DEF Extracting
    <2>3. PlainStep(f, 1)
      BY <1>2, <2>1, <2>2, LibraryIsPlain DEF Plain
    <2> QED BY <2>1, <2>3 DEF PlainStep, ReadBefore
  <1>9. Whole(c)'
    <2>1. Behind(c)' - StampRead(f) \notin 0 .. MAX_SENSOR_COUNT
      BY <1>4, DataLogAssumption DEF StampRead
    <2> QED BY <1>2, <2>1 DEF Whole
  <1> QED BY <1>4, <1>5, <1>6, <1>7, <1>8, <1>9 DEF ClientInv

LEMMA CallWithRangeKeeps ==
    ASSUME NEW c \in Client, Probe, Tables, ClientInv(c), CallWithRange(c)
    PROVE  ClientInv(c)'
  <1>1. PICK f \in Ranged, r \in Ranges \cup {EraseAll} :
           /\ Calls(c, f)
           /\ var' = [var EXCEPT ![c] = [START |-> r[1], END |-> r[2]]]
           /\ asked' = [asked EXCEPT ![c] = [START |-> r[1], END |-> r[2]]]
    BY DEF CallWithRange
  <1>2. /\ call[c] = None /\ call'[c] = f /\ todo'[c] = f.steps
        /\ var'[c] = [START |-> r[1], END |-> r[2]] /\ asked'[c] = var'[c]
        /\ UNCHANGED <<probe, ret, got, record, cnt, dirty, retried, inRange, now>>
    BY <1>1 DEF Calls, Tables, probe
  <1>3. ret[c] = "E_OK" /\ ~retried[c] /\ cnt[c] = 0
    BY <1>2 DEF ClientInv, Positioned
  <1>4. Positioned(c)' /\ Behind(c)' = 0
    BY <1>2, <1>3, StepsOfCallable DEF Callable
  <1>5. Locals(c)'
    <2>1. r[1] \in Times /\ r[2] \in Times
      BY DataLogAssumption DEF EraseAll, Times, LOG_TIME_LAST_FOUND, LOG_TIME_EOF
    <2> QED BY <1>2, <2>1 DEF ClientInv, Locals
  <1>6. Asking(c)'
    BY <1>2, <1>4 DEF Asking
  <1>7. Whole(c)'
    BY <1>2, <1>4, NothingRead
  <1>8. Counting(c)'
    <2>1. Cardinality({}) = 0 /\ MAX_SENSOR_COUNT \in Nat
      BY FS_EmptySet, DataLogAssumption
    <2>2. Counted(c, {})'
      BY <1>2, <1>3, <1>4, <2>1 DEF Counted
    <2> QED BY <2>2 DEF Counting
  <1> QED BY <1>2, <1>4, <1>5, <1>6, <1>7, <1>8, RangedKeeps

LEMMA RetryKeeps ==
    ASSUME NEW c \in Client, Probe, Tables, ClientInv(c), Retry(c)
    PROVE  ClientInv(c)'
  <1>1. /\ call[c] # None /\ call[c].name = "sensor_log_search"
        /\ todo'[c] = SearchSteps /\ ret'[c] = "E_OK" /\ dirty'[c] = {} /\ retried'[c] = TRUE
        /\ UNCHANGED <<call, locals, asked, inRange, now>>
    BY DEF Retry, Tables, probe
  <1>2. call[c] = sensor_log_search
    BY <1>1, Names DEF ClientInv, Positioned
  <1>3. Positioned(c)' /\ Behind(c)' = 0
    <2>1. sensor_log_search.steps = SearchSteps /\ sensor_log_search \in Callable
      BY DEF sensor_log_search, Function, Callable, Ranged
    <2> QED BY <1>1, <1>2, <2>1, StepsOfCallable
  <1>4. Locals(c)'
    BY <1>1 DEF ClientInv, Locals, locals
  <1>5. call'[c] \in Ranged
    BY <1>1, <1>2 DEF Ranged
  <1>6. Asking(c)'
    BY <1>1 DEF Asking
  <1>7. Counting(c)'
    BY <1>1, <1>2, Names DEF Counting
  <1> QED BY <1>3, <1>4, <1>5, <1>6, <1>7, NothingRead, RangedKeeps

LEMMA NoRangeTyped ==
    /\ NoRange \in [START : Times, END : Times] /\ DOMAIN NoRecord = {"time", "value"}
    /\ DOMAIN NoRecord.value = 0 .. MAX_SENSOR_COUNT - 1
  BY DEF NoRange, NoRecord, Times, LOG_TIME_EOF

LEMMA ReturnsKeeps ==
    ASSUME NEW c \in Client, Probe, Tables, ClientInv(c), Returns(c)
    PROVE  ClientInv(c)'
  <1>1. /\ call'[c] = None /\ todo'[c] = <<>> /\ ret'[c] = "E_OK" /\ var'[c] = NoRange
        /\ record'[c] = NoRecord /\ cnt'[c] = 0 /\ dirty'[c] = {} /\ ~retried'[c]
        /\ inRange'[c] = {}
    BY DEF Returns, Forgets, Tables
  <1>2. Locals(c)'
    BY <1>1, NoRangeTyped DEF Locals
  <1>3. Positioned(c)' /\ Done(c)' /\ Fresh(c)'
    BY <1>1 DEF Positioned, Done, Fresh, Busy
  <1>4. Asking(c)' /\ Whole(c)' /\ Counting(c)'
    BY <1>1, Names DEF Asking, Whole, Counting, Callable, Ranged, Extracting
  <1> QED BY <1>2, <1>3, <1>4 DEF ClientInv

\* A call, a retry and a return leave the probe and the other clients alone.
LEMMA CallTables ==
    ASSUME NEW c \in Client, Tables,
           CallFunction(c) \/ CallWithRange(c) \/ Retry(c) \/ Returns(c)
    PROVE  /\ Tables' /\ UNCHANGED probe
           /\ \A d \in Client \ {c} : Untouched(d) /\ dirty'[d] = dirty[d]
  <1>1. CASE CallFunction(c)
    BY <1>1 DEF CallFunction, Calls, Tables, Untouched
  <1>2. CASE CallWithRange(c)
    <2>1. PICK f \in Ranged, r \in Ranges \cup {EraseAll} :
             /\ Calls(c, f)
             /\ var' = [var EXCEPT ![c] = [START |-> r[1], END |-> r[2]]]
             /\ asked' = [asked EXCEPT ![c] = [START |-> r[1], END |-> r[2]]]
      BY <1>2 DEF CallWithRange
    <2> QED BY <2>1 DEF Calls, Tables, Untouched
  <1>3. CASE Retry(c)
    BY <1>3 DEF Retry, Tables, Untouched, locals
  <1>4. CASE Returns(c)
    BY <1>4 DEF Returns, Forgets, Tables, Untouched
  <1> QED BY <1>1, <1>2, <1>3, <1>4

\* The probe becomes ready or logs a record.
LEMMA ProbeKeeps ==
    ASSUME Probe, Tables, ProbeStep
    PROVE  /\ Probe' /\ Tables'
           /\ \A d \in Client : ClientInv(d) => Environment(d)
  <1>1. UNCHANGED <<call, todo, ret, got, var, record, cnt, dirty, asked, retried, inRange>>
    BY DEF ProbeStep, locals, history
  <1>2. Tables'
    BY <1>1 DEF Tables
  <1>3. /\ \A t \in LogTimes : t \in Nat
        /\ now \in LogTimes
    BY LogTimesInRange DEF Probe
  <1>4. CASE BecomesReady
    <2>1. ready' = TRUE /\ UNCHANGED <<reg, log, now, found, extracted>>
      BY <1>4 DEF BecomesReady
    <2>2. Probe'
      BY <2>1 DEF Probe
    <2>3. now <= now'
      BY <1>3, <2>1
    <2>4. \A d \in Client : ClientInv(d) => Environment(d)
      BY <1>1, <2>1, <2>3 DEF Environment, ClientInv, Locals
    <2> QED BY <1>2, <2>2, <2>4
  <1>5. CASE Logs
    <2>1. /\ now' \in LogTimes /\ now' > now /\ log' = log \cup {now'}
          /\ found' = found \/ found' = found \cup {now'}
          /\ UNCHANGED <<reg, ready, extracted>>
      BY <1>5 DEF Logs
    <2>2. now < now' /\ now <= now'
      BY <1>3, <2>1
    <2>3. \A t \in log \cup found \cup LoggedBefore : t <= now'
      <3> TAKE t \in log \cup found \cup LoggedBefore
      <3>1. t \in LogTimes /\ t <= now
        BY DataLogAssumption DEF Probe
      <3> QED BY <1>3, <2>1, <2>2, <3>1
    <2>4. now' <= now'
      BY <1>3, <2>1
    <2>5. Probe'
      BY <2>1, <2>3, <2>4 DEF Probe
    <2>6. \A d \in Client : ClientInv(d) => Environment(d)
      BY <1>1, <2>1, <2>2 DEF Environment, ClientInv, Locals
    <2> QED BY <1>2, <2>5, <2>6
  <1> QED BY <1>4, <1>5 DEF ProbeStep

-----------------------------------------------------------------------------
(* The invariant is inductive                                              *)

LEMMA Initially == Init => IInv
  <1> SUFFICES ASSUME Init PROVE IInv
    OBVIOUS
  <1> USE DEF Init
  <1>1. LoggedBefore \in SUBSET LogTimes /\ LoggedBefore # {} /\ now = Latest(LoggedBefore)
    BY DataLogAssumption DEF Latest
  <1>2. now \in LoggedBefore /\ \A t \in LoggedBefore : t <= now
    <2>1. Latest(LoggedBefore) \in LoggedBefore
      BY <1>1, EndsOfRange
    <2>2. \E t \in LoggedBefore : \A u \in LoggedBefore : u <= t
      BY <1>1, LatestExists
    <2> QED BY <1>1, <2>1, <2>2 DEF Latest
  <1>3. Probe
    BY <1>1, <1>2, DefaultsTyped DEF Probe
  <1>4. Tables
    BY DEF Tables
  <1>5. ASSUME NEW c \in Client
        PROVE  ClientInv(c)
    <2>1. /\ call[c] = None /\ todo[c] = <<>> /\ ret[c] = "E_OK" /\ var[c] = NoRange
          /\ record[c] = NoRecord /\ cnt[c] = 0 /\ dirty[c] = {} /\ ~retried[c]
          /\ inRange[c] = {}
      OBVIOUS
    <2> USE DEF Init
    <2>2. Locals(c)
      BY <2>1, NoRangeTyped DEF Locals
    <2>3. Positioned(c) /\ Done(c) /\ Fresh(c)
      BY <2>1 DEF Positioned, Done, Fresh, Busy
    <2>4. Asking(c) /\ Whole(c) /\ Counting(c)
      BY <2>1, Names DEF Asking, Whole, Counting, Callable, Ranged, Extracting
    <2> QED BY <2>2, <2>3, <2>4 DEF ClientInv
  <1> QED BY <1>3, <1>4, <1>5 DEF IInv

LEMMA Inductive == IInv /\ [Next]_vars => IInv'
  <1> SUFFICES ASSUME IInv, [Next]_vars PROVE IInv'
    OBVIOUS
  <1>1. Probe /\ Tables /\ \A c \in Client : ClientInv(c)
    BY DEF IInv
  <1>2. ASSUME NEW c \in Client, Access(c)
        PROVE  IInv'
    <2>1. Probe' /\ ClientInv(c)' /\ Tables'
      BY <1>1, <1>2, AccessOwn, AccessTables
    <2>2. ASSUME NEW d \in Client \ {c}
          PROVE  ClientInv(d)'
      BY <1>1, <1>2, <2>1, AccessElsewhere, OthersKeep
    <2> QED BY <2>1, <2>2 DEF IInv
  <1>3. ASSUME NEW c \in Client,
               CallFunction(c) \/ CallWithRange(c) \/ Retry(c) \/ Returns(c)
        PROVE  IInv'
    <2>1. /\ Tables' /\ UNCHANGED probe
          /\ \A d \in Client \ {c} : Untouched(d) /\ dirty'[d] = dirty[d]
      BY <1>1, <1>3, CallTables
    <2>2. ClientInv(c)'
      BY <1>1, <1>3, CallFunctionKeeps, CallWithRangeKeeps, RetryKeeps, ReturnsKeeps
    <2>3. Probe'
      BY <1>1, <2>1 DEF probe, Probe
    <2>4. ASSUME NEW d \in Client \ {c}
          PROVE  ClientInv(d)'
      <3>1. dirty[d] \subseteq Everything
        BY <1>1 DEF ClientInv, Locals
      <3> QED BY <1>1, <2>1, <2>3, <3>1, AloneElsewhere, OthersKeep
    <2> QED BY <2>1, <2>2, <2>3, <2>4 DEF IInv
  <1>4. CASE ProbeStep
    BY <1>1, <1>4, ProbeKeeps, OthersKeep DEF IInv
  <1>5. CASE UNCHANGED vars
    <2>1. /\ UNCHANGED probe
          /\ UNCHANGED <<call, todo, ret, got, var, record, cnt, dirty, asked, retried, inRange>>
      BY <1>5 DEF vars, locals, history
    <2>2. Probe' /\ Tables'
      BY <1>1, <2>1 DEF probe, Probe, Tables
    <2>3. ASSUME NEW d \in Client
          PROVE  ClientInv(d)'
      <3>1. dirty[d] \subseteq Everything /\ Untouched(d)
        BY <1>1, <2>1 DEF ClientInv, Locals, Untouched
      <3> QED BY <1>1, <2>1, <2>2, <3>1, AloneElsewhere, OthersKeep
    <2> QED BY <2>2, <2>3 DEF IInv
  <1> QED BY <1>2, <1>3, <1>4, <1>5 DEF Next

LEMMA Invariance == Spec => []IInv
  BY Initially, Inductive, PTL DEF Spec

-----------------------------------------------------------------------------
(* What the clients rely on                                                *)

LEMMA Typed == IInv => TypeOK
  <1> SUFFICES ASSUME IInv PROVE TypeOK
    OBVIOUS
  <1>1. Probe /\ \A c \in Client : Locals(c)
    BY DEF IInv, ClientInv
  <1>2. /\ log \subseteq LogTimes /\ found \subseteq LogTimes
        /\ extracted \in LogTimes \cup {LOG_TIME_EOF}
        /\ ready \in BOOLEAN /\ now \in LogTimes
        /\ reg.SYSTEM_CONTROL \subseteq SystemBits
        /\ reg.INTERRUPT_CONTROL \subseteq InterruptBits
        /\ {reg.EXTRACT_START_TIME, reg.EXTRACT_END_TIME} \subseteq Times
    BY <1>1 DEF Probe
  <1>3. ASSUME NEW c \in Client
        PROVE  /\ ret[c] \in {"E_OK", "E_BUFFER_MEM_SIZE", "E_PORT_ERR", "E_BUS_OPERATION"}
               /\ cnt[c] \in Nat
               /\ {var[c].START, var[c].END} \subseteq Times
               /\ dirty[c] \subseteq Everything
               /\ inRange[c] \subseteq LogTimes
    BY <1>1 DEF Locals
  <1> QED BY <1>2, <1>3 DEF TypeOK

LEMMA Reliable == IInv => SuccessMeansDone
  <1> SUFFICES ASSUME IInv, NEW c \in Client, Succeeded(c), NEW i \in DOMAIN call[c].steps,
                      call[c].steps[i].reg \in DOMAIN reg \ dirty[c]
               PROVE  LET s == call[c].steps[i] IN
                      /\ s.op = "write" => reg[s.reg] = s.arg
                      /\ s.op = "modify" => /\ s.arg.set \subseteq reg[s.reg]
                                            /\ s.arg.clear \cap reg[s.reg] = {}
    BY DEF SuccessMeansDone
  <1>1. /\ Positioned(c) /\ Done(c) /\ DOMAIN reg = DOMAIN Defaults
        /\ call[c] # None /\ todo[c] = <<>> /\ ret[c] = "E_OK"
    BY DEF IInv, ClientInv, Probe, Succeeded
  <1>2. i \in 1 .. Behind(c)
    BY <1>1, Place
  <1>3. Holds(call[c].steps[i], c)
    BY <1>1, <1>2 DEF Done
  <1> QED BY <1>1, <1>3 DEF Holds

\* The place at which a record is complete.
LEMMA RecordComplete ==
    ASSUME NEW c \in Client, ClientInv(c),
           \/ In(c, "sensor_log_extract") /\ Succeeded(c)
           \/ Busy(c) /\ NextStep(c).op = "again"
    PROVE  /\ call[c] \in Extracting /\ ret[c] = "E_OK"
           /\ Behind(c) - StampRead(call[c]) = MAX_SENSOR_COUNT
  <1>1. Positioned(c) /\ MAX_SENSOR_COUNT \in Nat
    BY DataLogAssumption DEF ClientInv
  <1>2. CASE In(c, "sensor_log_extract") /\ Succeeded(c)
    <2>1. call[c] # None /\ call[c].name = "sensor_log_extract" /\ todo[c] = <<>>
          /\ ret[c] = "E_OK"
      BY <1>2 DEF In, Succeeded
    <2>2. call[c] = sensor_log_extract
      BY <1>1, <2>1, Place, Names
    <2>3. Behind(c) = MAX_SENSOR_COUNT + 1
      BY <1>1, <2>1, <2>2, Place, ExtractShape
    <2> QED BY <1>1, <2>1, <2>2, <2>3 DEF Extracting, StampRead
  <1>3. CASE Busy(c) /\ NextStep(c).op = "again"
    <2>1. call[c] \in Ranged \cup Extracting
      <3>1. /\ call[c] \in Callable /\ NextStep(c) = call[c].steps[Behind(c) + 1]
            /\ Behind(c) + 1 \in 1 .. Len(call[c].steps)
        BY <1>1, <1>3, Upcoming
      <3>2. ~PlainStep(call[c], Behind(c) + 1)
        BY <1>3, <3>1 DEF PlainStep
      <3> QED BY <3>1, <3>2, LibraryIsPlain DEF Plain, Callable, Extracting
    <2>2. call[c] = sensor_log_count_record /\ Behind(c) = MAX_SENSOR_COUNT + 7
      BY <1>1, <1>3, <2>1, RangedPlace DEF Trigger, Write, Next1, Stamp, Step
    <2>3. call[c] \in Extracting /\ StampRead(call[c]) = 7
      BY <2>2, Names DEF Extracting, StampRead
    <2> QED BY <1>1, <1>3, <2>2, <2>3 DEF Positioned
  <1> QED BY <1>2, <1>3

LEMMA Complete == IInv => RecordIsWhole
  <1> SUFFICES ASSUME IInv, NEW c \in Client,
                      \/ In(c, "sensor_log_extract") /\ Succeeded(c)
                      \/ Busy(c) /\ NextStep(c).op = "again",
                      "EXTRACTED" \notin dirty[c]
               PROVE  \/ record[c].time = LOG_TIME_EOF
                      \/ \A i \in DOMAIN record[c].value : record[c].value[i] = record[c].time
    BY DEF RecordIsWhole
  <1>1. /\ ClientInv(c) /\ DOMAIN record[c].value = 0 .. MAX_SENSOR_COUNT - 1
    BY DEF IInv, ClientInv, Locals
  <1>2. /\ call[c] \in Extracting /\ ret[c] = "E_OK"
        /\ Behind(c) - StampRead(call[c]) = MAX_SENSOR_COUNT
    BY <1>1, RecordComplete
  <1>3. MAX_SENSOR_COUNT \in 0 .. MAX_SENSOR_COUNT
    BY DataLogAssumption
  <1>4. /\ record[c].time = extracted
        /\ extracted # LOG_TIME_EOF
              => \A i \in 0 .. MAX_SENSOR_COUNT - 1 : record[c].value[i] = extracted
    BY <1>1, <1>2, <1>3 DEF ClientInv, Whole
  <1> QED BY <1>1, <1>4

LEMMA Counts == IInv => CountsTheRange
  <1> SUFFICES ASSUME IInv, NEW c \in Client, In(c, "sensor_log_count_record"), Undisturbed(c)
               PROVE  /\ Succeeded(c) => cnt[c] >= Cardinality(inRange[c])
                      /\ cnt[c] <= Cardinality(inRange[c] \cup New)
    BY DEF CountsTheRange, Undisturbed, New
  <1>1. ClientInv(c) /\ Positioned(c) /\ call[c] # None
    BY DEF IInv, ClientInv, In
  <1>2. call[c] = sensor_log_count_record
    BY <1>1, Place, Names DEF In
  <1>3. PICK C \in SUBSET LogTimes : Counted(c, C)
    BY <1>1, <1>2 DEF ClientInv, Counting
  <1>4. \A S \in SUBSET LogTimes : IsFiniteSet(S)
    <2>1. 1 \in Int /\ 6 \in Int /\ \A S \in SUBSET LogTimes : S \subseteq 1 .. 6
      BY LogTimesInRange
    <2>2. IsFiniteSet(1 .. 6)
      BY ONLY <2>1, FS_Interval
    <2> QED BY ONLY <2>1, <2>2, FS_Subset
  <1>5. cnt[c] = Cardinality(C) /\ C \subseteq inRange[c] \cup New
    BY <1>3 DEF Counted
  <1>6. cnt[c] <= Cardinality(inRange[c] \cup New)
    <2>1. inRange[c] \cup New \in SUBSET LogTimes
      BY <1>1 DEF ClientInv, Locals, New
    <2>2. IsFiniteSet(inRange[c] \cup New)
      BY <1>4, <2>1
    <2>3. Cardinality(C) <= Cardinality(inRange[c] \cup New)
      BY ONLY <1>5, <2>2, FS_Subset
    <2> QED BY <1>5, <2>3
  <1>7. ASSUME Succeeded(c)
        PROVE  cnt[c] >= Cardinality(inRange[c])
    <2>1. todo[c] = <<>> /\ ret[c] = "E_OK"
      BY <1>7 DEF Succeeded
    <2>2. Behind(c) = MAX_SENSOR_COUNT + 8 /\ MAX_SENSOR_COUNT \in Nat
      BY <1>1, <1>2, <2>1, Place, CountShape, DataLogAssumption
    <2>3. inRange[c] \subseteq C
      BY <1>3, <2>1, <2>2 DEF Counted
    <2>4. IsFiniteSet(C)
      BY <1>4
    <2>5. Cardinality(inRange[c]) <= Cardinality(C)
      BY ONLY <2>3, <2>4, FS_Subset
    <2>6. Cardinality(inRange[c]) \in Nat /\ Cardinality(C) \in Nat
      BY ONLY <2>3, <2>4, FS_Subset, FS_CardinalityType
    <2> QED BY <1>5, <2>5, <2>6
  <1> QED BY <1>6, <1>7

\* A step that makes the next step of c is an access of c.
LEMMA OnlyAccess ==
    ASSUME IInv, [Next]_vars, NEW c \in Client, Busy(c), todo'[c] # todo[c]
    PROVE  Access(c)
  <1>1. Tables /\ Probe /\ \A d \in Client : Positioned(d) /\ ClientInv(d)
    BY DEF IInv, ClientInv
  <1>2. call[c] # None /\ todo[c] # <<>>
    BY <1>1, Upcoming DEF Busy
  <1>3. ASSUME NEW d \in Client \ {c},
               Access(d) \/ CallFunction(d) \/ CallWithRange(d) \/ Retry(d) \/ Returns(d)
        PROVE  FALSE
    <2>1. Untouched(c)
      BY <1>1, <1>3, AccessTables, CallTables
    <2> QED BY <2>1 DEF Untouched
  <1>4. ~CallFunction(c) /\ ~CallWithRange(c) /\ ~Retry(c) /\ ~Returns(c)
    BY <1>2 DEF CallFunction, CallWithRange, Calls, Retry, Returns
  <1>5. ~ProbeStep /\ ~UNCHANGED vars
    BY DEF ProbeStep, vars
  <1> QED BY <1>3, <1>4, <1>5 DEF Next

LEMMA OwnBits ==
    ASSUME IInv, [Next]_vars, NEW c \in Client, Busy(c), todo'[c] # todo[c],
           NextStep(c).op = "modify", NextStep(c).reg \notin dirty[c]
    PROVE  LET s == NextStep(c) IN
           reg'[s.reg] \in {reg[s.reg], (reg[s.reg] \ s.arg.clear) \cup s.arg.set}
  <1> DEFINE s == NextStep(c)
  <1>1. Access(c) /\ Probe /\ ClientInv(c)
    BY OnlyAccess DEF IInv
  <1>2. UNCHANGED reg \/ Takes(c, s)
    BY <1>1 DEF Access, CountsRecord, RefusedAccess, WriteAccess, ReadAccess, PollAccess, probe
  <1>3. CASE Takes(c, s)
    <2>1. Writable(c, s)
      BY <1>1, NextWritable
    <2>2. s.reg # "TRIGGER_REQUESTS"
      BY <1>1, ModifyIsPlain DEF ClientInv, BitsOf
    <2>3. reg'[s.reg] = Written(c, s)
      BY <1>1, <1>3, <2>1, <2>2, RegisterWritten
    <2>4. got[c] = reg[s.reg]
      BY <1>1 DEF ClientInv, Fresh
    <2> QED BY <2>3, <2>4 DEF Written
  <1> QED BY <1>2, <1>3

\* The range is in the registers when it is searched or erased.
LEMMA RangeIsThere ==
    ASSUME IInv, NEW c \in Client, Busy(c), NextStep(c).reg = "TRIGGER_REQUESTS",
           NextStep(c).arg \in {"TRIGGER_EXTRACT", "TRIGGER_CLEAR_LOG"},
           {"EXTRACT_START_TIME", "EXTRACT_END_TIME"} \cap dirty[c] = {},
           ~(In(c, "sensor_log_search") /\ retried[c])
    PROVE  /\ reg.EXTRACT_START_TIME = asked[c].START
           /\ reg.EXTRACT_END_TIME = asked[c].END
  <1> DEFINE s == NextStep(c)
  <1>1. /\ ClientInv(c) /\ Positioned(c) /\ call[c] # None /\ call[c] \in Callable
        /\ s = call[c].steps[Behind(c) + 1] /\ Behind(c) + 1 \in 1 .. Len(call[c].steps)
    BY Upcoming DEF IInv, ClientInv
  <1>2. call[c] \notin Library \ {sensor_log_extract}
    <2> SUFFICES ASSUME call[c] \in Library \ {sensor_log_extract}
                 PROVE  FALSE
      OBVIOUS
    <2>1. PlainStep(call[c], Behind(c) + 1)
      BY <1>1, LibraryIsPlain DEF Plain
    <2> QED BY <1>1, <2>1, TriggersOfPlain
  <1>3. call[c] \in Ranged \cup Extracting
    BY <1>1, <1>2 DEF Callable, Extracting
  <1>4. call[c] \in Ranged /\ Behind(c) = 2
    <2>1. s # Next1 /\ s # Stamp /\ s # Again
          /\ \A i : s # Step("value", "EXTRACTED_DATA", Sizeof.float, i)
      BY DataLogAssumption DEF Next1, Trigger, Write, Stamp, Again, Step
    <2> QED BY <1>1, <1>3, <2>1, RangedPlace DEF Ranged, RangeRegisters
  <1>5. ~retried[c]
    <2>1. retried[c] => call[c].name = "sensor_log_search"
      BY <1>1, Names DEF Positioned
    <2> QED BY <1>1, <2>1 DEF In
  <1> QED BY <1>1, <1>4, <1>5 DEF ClientInv, Asking

\* The values of the registers, the log and the variables of the clients.
THEOREM TypeCorrect == Spec => []TypeOK
  BY Invariance, Typed, PTL

\* A function that reports success has left every register as it meant to, unless
\* another client wrote it during the call.
THEOREM SuccessAlwaysMeansDone == Spec => []SuccessMeansDone
  BY Invariance, Reliable, PTL

\* An extraction and the look of a count at a record are of one record, unless
\* another client moved the extraction on.
THEOREM RecordAlwaysWhole == Spec => []RecordIsWhole
  BY Invariance, Complete, PTL

\* A count that no other client disturbs is between the number of records that
\* were in the range and that number with those logged since.
THEOREM AlwaysCountsTheRange == Spec => []CountsTheRange
  BY Invariance, Counts, PTL

\* A client that sets or clears bits leaves the other bits alone, unless another
\* client wrote the register between its read and its write.
THEOREM AlwaysOnlyOwnBits == Spec => OnlyOwnBits
  <1>1. ASSUME IInv, [Next]_vars
        PROVE  [\A c \in Client :
                   LET s == NextStep(c) IN
                   /\ Busy(c) /\ todo'[c] # todo[c] /\ s.op = "modify" /\ s.reg \notin dirty[c]
                   => reg'[s.reg] \in {reg[s.reg], (reg[s.reg] \ s.arg.clear) \cup s.arg.set}]_vars
    BY <1>1, OwnBits
  <1> QED BY <1>1, Invariance, PTL DEF Spec, OnlyOwnBits

\* A search or an erasure is of the range its caller asked for, unless another client
\* wrote the range or the search repeats one that failed.
THEOREM AskedRangeAlwaysUsed == Spec => AskedRangeIsUsed
  <1>1. ASSUME IInv, [Next]_vars
        PROVE  [\A c \in Client :
                   LET s == NextStep(c) IN
                   /\ Busy(c) /\ todo'[c] # todo[c] /\ s.reg = "TRIGGER_REQUESTS"
                   /\ s.arg \in {"TRIGGER_EXTRACT", "TRIGGER_CLEAR_LOG"}
                   /\ {"EXTRACT_START_TIME", "EXTRACT_END_TIME"} \cap dirty[c] = {}
                   /\ ~(In(c, "sensor_log_search") /\ retried[c])
                   => /\ reg.EXTRACT_START_TIME = asked[c].START
                      /\ reg.EXTRACT_END_TIME = asked[c].END]_vars
    BY <1>1, RangeIsThere
  <1> QED BY <1>1, Invariance, PTL DEF Spec, AskedRangeIsUsed
=============================================================================
