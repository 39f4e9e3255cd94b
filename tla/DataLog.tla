------------------------------ MODULE DataLog ------------------------------
(***************************************************************************)
(* The data log of a probe (core/datalog.c) and the configuration of the   *)
(* probe it depends on, used by several clients at the same time: threads  *)
(* of one process or processes.  An access to a register is atomic, as     *)
(* SharedBus shows; a function is a sequence of accesses, and the accesses *)
(* of other clients, the probe's own logging and failures fall between     *)
(* them.                                                                   *)
(*                                                                         *)
(* A number of 32 bits is here a number of two digits, so that reversing   *)
(* its bytes is exchanging the digits.                                     *)
(***************************************************************************)
EXTENDS Configuration, Integers, FiniteSets

CONSTANTS Client,
          Functions,         \* the functions of smartsensor.c the clients call
          Ranges,            \* the pairs <<start, end>> the clients ask for
          LogTimes,          \* the times at which the probe may log a record
          LoggedBefore,      \* the records in the log at the start
          MAX_SENSOR_COUNT,
          MaxCalls,          \* bound on the calls made by all clients
          MaxFailures,       \* bound on the accesses that fail
          None

(* The numbers of datalog.h; a digit is one of 0 to 3 *)
Base == 4

\* Mutant: a digit ends up one place too far.
ReversedTooFar(t) == (t % Base) * Base * Base + t \div Base

Reversed(t) == (t % Base) * Base + t \div Base
LOG_TIME_FIRST_FOUND == 0
LOG_TIME_LAST_FOUND == 7
LOG_TIME_EOF == 15
Times == 0 .. LOG_TIME_EOF

ASSUME DataLogAssumption ==
    /\ Ranges \subseteq Times \X Times
    /\ LoggedBefore \subseteq LogTimes
    /\ LogTimes \subseteq LOG_TIME_FIRST_FOUND + 1 .. LOG_TIME_LAST_FOUND - 1
    /\ MAX_SENSOR_COUNT \in Nat \ {0}
    /\ None # "TRIGGER_REQUESTS"

VARIABLES
    reg,       \* the probe: its configuration registers,
    ready,     \* device_ready of its status,
    log,       \* the times of its records,
    now,       \* the time of the last record,
    found,     \* the times the last EXTRACT found and NEXT has not passed
    extracted, \* and the record in the EXTRACTED_ registers: its time or EOF;
    call,      \* a client: the function it is in, or None,
    todo,      \* the steps left,
    ret,
    got,       \* the bits it read last,
    var,       \* the caller's start and end time of a search,
    record,    \* the record read so far,
    cnt,
    dirty,     \* history: what others wrote since the call began,
    asked,     \* history: the range the caller meant,
    retried,   \* history: this is a search with the variables of one that failed,
    inRange,   \* history: the records in the range when the count's search ran
    calls, failures

probe == <<reg, ready, log, now, found, extracted>>
locals == <<got, var, record, cnt>>
history == <<dirty, asked, retried, inRange>>
bounds == <<calls, failures>>
vars == <<probe, call, todo, ret, locals, history, bounds>>

Defaults == [SYSTEM_CONTROL |-> {"EVENT_1_LOG"}, INTERRUPT_CONTROL |-> {},
             EVENT_0_TIME_BASE |-> 0, EVENT_1_TIME_BASE |-> 0,
             EXTRACT_START_TIME |-> LOG_TIME_FIRST_FOUND,
             EXTRACT_END_TIME |-> LOG_TIME_LAST_FOUND]

NoRecord == [time |-> None, value |-> [i \in 0 .. MAX_SENSOR_COUNT - 1 |-> None]]

NoRange == [START |-> 0, END |-> 0]

\* The probe has been used before: any record may be the extracted one.
Init ==
    /\ reg = Defaults
    /\ ready = TRUE
    /\ log = LoggedBefore
    /\ now = CHOOSE t \in LoggedBefore : \A u \in LoggedBefore : u <= t
    /\ extracted \in LoggedBefore
    /\ found = {t \in LoggedBefore : t > extracted}
    /\ call = [c \in Client |-> None]
    /\ todo = [c \in Client |-> <<>>]
    /\ ret = [c \in Client |-> "E_OK"]
    /\ got = [c \in Client |-> {}]
    /\ var = [c \in Client |-> NoRange]
    /\ record = [c \in Client |-> NoRecord]
    /\ cnt = [c \in Client |-> 0]
    /\ dirty = [c \in Client |-> {}]
    /\ asked = [c \in Client |-> NoRange]
    /\ retried = [c \in Client |-> FALSE]
    /\ inRange = [c \in Client |-> {}]
    /\ calls = 0
    /\ failures = 0

-----------------------------------------------------------------------------
(* The functions of datalog.c.  The times of a range are arguments that the *)
(* steps take from the caller's variables.                                  *)

WriteTime(name) == Step("writetime", name, Sizeof.u32, {})
ReadTime(name) == Step("readtime", name, Sizeof.u32, {})

sensor_log_enable(bits) == system_control_set_bits(bits)
sensor_log_disable(bits) == system_control_clear_bits(bits)

SearchSteps ==
    <<WriteTime("EXTRACT_START_TIME"), WriteTime("EXTRACT_END_TIME"),
      Trigger("TRIGGER_EXTRACT"),
      ReadTime("EXTRACT_START_TIME"), ReadTime("EXTRACT_END_TIME")>>

sensor_log_search == Function("sensor_log_search", SearchSteps)

\* Mutant: the values are read of the record after.
ExtractStepsLate ==
    <<Step("stamp", "EXTRACTED_TIME_STAMP", Sizeof.u32, {}), Trigger("TRIGGER_EXTRACT_NEXT")>>
    \o [i \in 1 .. MAX_SENSOR_COUNT |-> Step("value", "EXTRACTED_DATA", Sizeof.float, i - 1)]

\* The time stamp, then the values, which are skipped at the end of the log.
ExtractSteps ==
    <<Step("stamp", "EXTRACTED_TIME_STAMP", Sizeof.u32, {})>>
    \o [i \in 1 .. MAX_SENSOR_COUNT |-> Step("value", "EXTRACTED_DATA", Sizeof.float, i - 1)]

sensor_log_extract == Function("sensor_log_extract", ExtractSteps)

sensor_log_extract_next ==
    Function("sensor_log_extract_next", <<Trigger("TRIGGER_EXTRACT_NEXT")>>)

sensor_log_erase ==
    Function("sensor_log_erase",
             <<WriteTime("EXTRACT_START_TIME"), WriteTime("EXTRACT_END_TIME"),
               Trigger("TRIGGER_CLEAR_LOG")>>)

CountSteps ==
    <<Trigger("TRIGGER_EXTRACT_NEXT")>> \o ExtractSteps \o <<Step("again", None, 0, {})>>

\* Mutant: the count begins with the record that was extracted before.
CountFromExtracted ==
    Function("sensor_log_count_record", SearchSteps \o Tail(CountSteps))

sensor_log_count_record ==
    Function("sensor_log_count_record", SearchSteps \o CountSteps)

\* A time with its highest bit set marks a record that is not one of the sensors.
\* Which of eight types such a record has, by its first value, matters to printing only.
sensor_log_get_record_type(r) ==
    IF r.time <= LOG_TIME_LAST_FOUND THEN "REC_SENSOR_DATA"
    ELSE IF r.time = LOG_TIME_EOF THEN "REC_EOF"
    ELSE "REC_SPECIAL"

\* sensor_log_erase_all asks for the same time twice, which erases everything.
EraseAll == <<LOG_TIME_LAST_FOUND, LOG_TIME_LAST_FOUND>>

Ranged == {sensor_log_search, sensor_log_erase, sensor_log_count_record}

\* The functions a client can call that take no range, with every argument.
Library ==
    {Getter(g) : g \in Getters}
    \cup {system_control_set_bits(bits) : bits \in SUBSET SystemBits}
    \cup {system_control_clear_bits(bits) : bits \in SUBSET SystemBits}
    \cup {system_control_write_bits(bits) : bits \in SUBSET SystemBits}
    \cup {set_interrupt_control(control) : control \in SUBSET InterruptBits}
    \cup {set_sample_time(sample_time) : sample_time \in Times}
    \cup {probe_default_init(LOG_TIME_FIRST_FOUND, LOG_TIME_EOF), preset_config,
          wait_for_device_ready, soft_reset, factory_reset, password_reset,
          sensor_log_extract, sensor_log_extract_next}

ASSUME LibraryAssumption ==
    Functions \subseteq Library /\ None \notin Library \cup Ranged

-----------------------------------------------------------------------------
(* Calls.  A search changes its caller's variables, every other function    *)
(* works on copies.                                                         *)

Calls(c, f) ==
    /\ call[c] = None /\ calls < MaxCalls
    /\ calls' = calls + 1
    /\ call' = [call EXCEPT ![c] = f]
    /\ todo' = [todo EXCEPT ![c] = f.steps]
    /\ UNCHANGED <<probe, ret, got, record, cnt, dirty, retried, inRange, failures>>

CallFunction(c) ==
    /\ \E f \in Functions : Calls(c, f)
    /\ UNCHANGED <<var, asked>>

CallWithRange(c) ==
    \E f \in Ranged : \E r \in Ranges \cup (IF f = sensor_log_erase THEN {EraseAll} ELSE {}) :
        /\ Calls(c, f)
        /\ var' = [var EXCEPT ![c] = [START |-> r[1], END |-> r[2]]]
        /\ asked' = [asked EXCEPT ![c] = [START |-> r[1], END |-> r[2]]]

\* The caller of a search that failed searches again with the same variables.
Retry(c) ==
    /\ call[c] # None /\ call[c].name = "sensor_log_search"
    /\ todo[c] = <<>> /\ ret[c] # "E_OK"
    /\ todo' = [todo EXCEPT ![c] = SearchSteps]
    /\ ret' = [ret EXCEPT ![c] = "E_OK"]
    /\ dirty' = [dirty EXCEPT ![c] = {}]
    /\ retried' = [retried EXCEPT ![c] = TRUE]
    /\ UNCHANGED <<probe, call, locals, asked, inRange, bounds>>

\* The variables of a function end with it, and with them what is said of the call.
Forgets(c) ==
    /\ ret' = [ret EXCEPT ![c] = "E_OK"]
    /\ got' = [got EXCEPT ![c] = {}]
    /\ var' = [var EXCEPT ![c] = NoRange]
    /\ record' = [record EXCEPT ![c] = NoRecord]
    /\ cnt' = [cnt EXCEPT ![c] = 0]
    /\ dirty' = [dirty EXCEPT ![c] = {}]
    /\ asked' = [asked EXCEPT ![c] = NoRange]
    /\ retried' = [retried EXCEPT ![c] = FALSE]
    /\ inRange' = [inRange EXCEPT ![c] = {}]

Returns(c) ==
    /\ call[c] # None /\ todo[c] = <<>>
    /\ call' = [call EXCEPT ![c] = None]
    /\ Forgets(c)
    /\ UNCHANGED <<probe, todo, bounds>>

-----------------------------------------------------------------------------
(* The probe, whose firmware is not part of the repository *)

InRange(s, e) == {t \in log : s <= t /\ t <= e}

Everything == DOMAIN Defaults \cup {"LOG", "EXTRACTED"}

Earliest(times) == CHOOSE t \in times : \A u \in times : t <= u
Latest(times) == CHOOSE t \in times : \A u \in times : u <= t

\* EXTRACT finds the records of the range, puts the times it found into the
\* registers and waits before the first record, as sensor_log_count_record expects.
Extract ==
    LET f == InRange(reg.EXTRACT_START_TIME, reg.EXTRACT_END_TIME) IN
    /\ found' = f
    /\ reg' = IF f = {} THEN reg
              ELSE [reg EXCEPT !.EXTRACT_START_TIME = Earliest(f),
                               !.EXTRACT_END_TIME = Latest(f)]
    /\ UNCHANGED <<ready, log, now, extracted>>

ExtractNext ==
    /\ extracted' = IF found = {} THEN LOG_TIME_EOF ELSE Earliest(found)
    /\ found' = found \ {extracted'}
    /\ UNCHANGED <<reg, ready, log, now>>

ClearLog ==
    /\ log' = IF <<reg.EXTRACT_START_TIME, reg.EXTRACT_END_TIME>> = EraseAll THEN {}
              ELSE log \ InRange(reg.EXTRACT_START_TIME, reg.EXTRACT_END_TIME)
    /\ found' = found \cap log'
    /\ UNCHANGED <<reg, ready, now, extracted>>

\* A device reset keeps the log, a factory reset does not.
Reset(command) ==
    /\ reg' = Defaults
    /\ ready' = FALSE
    /\ log' = IF command = "TRIGGER_FACTORY_RESET" THEN {} ELSE log
    /\ found' = {}
    /\ extracted' = LOG_TIME_EOF
    /\ UNCHANGED now

Triggered(command) ==
    \/ command = "TRIGGER_EXTRACT" /\ Extract
    \/ command = "TRIGGER_EXTRACT_NEXT" /\ ExtractNext
    \/ command = "TRIGGER_CLEAR_LOG" /\ ClearLog
    \/ command \in {"TRIGGER_DEVICE_RESET", "TRIGGER_FACTORY_RESET"} /\ Reset(command)
    \/ command = "TRIGGER_PASSWORD_RESET" /\ ready' = FALSE
       /\ UNCHANGED <<reg, log, now, found, extracted>>

BecomesReady ==
    /\ ~ready
    /\ ready' = TRUE
    /\ UNCHANGED <<reg, log, now, found, extracted>>

\* A record logged after EXTRACT may be found as well.
Logs ==
    /\ ready /\ "EVENT_1_LOG" \in reg.SYSTEM_CONTROL
    /\ \E t \in {u \in LogTimes : u > now} :
          /\ now' = t
          /\ log' = log \cup {t}
          /\ found' \in {found, found \cup {t}}
    /\ UNCHANGED <<reg, ready, extracted>>

ProbeStep ==
    /\ BecomesReady \/ Logs
    /\ UNCHANGED <<call, todo, ret, locals, history, bounds>>

-----------------------------------------------------------------------------
(* An access is the next step of a function *)

Busy(c) == todo[c] # <<>>
NextStep(c) == Head(todo[c])

\* c is in the function of this name.
In(c, name) == call[c] # None /\ call[c].name = name

Commands(s, command) == s.reg = "TRIGGER_REQUESTS" /\ s.arg = command

Proceeds(c) ==
    /\ todo' = [todo EXCEPT ![c] = Tail(todo[c])]
    /\ UNCHANGED ret

\* Mutant: the error of an access is not looked at.
GoesOn(c, error) ==
    /\ todo' = [todo EXCEPT ![c] = Tail(todo[c])]
    /\ ret' = [ret EXCEPT ![c] = "E_OK"]

EndsWith(c, error) ==
    /\ todo' = [todo EXCEPT ![c] = <<>>]
    /\ ret' = [ret EXCEPT ![c] = error]

AccessFails ==
    /\ failures < MaxFailures
    /\ failures' = failures + 1

Refused(s) == SizeRefused(get_register_entry(s.reg), s.size)

RefusedAccess(c) ==
    /\ Refused(NextStep(c))
    /\ EndsWith(c, "E_BUFFER_MEM_SIZE")
    /\ UNCHANGED <<probe, locals, history, bounds>>

Bound(name) == IF name = "EXTRACT_START_TIME" THEN "START" ELSE "END"

Written(c, s) ==
    IF s.op = "write" THEN s.arg
    ELSE IF s.op = "writetime" THEN var[c][Bound(s.reg)]
    ELSE (got[c] \ s.arg.clear) \cup s.arg.set

\* What a write changes, for the history of the other clients.
Changed(s) ==
    IF s.reg # "TRIGGER_REQUESTS" THEN {s.reg}
    ELSE IF s.arg = "TRIGGER_EXTRACT"
         THEN {"EXTRACTED", "EXTRACT_START_TIME", "EXTRACT_END_TIME"}
    ELSE IF s.arg = "TRIGGER_EXTRACT_NEXT" THEN {"EXTRACTED"}
    ELSE IF s.arg = "TRIGGER_CLEAR_LOG" THEN {"LOG", "EXTRACTED"}
    ELSE IF s.arg = "TRIGGER_PASSWORD_RESET" THEN {}
    ELSE Everything

\* The write reaches the probe.
Takes(c, s) ==
    /\ IF s.reg = "TRIGGER_REQUESTS" THEN Triggered(s.arg)
       ELSE /\ reg' = [reg EXCEPT ![s.reg] = Written(c, s)]
            /\ UNCHANGED <<ready, log, now, found, extracted>>
    /\ dirty' = [d \in Client |-> IF d = c \/ call[d] = None THEN dirty[d]
                                  ELSE dirty[d] \cup Changed(s)]

Asked(c) == {t \in log : asked[c].START <= t /\ t <= asked[c].END}

\* A write reverses the bytes in the buffer it is given, and leaves them so.  When
\* it fails the probe may have taken it.
WriteAccess(c) ==
    LET s == NextStep(c) IN
    /\ s.op \in {"write", "modify", "writetime"} /\ ~Refused(s)
    /\ var' = IF s.op = "writetime" THEN [var EXCEPT ![c][Bound(s.reg)] = Reversed(@)]
              ELSE var
    /\ inRange' = IF Commands(s, "TRIGGER_EXTRACT") THEN [inRange EXCEPT ![c] = Asked(c)]
                  ELSE inRange
    /\ \/ Takes(c, s) /\ Proceeds(c) /\ UNCHANGED failures
       \/ Takes(c, s) /\ AccessFails /\ EndsWith(c, "E_PORT_ERR")
       \/ AccessFails /\ EndsWith(c, "E_PORT_ERR") /\ UNCHANGED <<probe, dirty>>
    /\ UNCHANGED <<got, record, cnt, asked, retried, calls>>

\* Where a read puts what it finds: bits, a time of the range, a part of a record.
\* At the end of the log the values that follow the time stamp are skipped.
Finds(c, s) ==
    \/ /\ s.op = "read"
       /\ got' = IF s.reg \in DOMAIN reg THEN [got EXCEPT ![c] = reg[s.reg]] ELSE got
       /\ Proceeds(c)
       /\ UNCHANGED <<var, record>>
    \/ /\ s.op = "readtime"
       /\ var' = [var EXCEPT ![c][Bound(s.reg)] = reg[s.reg]]
       /\ Proceeds(c)
       /\ UNCHANGED <<got, record>>
    \/ /\ s.op = "stamp"
       /\ record' = [record EXCEPT ![c].time = extracted]
       /\ IF extracted # LOG_TIME_EOF THEN Proceeds(c)
          ELSE /\ todo' = [todo EXCEPT ![c] = SubSeq(@, MAX_SENSOR_COUNT + 2, Len(@))]
               /\ UNCHANGED ret
       /\ UNCHANGED <<got, var>>
    \/ /\ s.op = "value"
       /\ record' = [record EXCEPT ![c].value[s.arg] = extracted]
       /\ Proceeds(c)
       /\ UNCHANGED <<got, var>>

ReadAccess(c) ==
    LET s == NextStep(c) IN
    /\ s.op \in {"read", "readtime", "stamp", "value"} /\ ~Refused(s)
    /\ \/ Finds(c, s) /\ UNCHANGED failures
       \/ AccessFails /\ EndsWith(c, "E_BUS_OPERATION") /\ UNCHANGED <<got, var, record>>
    /\ UNCHANGED <<probe, cnt, history, calls>>

\* A look at the status by wait_for_device_ready.
PollAccess(c) ==
    /\ NextStep(c).op = "poll"
    /\ \/ ready /\ EndsWith(c, "E_OK") /\ UNCHANGED failures
       \/ /\ ~ready
          /\ todo' = [todo EXCEPT ![c] = Tail(@)]
          /\ ret' = [ret EXCEPT ![c] = "E_OK"]
          /\ UNCHANGED failures
       \/ /\ AccessFails
          /\ todo' = [todo EXCEPT ![c] = Tail(@)]
          /\ ret' = [ret EXCEPT ![c] = "E_BUS_OPERATION"]
    /\ UNCHANGED <<probe, locals, history, calls>>

\* The loop of sensor_log_count_record: the record counts unless it is the end.
CountsRecord(c) ==
    /\ NextStep(c).op = "again"
    /\ IF sensor_log_get_record_type(record[c]) = "REC_EOF"
       THEN EndsWith(c, "E_OK") /\ UNCHANGED <<cnt, record>>
       ELSE /\ cnt' = [cnt EXCEPT ![c] = @ + 1]
            /\ record' = [record EXCEPT ![c] = NoRecord]
            /\ todo' = [todo EXCEPT ![c] = CountSteps]
            /\ UNCHANGED ret
    /\ UNCHANGED <<probe, got, var, history, bounds>>

Access(c) ==
    /\ Busy(c)
    /\ IF NextStep(c).op = "again" THEN CountsRecord(c)
       ELSE RefusedAccess(c) \/ WriteAccess(c) \/ ReadAccess(c) \/ PollAccess(c)
    /\ UNCHANGED call

Next ==
    \/ \E c \in Client :
          CallFunction(c) \/ CallWithRange(c) \/ Retry(c) \/ Returns(c) \/ Access(c)
    \/ ProbeStep

Spec == Init /\ [][Next]_vars

-----------------------------------------------------------------------------
Succeeded(c) == call[c] # None /\ todo[c] = <<>> /\ ret[c] = "E_OK"

\* The values of the variables.
TypeOK ==
    /\ log \subseteq LogTimes /\ found \subseteq LogTimes
    /\ extracted \in LogTimes \cup {LOG_TIME_EOF}
    /\ ready \in BOOLEAN /\ now \in LogTimes
    /\ reg.SYSTEM_CONTROL \subseteq SystemBits
    /\ reg.INTERRUPT_CONTROL \subseteq InterruptBits
    /\ {reg.EXTRACT_START_TIME, reg.EXTRACT_END_TIME} \subseteq Times
    /\ \A c \in Client :
          /\ ret[c] \in {"E_OK", "E_BUFFER_MEM_SIZE", "E_PORT_ERR", "E_BUS_OPERATION"}
          /\ cnt[c] \in Nat
          /\ {var[c].START, var[c].END} \subseteq Times
          /\ dirty[c] \subseteq Everything
          /\ inRange[c] \subseteq LogTimes

\* A client that sets or clears bits leaves the other bits of the register as they
\* are, unless another client wrote the register between its read and its write.
OnlyOwnBits ==
    [][\A c \in Client :
          LET s == NextStep(c) IN
          /\ Busy(c) /\ todo'[c] # todo[c] /\ s.op = "modify" /\ s.reg \notin dirty[c]
          => reg'[s.reg] \in {reg[s.reg], (reg[s.reg] \ s.arg.clear) \cup s.arg.set}]_vars

\* A function that reports success has left every register as its last write to it
\* meant it, unless another client wrote that register during the call: no access
\* that failed on the way is passed over.
SuccessMeansDone ==
    \A c \in Client : Succeeded(c) =>
        \A i \in DOMAIN call[c].steps :
            LET s == call[c].steps[i] IN
            s.reg \in DOMAIN reg \ dirty[c] =>
               /\ s.op = "write" => reg[s.reg] = s.arg
               /\ s.op = "modify" => /\ s.arg.set \subseteq reg[s.reg]
                                     /\ s.arg.clear \cap reg[s.reg] = {}

\* The time stamp and the values that an extraction returns, and those that a
\* count looks at, are of one record, unless another client moved the extraction
\* on during the call (the race that datalog.c asks about).
RecordIsWhole ==
    \A c \in Client :
        /\ \/ In(c, "sensor_log_extract") /\ Succeeded(c)
           \/ Busy(c) /\ NextStep(c).op = "again"
        /\ "EXTRACTED" \notin dirty[c]
        => \/ record[c].time = LOG_TIME_EOF
           \/ \A i \in DOMAIN record[c].value : record[c].value[i] = record[c].time

\* When a search or an erasure reaches the probe, the range in its registers is the
\* one the caller asked for, unless another client wrote the range during the call
\* or the search repeats one that failed, which left its variables reversed.
AskedRangeIsUsed ==
    [][\A c \in Client :
          LET s == NextStep(c) IN
          /\ Busy(c) /\ todo'[c] # todo[c] /\ s.reg = "TRIGGER_REQUESTS"
          /\ s.arg \in {"TRIGGER_EXTRACT", "TRIGGER_CLEAR_LOG"}
          /\ {"EXTRACT_START_TIME", "EXTRACT_END_TIME"} \cap dirty[c] = {}
          /\ ~(In(c, "sensor_log_search") /\ retried[c])
          => /\ reg.EXTRACT_START_TIME = asked[c].START
             /\ reg.EXTRACT_END_TIME = asked[c].END]_vars

\* A count that is undisturbed never counts more than the records that were in the
\* range at the search and those logged since, so that it ends; when it succeeds it
\* has counted all that were in the range.
CountsTheRange ==
    \A c \in Client :
        /\ In(c, "sensor_log_count_record")
        /\ {"EXTRACT_START_TIME", "EXTRACT_END_TIME", "EXTRACTED", "LOG"} \cap dirty[c] = {}
        => /\ Succeeded(c) => cnt[c] >= Cardinality(inRange[c])
           /\ cnt[c] <= Cardinality(inRange[c] \cup {t \in LogTimes : t <= now /\ t \notin LoggedBefore})
=============================================================================
