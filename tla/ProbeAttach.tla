---------------------------- MODULE ProbeAttach ----------------------------
(***************************************************************************)
(* How sensor_poll_event decides that a probe is attached or detached      *)
(* (core/smartsensor_private.c): handle_event_data_intr attaches, and      *)
(* handle_event_heartbeat counts missed heartbeats and detaches.  The      *)
(* port delivers one event at a time (LinuxPort); each register is read in *)
(* a transfer of its own, so the probe may come, go or restart between two *)
(* reads of one handler.                                                   *)
(***************************************************************************)
EXTENDS Naturals

CONSTANTS HEARTBEAT_MAX_MISS,
          MissModulus,     \* heartbeat_misses wraps here (uint32_t)
          AttachModulus,   \* stat_attach_counter wraps here (uint32_t)
          MaxFaults        \* bound: transfers that fail with the probe present

ASSUME AttachAssumption ==
    /\ HEARTBEAT_MAX_MISS \in Nat
    /\ MissModulus \in Nat
    /\ MissModulus > HEARTBEAT_MAX_MISS + 1
    /\ AttachModulus \in Nat \ {0}
    /\ MaxFaults \in Nat

VARIABLES pc,              \* what sensor_poll_event is doing
          sensor_attached,
          stat_attach_counter,
          heartbeat_misses,
          present,         \* the probe is plugged in
          device_ready,    \* and its status says it has started
          faults,          \* how many transfers failed although it was there
          lastReport,      \* history: the last attach or detach event returned
          reports,         \* history: attach minus detach events returned
          failures,        \* history: status reads that failed while attached
          absentBeats      \* history: heartbeats handled since the probe left

host == <<sensor_attached, stat_attach_counter, heartbeat_misses>>
probe == <<present, device_ready>>
history == <<lastReport, reports, failures, absentBeats>>
vars == <<pc, host, probe, faults, history>>

API_EVENT_SENSOR_ATTACHED == "ATTACHED"
API_EVENT_SENSOR_DETACHED == "DETACHED"

Init ==
    /\ pc = "idle"
    /\ sensor_attached = FALSE
    /\ stat_attach_counter = 0
    /\ heartbeat_misses = 0
    /\ present \in BOOLEAN
    /\ device_ready = FALSE
    /\ faults = 0
    /\ lastReport = "none"
    /\ reports = 0
    /\ failures = 0
    /\ absentBeats = 0

-----------------------------------------------------------------------------
(* The probe.                                                              *)

Plug ==
    /\ ~present
    /\ present' = TRUE
    /\ device_ready' = FALSE
    /\ absentBeats' = 0
    /\ UNCHANGED <<pc, host, faults, lastReport, reports, failures>>

Unplug ==
    /\ present
    /\ present' = FALSE
    /\ device_ready' = FALSE
    /\ UNCHANGED <<pc, host, faults, history>>

Started ==
    /\ present
    /\ ~device_ready
    /\ device_ready' = TRUE
    /\ UNCHANGED <<pc, host, present, faults, history>>

Restarts ==
    /\ device_ready
    /\ device_ready' = FALSE
    /\ UNCHANGED <<pc, host, present, faults, history>>

\* A register read succeeds only on a probe that is there, and may fail on it.
TransferSucceeds == present /\ UNCHANGED faults

TransferFails ==
    \/ /\ ~present
       /\ UNCHANGED faults
    \/ /\ present
       /\ faults < MaxFaults
       /\ faults' = faults + 1

-----------------------------------------------------------------------------
(* sensor_poll_event.                                                      *)

EventGet(e) ==
    /\ pc = "idle"
    /\ pc' = e
    /\ UNCHANGED <<host, probe, faults, history>>

\* get_interrupt_status.  When attached, the status itself is the event.
DataInterrupt ==
    /\ pc = "EV_DAT_INTR"
    /\ \/ /\ TransferSucceeds
          /\ pc' = IF sensor_attached THEN "idle" ELSE "status"
       \/ /\ TransferFails
          /\ pc' = "idle"
    /\ UNCHANGED <<host, probe, history>>

\* Mutant: the misses of the time before are kept.
AttachKeepsMisses ==
    /\ sensor_attached' = TRUE
    /\ stat_attach_counter' = (stat_attach_counter + 1) % AttachModulus
    /\ lastReport' = API_EVENT_SENSOR_ATTACHED
    /\ reports' = reports + 1
    /\ failures' = 0
    /\ UNCHANGED <<heartbeat_misses, absentBeats>>

\* Mutant: the counter is wider than its type.
AttachCountsOn ==
    /\ sensor_attached' = TRUE
    /\ stat_attach_counter' = stat_attach_counter + 1
    /\ heartbeat_misses' = 0
    /\ lastReport' = API_EVENT_SENSOR_ATTACHED
    /\ reports' = reports + 1
    /\ failures' = 0
    /\ UNCHANGED absentBeats

Attach ==
    /\ sensor_attached' = TRUE
    /\ stat_attach_counter' = (stat_attach_counter + 1) % AttachModulus
    /\ heartbeat_misses' = 0
    /\ lastReport' = API_EVENT_SENSOR_ATTACHED
    /\ reports' = reports + 1
    /\ failures' = 0
    /\ UNCHANGED absentBeats

\* Mutant: the branch for a detached sensor asks for an attached one.
StatusNeverAttaches ==
    /\ pc = "status"
    /\ pc' = "idle"
    /\ (TransferSucceeds \/ TransferFails)
    /\ UNCHANGED <<host, probe, history>>

\* The second read of a data interrupt on a detached sensor: get_system_status.
StatusAfterInterrupt ==
    /\ pc = "status"
    /\ pc' = "idle"
    /\ \/ /\ TransferSucceeds
          /\ device_ready
          /\ Attach
       \/ /\ (TransferSucceeds /\ ~device_ready) \/ TransferFails
          /\ UNCHANGED <<host, history>>
    /\ UNCHANGED probe

\* Mutant: one more miss is allowed.
TooManyMissesLate == heartbeat_misses' > HEARTBEAT_MAX_MISS + 1

TooManyMisses == heartbeat_misses' > HEARTBEAT_MAX_MISS

\* Mutant: ret is not cleared, so the caller never sees the event.
DetachUnreported ==
    /\ sensor_attached
    /\ TooManyMisses
    /\ sensor_attached' = FALSE
    /\ UNCHANGED <<lastReport, reports>>

Detach ==
    /\ sensor_attached
    /\ TooManyMisses
    /\ sensor_attached' = FALSE
    /\ lastReport' = API_EVENT_SENSOR_DETACHED
    /\ reports' = reports - 1

\* Mutant: a failed read is not counted.
MissNotCounted == UNCHANGED heartbeat_misses

CountMiss == heartbeat_misses' = (heartbeat_misses + 1) % MissModulus

CountFailure ==
    failures' = IF sensor_attached /\ failures <= HEARTBEAT_MAX_MISS + 1
                THEN failures + 1 ELSE failures

CountAbsentBeat ==
    absentBeats' = IF ~present /\ absentBeats <= HEARTBEAT_MAX_MISS
                   THEN absentBeats + 1 ELSE absentBeats

\* A heartbeat: get_system_status.  A good answer does not clear the misses.
Heartbeat ==
    /\ pc = "EV_HEARTBEAT"
    /\ pc' = "idle"
    /\ \/ /\ TransferSucceeds
          /\ UNCHANGED <<host, history>>
       \/ /\ TransferFails
          /\ CountMiss
          /\ CountFailure
          /\ CountAbsentBeat
          /\ \/ Detach
             \/ /\ ~(sensor_attached /\ TooManyMisses)
                /\ UNCHANGED <<sensor_attached, lastReport, reports>>
          /\ UNCHANGED stat_attach_counter
    /\ UNCHANGED probe

\* sensor_close: the state of the probe is not looked at and nothing is reported.
Close ==
    /\ pc = "idle"
    /\ pc' = "closed"
    /\ UNCHANGED <<host, probe, faults, history>>

-----------------------------------------------------------------------------
ProbeSteps == Plug \/ Unplug \/ Started \/ Restarts
Handler == DataInterrupt \/ StatusAfterInterrupt \/ Heartbeat

Next ==
    \/ ProbeSteps
    \/ \E e \in {"EV_HEARTBEAT", "EV_DAT_INTR"} : EventGet(e)
    \/ Handler
    \/ Close

Spec == Init /\ [][Next]_vars

(* Fairness: a handler that began ends; the heartbeat timer and the probe's *)
(* interrupt keep producing events, and the queue is served in order, so    *)
(* each kind of event is delivered again and again.                         *)
Fairness ==
    /\ WF_vars(Handler)
    /\ SF_vars(EventGet("EV_HEARTBEAT"))
    /\ SF_vars(EventGet("EV_DAT_INTR"))

FairSpec == Spec /\ Fairness

-----------------------------------------------------------------------------
TypeOK ==
    /\ pc \in {"idle", "EV_HEARTBEAT", "EV_DAT_INTR", "status", "closed"}
    /\ sensor_attached \in BOOLEAN
    /\ stat_attach_counter \in 0 .. AttachModulus - 1
    /\ heartbeat_misses \in 0 .. MissModulus - 1
    /\ present \in BOOLEAN
    /\ device_ready \in BOOLEAN
    /\ faults \in 0 .. MaxFaults
    /\ lastReport \in {"none", API_EVENT_SENSOR_ATTACHED,
                       API_EVENT_SENSOR_DETACHED}
    /\ reports \in {0, 1}
    /\ failures \in 0 .. HEARTBEAT_MAX_MISS + 1
    /\ absentBeats \in 0 .. HEARTBEAT_MAX_MISS + 1

\* What the application was told is what the SDK believes: while a sensor is open,
\* attach and detach events strictly alternate, starting with an attach, and the
\* last one agrees with sensor_attached, whatever the order of interrupts,
\* heartbeats, failed transfers and restarts of the probe.
ReportsAgree ==
    pc # "closed" =>
        /\ sensor_attached <=> lastReport = API_EVENT_SENSOR_ATTACHED
        /\ reports = IF sensor_attached THEN 1 ELSE 0

\* "if (api_event_probe_attached == api_event_probe_detached) PASS"
\* (tests/test_probe_attach.c:83): once sensor_close returned, every attach event
\* was followed by a detach event.  sensor_close reports none, so this is violated
\* by closing an attached sensor.
ReportsBalanceAfterClose == pc = "closed" => reports = 0

\* A probe is reported detached only after HEARTBEAT_MAX_MISS + 1 status reads
\* failed since it was attached: misses counted while it was away do not count
\* against it after it came back.
DetachEarned ==
    /\ lastReport = API_EVENT_SENSOR_DETACHED
            => failures = HEARTBEAT_MAX_MISS + 1
    /\ sensor_attached => failures <= HEARTBEAT_MAX_MISS

\* A probe that is away is noticed within HEARTBEAT_MAX_MISS + 1 heartbeats,
\* however the interrupts that were still queued are handled.
AbsenceNoticed == absentBeats > HEARTBEAT_MAX_MISS => ~sensor_attached

\* A probe that stays away is eventually believed to be away.
DetachFollows ==
    ~present ~> (present \/ ~sensor_attached \/ pc = "closed")

\* A probe that is there and has started is eventually believed to be there.
AttachFollows ==
    (present /\ device_ready)
        ~> (sensor_attached \/ ~present \/ ~device_ready \/ pc = "closed")
=============================================================================
