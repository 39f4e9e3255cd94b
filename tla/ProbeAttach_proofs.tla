------------------------ MODULE ProbeAttach_proofs ------------------------
(***************************************************************************)
(* The attach and detach events of sensor_poll_event, for every value of   *)
(* HEARTBEAT_MAX_MISS and every number of failing transfers.               *)
(***************************************************************************)
EXTENDS ProbeAttach, TLAPS

\* While a sensor is attached heartbeat_misses is exactly the number of status
\* reads that failed since it was attached, and has not wrapped.
MissesAreFailures ==
    sensor_attached => /\ heartbeat_misses = failures
                       /\ heartbeat_misses <= HEARTBEAT_MAX_MISS
                       /\ absentBeats <= heartbeat_misses

\* Heartbeats are only counted as absent while the probe is away.
PresentMeansNoAbsence == present => absentBeats = 0

\* The second read of a data interrupt is only made for a detached sensor.
StatusMeansDetached == pc = "status" => ~sensor_attached

\* The last report agrees with sensor_attached, and still does when the sensor is
\* closed, because closing touches neither.
LastReportAgrees ==
    /\ sensor_attached <=> lastReport = API_EVENT_SENSOR_ATTACHED
    /\ reports = IF sensor_attached THEN 1 ELSE 0

\* The invariant: the history says what was counted since the attach, and the
\* counter agrees with it as long as it matters.
IInv ==
    /\ TypeOK
    /\ LastReportAgrees
    /\ DetachEarned
    /\ AbsenceNoticed
    /\ MissesAreFailures
    /\ PresentMeansNoAbsence
    /\ StatusMeansDetached

\* Counting up in an unsigned type.
LEMMA Wraps ==
    ASSUME NEW m \in Nat \ {0}, NEW i \in 0 .. m - 1
    PROVE  /\ (i + 1) % m \in 0 .. m - 1
           /\ i + 1 < m => (i + 1) % m = i + 1
  OBVIOUS

\* A sensor that was just opened satisfies the invariant.
LEMMA InitInv == Init => IInv
  <1> SUFFICES ASSUME Init PROVE IInv
    OBVIOUS
  <1> USE AttachAssumption
      DEF Init, API_EVENT_SENSOR_ATTACHED, API_EVENT_SENSOR_DETACHED
  <1>1. TypeOK
    <2>1. 0 \in 0 .. AttachModulus - 1 /\ 0 \in 0 .. MissModulus - 1
      OBVIOUS
    <2>2. 0 \in 0 .. MaxFaults /\ 0 \in 0 .. HEARTBEAT_MAX_MISS + 1
      OBVIOUS
    <2>3. QED
      BY <2>1, <2>2, Zenon DEF TypeOK
  <1>2. LastReportAgrees
    BY DEF LastReportAgrees
  <1>3. DetachEarned /\ AbsenceNoticed
    BY DEF DetachEarned, AbsenceNoticed
  <1>4. MissesAreFailures /\ PresentMeansNoAbsence /\ StatusMeansDetached
    BY DEF MissesAreFailures, PresentMeansNoAbsence, StatusMeansDetached
  <1>5. QED
    BY <1>1, <1>2, <1>3, <1>4 DEF IInv

\* Every step of the probe and of sensor_poll_event preserves the invariant.
LEMMA StepInv == IInv /\ [Next]_vars => IInv'
  <1> SUFFICES ASSUME IInv, [Next]_vars PROVE IInv'
    OBVIOUS
  <1> USE AttachAssumption
      DEF IInv, TypeOK, LastReportAgrees, DetachEarned, AbsenceNoticed,
          MissesAreFailures, PresentMeansNoAbsence, StatusMeansDetached, host, probe, history,
          API_EVENT_SENSOR_ATTACHED, API_EVENT_SENSOR_DETACHED,
          TransferSucceeds, TransferFails
  <1>1. CASE Plug
    <2>1. TypeOK'
      <3>1. 0 \in 0 .. HEARTBEAT_MAX_MISS + 1
        OBVIOUS
      <3>2. QED
        BY <1>1, <3>1, Zenon DEF Plug
    <2>2. LastReportAgrees' /\ DetachEarned' /\ StatusMeansDetached'
      BY <1>1 DEF Plug
    <2>3. AbsenceNoticed' /\ MissesAreFailures' /\ PresentMeansNoAbsence'
      BY <1>1 DEF Plug
    <2>4. QED
      BY <2>1, <2>2, <2>3
  <1>2. CASE Unplug
    BY <1>2 DEF Unplug
  <1>3. CASE Started
    BY <1>3 DEF Started
  <1>4. CASE Restarts
    BY <1>4 DEF Restarts
  <1>5. ASSUME NEW e \in {"EV_HEARTBEAT", "EV_DAT_INTR"}, EventGet(e)
        PROVE  IInv'
    BY <1>5 DEF EventGet
  <1>6. CASE DataInterrupt
    BY <1>6 DEF DataInterrupt
  <1>7. CASE StatusAfterInterrupt
    <2>1. (stat_attach_counter + 1) % AttachModulus \in 0 .. AttachModulus - 1
      BY Wraps
    <2>2. CASE TransferSucceeds /\ device_ready /\ Attach
      <3>1. ~sensor_attached /\ reports = 0
        BY <1>7 DEF StatusAfterInterrupt
      <3>2. QED
        BY <1>7, <2>1, <2>2, <3>1 DEF StatusAfterInterrupt, Attach
    <2>3. CASE UNCHANGED <<host, history>>
      BY <1>7, <2>3 DEF StatusAfterInterrupt
    <2>4. QED
      BY <1>7, <2>2, <2>3 DEF StatusAfterInterrupt
  <1>8. CASE Heartbeat
    <2>1. CASE TransferSucceeds /\ UNCHANGED <<host, history>>
      BY <1>8, <2>1 DEF Heartbeat
    <2>2. CASE TransferFails /\ CountMiss /\ CountFailure /\ CountAbsentBeat
      <3>1. /\ heartbeat_misses' \in 0 .. MissModulus - 1
            /\ sensor_attached => heartbeat_misses' = heartbeat_misses + 1
        <4>1. MissModulus \in Nat \ {0} /\ heartbeat_misses \in 0 .. MissModulus - 1
          OBVIOUS
        <4>2. /\ (heartbeat_misses + 1) % MissModulus \in 0 .. MissModulus - 1
              /\ heartbeat_misses + 1 < MissModulus
                    => (heartbeat_misses + 1) % MissModulus = heartbeat_misses + 1
          BY <4>1, Wraps
        <4>3. sensor_attached => heartbeat_misses + 1 < MissModulus
          BY <4>1
        <4>4. QED
          BY <2>2, <4>2, <4>3 DEF CountMiss
      <3>2. CASE Detach
        <4>1. failures' = HEARTBEAT_MAX_MISS + 1 /\ reports' = 0
          BY <2>2, <3>1, <3>2 DEF Detach, TooManyMisses, CountFailure
        <4>2. absentBeats' \in 0 .. HEARTBEAT_MAX_MISS + 1
          BY <2>2 DEF CountAbsentBeat
        <4>3. present' => absentBeats' = 0
          BY <1>8, <2>2 DEF Heartbeat, CountAbsentBeat
        <4>4. faults' \in 0 .. MaxFaults
          BY <2>2
        <4>5. /\ pc' = "idle"
              /\ UNCHANGED <<probe, stat_attach_counter>>
          BY <1>8, <3>2 DEF Heartbeat, Detach
        <4>6. /\ sensor_attached' = FALSE
              /\ lastReport' = API_EVENT_SENSOR_DETACHED
          BY <3>2 DEF Detach
        <4>7. TypeOK'
          <5>1. failures' \in 0 .. HEARTBEAT_MAX_MISS + 1 /\ reports' \in {0, 1}
            BY <4>1
          <5>2. QED
            BY <3>1, <5>1, <4>2, <4>4, <4>5, <4>6, Zenon
        <4>8. QED
          BY <4>1, <4>3, <4>5, <4>6, <4>7
      <3>3. CASE /\ ~(sensor_attached /\ TooManyMisses)
                 /\ UNCHANGED <<sensor_attached, lastReport, reports>>
        BY <1>8, <2>2, <3>1, <3>3
           DEF Heartbeat, TooManyMisses, CountFailure, CountAbsentBeat
      <3>4. QED
        BY <1>8, <2>2, <3>2, <3>3 DEF Heartbeat
    <2>3. QED
      BY <1>8, <2>1, <2>2 DEF Heartbeat
  <1>9. CASE Close
    BY <1>9 DEF Close
  <1>10. CASE UNCHANGED vars
    BY <1>10 DEF vars
  <1>11. QED
    BY <1>1, <1>2, <1>3, <1>4, <1>5, <1>6, <1>7, <1>8, <1>9, <1>10
       DEF Next, ProbeSteps, Handler

\* The values of the SDK's attach state and of the history variables.
THEOREM TypeCorrect == Spec => []TypeOK
  BY InitInv, StepInv, PTL DEF Spec, IInv

\* Attach and detach events alternate and agree with sensor_attached.
THEOREM ReportsAlwaysAgree == Spec => []ReportsAgree
  <1>1. IInv => ReportsAgree
    BY DEF IInv, LastReportAgrees, ReportsAgree
  <1>2. QED
    BY <1>1, InitInv, StepInv, PTL DEF Spec

\* A detach takes HEARTBEAT_MAX_MISS + 1 failed reads since the attach.
THEOREM DetachAlwaysEarned == Spec => []DetachEarned
  BY InitInv, StepInv, PTL DEF Spec, IInv

\* A probe that is away is noticed within HEARTBEAT_MAX_MISS + 1 heartbeats.
THEOREM AbsenceAlwaysNoticed == Spec => []AbsenceNoticed
  BY InitInv, StepInv, PTL DEF Spec, IInv
=============================================================================
