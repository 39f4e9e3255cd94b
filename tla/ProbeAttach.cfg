\* The HEARTBEAT_MAX_MISS of smartsensor.h; the counters wrap after a few steps.
CONSTANTS
    HEARTBEAT_MAX_MISS = 1
    MissModulus = 4
    AttachModulus = 3
    MaxFaults = 3
SPECIFICATION FairSpec
CHECK_DEADLOCK FALSE
INVARIANTS TypeOK ReportsAgree DetachEarned AbsenceNoticed
PROPERTIES DetachFollows AttachFollows
