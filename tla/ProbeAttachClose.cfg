\* The instance of ProbeAttach.cfg; what test_probe_attach.c counts is violated.
CONSTANTS
    HEARTBEAT_MAX_MISS = 1
    MissModulus = 4
    AttachModulus = 3
    MaxFaults = 3
SPECIFICATION FairSpec
CHECK_DEADLOCK FALSE
INVARIANT ReportsBalanceAfterClose
