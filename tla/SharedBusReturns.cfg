\* Whether every call returns.  No client is killed: a mutex that is not robust
\* would stay locked.  The probe stays up: a restart changes no program counter.
CONSTANTS
    Clients = {c1, c2}
    Direct = {"TRIGGER_REQUESTS"}
    Indirect = {"SENSOR_0_NAME", "USER_PARAMETER_0"}
    Bytes = {"SENSOR_0_NAME"}
    TRIGGER_REQUESTS = "TRIGGER_REQUESTS"
    Resets = {"1234"}
    Values = {"1234", "3412"}
    Reversed <- MCReversed
    Idle = Idle
    MaxRestarts = 0
    MaxCrashes = 0
SPECIFICATION FairSpec
CHECK_DEADLOCK FALSE
PROPERTIES CallsReturn
