\* Two clients, one of them possibly killed, a probe that may restart once, and
\* two indirect registers, so that the access register can point at the wrong one.
CONSTANTS
    Clients = {c1, c2}
    Direct = {"TRIGGER_REQUESTS"}
    Indirect = {"SENSOR_0_NAME", "USER_PARAMETER_0"}
    Bytes = {"SENSOR_0_NAME"}
    TRIGGER_REQUESTS = "TRIGGER_REQUESTS"
    Resets = {"1234"}
    Values = {"1234", "3412"}
    Reversed <- MCReversed
    Idle = Idle
    MaxRestarts = 1
    MaxCrashes = 1
SYMMETRY ClientSymmetry
SPECIFICATION Spec
CHECK_DEADLOCK FALSE
INVARIANTS TypeOK HitsTheNamedRegister OnlyOneOnBus
PROPERTIES ImplementsAtomicRegisters
