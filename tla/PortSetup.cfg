\* Two processes that use a sensor, one of them with a heartbeat; two that make the
\* mutex, one after the other.
CONSTANTS
    Users = {u1, u2}
    Creators = {c1, c2}
    UseInterrupt = TRUE
    HeartbeatUsers = {u1}
    MaxDescriptors = 5
    MaxMaps = 1
    None = None
    Lost = Lost
SPECIFICATION Spec
INVARIANTS OneOnBus DescriptorsReturned
PROPERTY WaiterIsServed
CHECK_DEADLOCK FALSE
