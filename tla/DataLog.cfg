\* Two clients make one call each at the same time, and one access fails; a search
\* that fails is repeated.  The log has two records and gets a third.
CONSTANTS
    Client = {c1, c2}
    Functions <- MCFunctions
    Ranges <- MCRanges
    LogTimes = {1, 2, 4}
    LoggedBefore = {1, 2}
    MAX_SENSOR_COUNT = 2
    WaitPolls = 2
    MaxCalls = 2
    MaxFailures = 1
    None = None
SPECIFICATION Spec
SYMMETRY MCSymmetry
INVARIANTS TypeOK SuccessMeansDone RecordIsWhole CountsTheRange
PROPERTIES OnlyOwnBits AskedRangeIsUsed
CHECK_DEADLOCK FALSE
