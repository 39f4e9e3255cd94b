\* Committing more than once.
CONSTANTS
    Blocks = {"alarm1.w1", "alarm1.w2", "alarm2.w1", "alarm2.w2", "block", "eob"}
    FirstBlock = "alarm1.w1"
    Eob = "eob"
    Second <- MCSecond
    NULL = NULL
    FB__PROGRAM_MAX = 4
    IdxModulus = 6
    FirstIndexes = {0}
    Arguments <- MCArguments
    MaxSettings = 1
    MaxCommits = 2
    MaxFailures = 1
SPECIFICATION Spec
INVARIANTS CommitWritesProgram
