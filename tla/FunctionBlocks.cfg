\* Two alarms, a block and the end marker, and a program that can be too long.
CONSTANTS
    Blocks = {"alarm1.w1", "alarm1.w2", "alarm2.w1", "alarm2.w2", "block", "eob"}
    FirstBlock = "alarm1.w1"
    Eob = "eob"
    Second <- MCSecond
    NULL = NULL
    FB__PROGRAM_MAX = 4
    IdxModulus = 5
    FirstIndexes = {0, 3}
    Arguments <- MCArguments
    MaxSettings = 2
    MaxCommits = 1
    MaxFailures = 1
SPECIFICATION FairSpec
INVARIANTS TypeOK LinkedInOrder NumberedInOrder FirstCommitWritesProgram
PROPERTIES OtherCallsReturn
