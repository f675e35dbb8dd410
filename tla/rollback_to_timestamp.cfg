CONSTANTS
    Writers = {w1}
    First = 3
    Last = 4
    MaxId = 5
    MaxCommits = 2
    MaxFaults = 0
    MaxLost = 0
    Kinds = {"timestamp"}
    Overlap = FALSE
    InitialTags = {1, 2, 4}
    MaxRollbacks = 2
SPECIFICATION RollbackSpec
INVARIANT TimestampReachesTarget
CHECK_DEADLOCK FALSE
