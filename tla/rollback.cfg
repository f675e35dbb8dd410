CONSTANTS
    Writers = {w1}
    First = 3
    Last = 4
    MaxId = 5
    MaxCommits = 2
    MaxFaults = 2
    MaxLost = 1
    Kinds = {"snapshot", "tag", "timestamp"}
    Overlap = FALSE
    InitialTags = {1, 2, 4}
    MaxRollbacks = 3
SPECIFICATION RollbackSpec
INVARIANTS
    RollbackReachesTarget
    LookupNeverStale
    GapOnlyBelowRestored
    RollbackIsClean
CHECK_DEADLOCK FALSE
