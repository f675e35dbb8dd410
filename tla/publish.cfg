CONSTANTS
    Writers = {w1, w2}
    First = 2
    Last = 2
    MaxId = 5
    MaxCommits = 3
    MaxFaults = 1
    MaxLost = 1
SPECIFICATION Spec
SYMMETRY Symmetry
INVARIANTS
    LookupFindsLatest
    LookupIsFresh
    NoGaps
    RefusedOnlyByLostAnswer
CHECK_DEADLOCK FALSE
