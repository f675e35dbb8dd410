CONSTANTS
    MaxSnapshots = 5
    MaxKey = 3
SPECIFICATION FairSearch
INVARIANTS
    TimeIsFound
    WatermarkFindsFirst
PROPERTY Terminates
CHECK_DEADLOCK FALSE
