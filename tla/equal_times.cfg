CONSTANTS
    MaxSnapshots = 3
    MaxKey = 2
SPECIFICATION SearchSpec
INVARIANT TimeFindsFirst
CHECK_DEADLOCK FALSE
