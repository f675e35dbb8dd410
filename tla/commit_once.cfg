CONSTANTS
    Committers = {c1, c2}
    Callbacks = {c1}
    Partitions = {p1}
    Partitioned = FALSE
    IgnoreEmptyCommit = FALSE
    Shapes = {"append", "rewrite"}
    MaxRetries = 1
    MaxOps = 2
    MaxFaults = 2
SPECIFICATION FairSpec
INVARIANTS
    CommitsOnceInOrder
    AcknowledgedIsPublished
    PlainFailureIsNotPublished
    LiveFilesExist
PROPERTIES
    CallsReturn
CHECK_DEADLOCK FALSE
