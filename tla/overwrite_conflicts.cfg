CONSTANTS
    Committers = {c1, c2, c3}
    Callbacks = {}
    Partitions = {p1, p2}
    Partitioned = TRUE
    IgnoreEmptyCommit = FALSE
    Shapes = {"append", "rewrite", "overwrite", "empty", "expected"}
    MaxRetries = 2
    MaxOps = 1
    MaxFaults = 1
SPECIFICATION Spec
SYMMETRY Symmetry
INVARIANTS
    DeltaFitsBase
    OverwriteReplaces
    ConflictBaseSound
    ExpectedSnapshotIsBase
PROPERTIES
    CommitsAreAtomic
CHECK_DEADLOCK FALSE
