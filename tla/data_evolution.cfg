SPECIFICATION Spec
CONSTANTS
    Committers = {1, 2, 3}
    Seed = 0
    SeedShape <- MCSeedShape
    Shapes <- MCShapes
    Statements = {"insert", "update", "delete", "merge", "drop", "overwrite", "index"}
    x = x
    y = y
    p1 = p1
    p2 = p2
    Columns = {x, y}
    BlobColumn = b
    VectorColumn = v
    UpdateTargets = {0, 2}
    DeleteTargets = {0, 1, 2}
    UpdateColumns <- MCUpdateColumns
    MergeColumns <- MCMergeColumns
    Indexed = {x}
    DropIndex = TRUE
    PartitionGroup = TRUE
    MaxRetries = 1
INVARIANTS
    ReadsAreSerial
    RowIdsNeverReused
    GroupsAreAligned
    IndexesAreFresh
    VectorsAreAnchored
    ConflictsAreReal
CHECK_DEADLOCK FALSE
