CONSTANTS
    Readers = {r1, r2}
    FullReaders = {r2}
    Mutators = {m1, m2}
    p1 = p1
    Paths = {p1}
    Moves <- MCMoves
    Versions = {0, 1, 2, 4, 5, 7, 8}
    Length <- MCLength
    BlockSize = 2
    MaxSize = 2
    FileSizeCapacity = 1
SPECIFICATION Spec
SYMMETRY Symmetry
INVARIANTS
    FreshReads
    ErrorsAreReal
    SingleFlight
    NoDeadlock
    StoreWithinLimit
