CONSTANTS
    Keys = {k1, k2}
    Rewritten = {k1}
    Tasks = {t1, t2}
    Size <- MCSize
    MaxSize = 1
    TightSize = 0
    MaxVersion = 2
    MaxFaults = 1
SPECIFICATION Spec
SYMMETRY Symmetry
INVARIANTS
    FreshHits
    IndexIsExact
PROPERTY
    EvictionKeepsLimit
