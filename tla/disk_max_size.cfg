CONSTANTS
    Keys = {k1, k2}
    Rewritten = {}
    Tasks = {t1, t2}
    Size <- MCSize
    MaxSize = 1
    TightSize = 0
    MaxVersion = 1
    MaxFaults = 0
SPECIFICATION Spec
SYMMETRY Symmetry
INVARIANT
    WithinMaxSize
