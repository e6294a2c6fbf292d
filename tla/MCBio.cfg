SPECIFICATION Spec
CONSTANTS
    Procs = {p1, p2}
    Blocks = {b1, b2, b3, b4}
    NBUF = 3
    Vals = {0, 1}
    InitVal = 0
    NoBlock = NoBlock
    NoProc = NoProc
    MaxPins = 2
SYMMETRY Symmetry
INVARIANT Coherent
PROPERTY CachePromise
