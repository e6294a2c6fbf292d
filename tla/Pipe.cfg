SPECIFICATION LiveSpec
CONSTANTS
    Procs = {p1, p2}
    Creator = p1
    Nobody = Nobody
    Killable = {p2}
    Bytes = {0, 1}
    PIPESIZE = 2
    CntMod = 4
    MaxN = 3
CHECK_DEADLOCK FALSE
INVARIANTS PipeInv
PROPERTIES RefinesFifo CloseSeen
