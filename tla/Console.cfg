SPECIFICATION LiveSpec
CONSTANTS
    Procs = {p1, p2}
    Nobody = Nobody
    Plain = {"a"}
    INPUT_BUF_SIZE = 3
    CntMod = 6
    MaxN = 2
INVARIANTS ConsoleInv
PROPERTIES RefinesLineInput ReadReturns
