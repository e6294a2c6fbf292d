SPECIFICATION StorageSpec
CONSTANTS
    Ops = {o1, o2, o3}
    Blocks = {b1, b2}
    Vals = {0, 1}
    InitVal = 0
    NotCached = NotCached
    MAXOPBLOCKS = 3
    OpBlocks = 2
    LOGSIZE = 6
    NLog = 7
    Procs = {1, 2}
    Nobody = 0
    Files = {1, 2, 3}
    Ino <- MCIno
    Size = 8
    BSIZE = 2
    NDIRECT = 1
    FileOpBlocks = 6
    Starts <- EmptyOrUsed
    Lengths = {1, 4}
    MaxCalls = 2
INVARIANTS LogInv BlocksInv
PROPERTIES RefinesTxDisk SleepersWake RefinesContents
