SPECIFICATION ProcessesSpec
CONSTANTS
    Procs = {p0, p1, p2}
    InitProc = p0
    Cpus = {c1, c2}
    NoProc = NoProc
    NoCpu = NoCpu
    KillPids = {1, 2, 3, 4, 5}
    MaxPid = 5
    Machines <- BootAndUser
    ByteBits = 2
    BitsPerPage = 16
    KPages <- KernelPages
    Tasks = {t1, t2}
    InitTask = t1
    PGSIZE = 2
    Fan = 3
    LEVELS = 3
    Grows <- GrowOrShrink
    Programs <- SomePrograms
    MaxArgs = 1
SYMMETRY Symmetry
INVARIANTS OneCpuPerStack StackNotFreed ParentAlive NoLostWakeup MemInv
PROPERTY ImageStays
