SPECIFICATION ProcLiveSpec
CONSTANTS
    Procs = {p0, p1}
    InitProc = p0
    Cpus = {c1, c2}
    NoProc = NoProc
    NoCpu = NoCpu
    KillPids = {2, 3, 4}
    MaxPid = 4
    Machines <- BootAndUser
    ByteBits = 2
    BitsPerPage = 16
    KPages <- KernelPages
    Tasks = {t1, t2}
    InitTask = t1
    PGSIZE = 2
    Fan = 3
    LEVELS = 3
    Grows <- GrowOrShrink
    Programs <- SomePrograms
    MaxArgs = 1
PROPERTIES WaitReturns KilledExits
