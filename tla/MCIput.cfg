SPECIFICATION FsSpec
CONSTANTS
    NameProcs = {p1, p2}
    NoHolder = NoHolder
    NInodes = 4
    FileNames = {"d", "f", "g"}
    Workloads <- FilesOrDirs
    FileProcs = {q1, q2}
    InitProc = q1
    Pipes = {a}
    NoFile = NoFile
    NoPipe = NoPipe
    NoProc = NoProc
    NFILE = 4
    NOFILE = 2
SYMMETRY Symmetry
INVARIANT FreedWhenUnused
