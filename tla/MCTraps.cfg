SPECIFICATION LiveSpec
CONSTANTS
    Procs = {"p1", "p2"}
    Harts = {"h1", "h2"}
    None = "None"
    UserPcs <- MCUserPcs
    Lengths <- MCLengths
    TickMod = 3
INVARIANTS TrapsInv
PROPERTIES RefinesThreads TrapsLive
