SPECIFICATION DevicesSpec
CONSTANTS
    NameLen <- MCNameLen
    PropLen <- MCPropLen
    Tails <- MCTails
    ValuePath <- MCValuePath
    MaxPhandle = 100664579
    NodeNames <- MCNodeNames
    SetProps <- MCSetProps
    Values <- MCValues
    RsvEntries <- MCRsvEntries
    Ranges <- MCRanges
    CellMod = 16
    BufSizes <- MCBufSizes
    Compatible <- MCCompatible
    NoTree = NoTree
    Starts <- MCStarts
    MaxCalls = 2
    Tasks = {p1, p2, p3}
    NoTask = NoTask
    Intr = Intr
    Nobody = Nobody
    NUM = 8
    IdxMod = 16
SYMMETRY Symmetry
INVARIANTS BlobInv LookupsExact ParseExact DiskInv NothingMissed
PROPERTIES RefinesTree
