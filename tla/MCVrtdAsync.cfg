SPECIFICATION Spec
CONSTANTS
    Users <- MCUsers
    Groups <- MCGroups
    GidsOf <- MCGidsOf
    Boards <- OneBoard
    FileSystems <- OneConfig
    Signals = {}
    MainFile <- MCMain
    Requests <- AsyncRequests
    Faults = {"ami"}
    MaxConns = 2
    MaxRequests = 3
    DdrRegions = 1
    HbmRegions = 0
    SubregionsPerRegion = 2
    SubregionSize = 2
    DdrStart = 0
    HbmStart = 100
    PrimIn = 10
    MMin = 2
    MMax = 3
    DMin = 1
    DMax = 1
    OMin = 2
    OMax = 5
    VcoMin = 20
    VcoMax = 30
    PfdMin = 1
    PfdMax = 100
    OWindow = 1
    MaxCandidates = 2
INVARIANTS
    Exclusive
    WaitsForOwnJob
    BuffersOwned
    MemoryAccounted

    
CHECK_DEADLOCK FALSE
