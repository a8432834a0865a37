SPECIFICATION Spec
CONSTANTS
    Users <- MCUsers
    Groups <- MCGroups
    GidsOf <- MCGidsOf
    Boards <- OneBoard
    FileSystems <- OneConfig
    Signals = {}
    MainFile <- MCMain
    Requests <- OpenRequests
    Faults = {}
    MaxConns = 1
    MaxRequests = 1
    DdrRegions = 1
    HbmRegions = 0
    SubregionsPerRegion = 2
    SubregionSize = 2
    DdrStart = 0
    HbmStart = 100
    PrimIn = 10
    MMin = 2
    MMax = 3
    DMin = 1
    DMax = 1
    OMin = 2
    OMax = 5
    VcoMin = 20
    VcoMax = 30
    PfdMin = 1
    PfdMax = 100
    OWindow = 1
    MaxCandidates = 2
PROPERTIES
    BuffersReleased
CHECK_DEADLOCK FALSE
