SPECIFICATION Spec
CONSTANTS
    Users <- MCUsers
    Groups <- MCGroups
    GidsOf <- MCGidsOf
    Boards <- TwoBoards
    FileSystems <- AllConfigs
    Signals = {"HUP", "TERM"}
    MainFile <- MCMain
    Requests <- OpRequests
    Faults = {"qpair", "transfer", "ctl"}
    MaxConns = 2
    MaxRequests = 2
    DdrRegions = 1
    HbmRegions = 1
    SubregionsPerRegion = 2
    SubregionSize = 2
    DdrStart = 0
    HbmStart = 100
    PrimIn = 10
    MMin = 2
    MMax = 3
    DMin = 1
    DMax = 1
    OMin = 2
    OMax = 5
    VcoMin = 20
    VcoMax = 30
    PfdMin = 1
    PfdMax = 100
    OWindow = 1
    MaxCandidates = 2
INVARIANTS
    RolesFollowConfig
PROPERTIES
    NoOverclock
    BuffersKept
CHECK_DEADLOCK FALSE
