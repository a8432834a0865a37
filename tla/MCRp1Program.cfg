CONSTANTS
    WordBits = 5
    MaxNodes = 16
    MaxBuckets = 4
    MaxSignals = 3
    MaxLoops = 1
    ArgAvailable = 32
    SentinelSlot = 0
    Programs <- AllPrograms
    Images <- Offered
    ValidatingHost = TRUE
    Bases = {1, 2, 3}
    ImageIds = {1}
    RegWords <- Words
    PeerWrites <- NoPeers
    CqSize = 1
    MaxInflight = 3
    SeqWrap = 2
    IterWrap = 8
    CursorFaults = {}
    EvidenceCap = 3
SPECIFICATION Spec
CHECK_DEADLOCK FALSE
INVARIANTS
    ProgramOrder
    InputsCopied
    TripCount
    WhileExit
    SentinelProves
    HostCheckSuffices
PROPERTY
    ExactlyOneArm
