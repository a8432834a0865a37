CONSTANTS
    WordBits = 4
    MaxNodes = 4
    MaxBuckets = 2
    MaxSignals = 2
    MaxLoops = 1
    ArgAvailable = 8
    Images <- StraightImages
    ValidatingHost = FALSE
    Bases = {1, 2, 3}
    ImageIds = {1, 2}
    RegWords <- Words
    PeerWrites <- PeerSlots
    CqSize = 1
    MaxInflight = 2
    SeqWrap = 3
    IterWrap = 8
    CursorFaults <- FaultImages
    EvidenceCap = 2
SPECIFICATION FairSpec
CHECK_DEADLOCK FALSE
INVARIANTS
    TypeOK
    DispatchedTracked
    CompletionIsFixpoint
    ErrorExplained
    EvidenceExact
    DependencyOrder
    NoLostCompletion
PROPERTIES
    GraphEnds
    FirstErrorWins
    FatalStopsWork
