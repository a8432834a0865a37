CONSTANTS
    b1 = b1
    b2 = b2
    b3 = b3
    Boards <- MCBoards
    MaxCards = 2
    MaxQpairs = 1
    Fds = {f1}
    NoFd = NoFd
    Xfers = {x1}
    QdmaFaults = {"add", "config", "start", "stop", "query", "remove", "submit"}
    MaxQdmaProbes = 2
    MaxEntries = 2
    MaxBufs = 1
    MaxVmas = 2
    MaxOpens = 1
    Bars = {0}
    MaxCtlProbes = 3
    MaxCtlOpens = 1
    MaxBarFds = 1
    Workloads <- MCWorkloads
SPECIFICATION Spec
INVARIANTS RefsExact QueuesTracked NodesMatch
PROPERTY XferEnds
CHECK_DEADLOCK FALSE
