CONSTANTS
    N = 2
    Bytes = {0, 1}
    Zero = 0
    None = None
    MaxLines = 1
    Lossy = TRUE
    MaxQueuedRepairs = 1
    RepairEvery = 2
    PassLimit = 1
    RepairLimit = 2
    PingLimit = 0
    HashEvery = 2
    MaxRanges = 1
    Reusable = {}
    Sources <- OneSource
    MaxSessions = 1
    MaxFaults = 0
SPECIFICATION FairSpec
CHECK_DEADLOCK FALSE
PROPERTY Completes
