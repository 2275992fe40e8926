CONSTANTS
    N = 1
    Bytes = {0, 1}
    Zero = 0
    None = None
    MaxLines = 1
    Lossy = FALSE
    MaxQueuedRepairs = 1
    RepairEvery = 2
    PassLimit = 1
    RepairLimit = 2
    PingLimit = 1
    HashEvery = 1
    MaxRanges = 1
    Reusable = {0}
    Sources <- OneSource
    MaxSessions = 1
    MaxFaults = 2
SPECIFICATION FairSpec
CHECK_DEADLOCK FALSE
PROPERTY SessionEnds
