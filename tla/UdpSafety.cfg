CONSTANTS
    N = 2
    Bytes = {0, 1}
    Zero = 0
    None = None
    MaxLines = 1
    Lossy = FALSE
    MaxQueuedRepairs = 1
    RepairEvery = 2
    PassLimit = 1
    RepairLimit = 2
    PingLimit = 0
    HashEvery = 2
    MaxRanges = 1
    Reusable = {0}
    Sources <- MCSources
    MaxSessions = 2
    MaxFaults = 1
SPECIFICATION Spec
CHECK_DEADLOCK FALSE
INVARIANTS TypeOK RepairQueueConsistent CountIsBitmap NoSpuriousFailure HashedPrefixIsOnDisk MapClaimsAreTrue
PROPERTIES ContractKept DurableProgressGrows DiscardOnlyAfterDamage
