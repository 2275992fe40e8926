CONSTANTS
    N = 2
    Bytes = {0, 1, 2}
    Zero = 0
    None = None
    Ids <- TwoIds
    MaxCrashes = 2
SPECIFICATION Spec
INVARIANT RestartTrustsOnlyDurable
