SPECIFICATION FairSpec
CONSTANTS
    Lanes = 2
    MaxLen = 3
    Bytes = {0, 1}
    Zero = 0
    None = None
    Modes <- BothModes
    MaxFaults = 1
    MaxChanges = 1
INVARIANTS NoSpuriousFailure TemporaryRemoved
PROPERTIES ContractKept SessionEnds
