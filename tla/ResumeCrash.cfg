CONSTANTS
    N = 3
    Bytes = {0, 1, 2}
    Zero = 0
    None = None
    Ids <- MCIds
    MaxCrashes = 3
SPECIFICATION FairSpec
INVARIANTS TypeOK ClaimsDurableUnlessTorn
PROPERTIES InstallsWholeObject Recovers
