SPECIFICATION FairSpec
CONSTANTS
    N = 2
    Contents = {a, b}
    a = a
    b = b
    Dirs = {d}
    d = d
    MarkerFile = 0
    ReadOnly = {2}
    BareOut = FALSE
    Senders = {s1}
    s1 = s1
    CrashPoints <- AllPoints
    MaxFaults = 2
    MaxChanges = 1
    None = None
    Torn = Torn
    Foreign = Foreign
INVARIANT TypeOK
PROPERTIES InstallsWholeTree SuccessMeansStaged Recovers
