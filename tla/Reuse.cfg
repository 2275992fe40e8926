SPECIFICATION Spec
CHECK_DEADLOCK FALSE
CONSTANTS
    Bytes <- TwoBytes
    Cuts <- AfterZero
    MinChunk = 2
    MaxChunk = 3
    MaxChunks = 5
    MaxEncoded = 364
    Payload = 2
    Files <- SomeFiles
    MaxEdits = 1
    None = None
    Hole = Hole
INVARIANTS ClaimsAreTrue ReuseIsComplete NoSpuriousFailure
