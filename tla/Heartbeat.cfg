SPECIFICATION Spec
CONSTANTS
    SenderTimeout = 6
    ReceiverTimeout = 7
    MaxInterval = 10
    ReportInterval = 2
    CheckpointInterval = 3
    Chunks = 3
    Stride = 2
    Few = 1
    Batch = 2
    Cost = 1
    Stall = 2
    Delay = 1
INVARIANT TypeOK
INVARIANT NoFalseTimeout
INVARIANT AbortsInTime
