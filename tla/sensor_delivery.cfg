SPECIFICATION Spec
CONSTANTS
    b1 = b1
    b2 = b2
    BatchIds = {b1, b2}
    MaxName = 3
    MaxItems = 2
    EntryLen = 2
    RetryGrowth = 1
    MaxBytes = 7
    ScanLimit = 2
    MaxAttempts = 1
    HubFields <- AckFields
    Refusals = {"throttled", "server-error", "unauthorized"}
    MaxCrashes = 1
    MaxBad = 1
SYMMETRY BatchSymmetry
INVARIANTS TypeOK NoBatchLost SpoolBound
PROPERTY EntryKeepsBatch
