SPECIFICATION LiveSpec
CONSTANTS
    b1 = b1
    b2 = b2
    BatchIds = {b1, b2}
    MaxName = 2
    MaxItems = 2
    EntryLen = 2
    RetryGrowth = 1
    MaxBytes = 20
    ScanLimit = 6
    MaxAttempts = 1
    HubFields <- AckFields
    Refusals = {"server-error"}
    MaxCrashes = 0
    MaxBad = 1
PROPERTY QueueDrains
