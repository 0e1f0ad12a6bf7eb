SPECIFICATION FeedSpec
CONSTANTS
    k1 = k1
    k2 = k2
    Keys = {k1, k2}
    ChangingKeys = {k2}
    Bundles <- ThreeBundles
    Expiring <- NewestBundle
    MaxRuns = 3
    MaxRetained = 3
    MaxTasks = 2
    MaxFaults = 1
INVARIANTS FeedTypeOK OneActiveRun ActiveIsActivated BaselineKept WaitingIsNewer
PROPERTY RegisterSpec
CHECK_DEADLOCK FALSE
