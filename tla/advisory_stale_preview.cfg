SPECIFICATION LiveFeed
CONSTANTS
    k1 = k1
    k2 = k2
    Keys = {k1, k2}
    ChangingKeys = {}
    Bundles <- ThreeBundles
    Expiring = {}
    MaxRuns = 3
    MaxRetained = 3
    MaxTasks = 1
    MaxFaults = 0
INVARIANT PreviewIsCurrent
CHECK_DEADLOCK FALSE
