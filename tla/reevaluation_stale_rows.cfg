SPECIFICATION LiveSpec
CONSTANTS
    c1 = c1
    c2 = c2
    Catalogs = {c1, c2}
    None = None
    SeqOf <- TwoSeq
    Advisories = {1, 2}
    Content <- TwoContents
    Kev = FALSE
    MaxActs = 2
    MaxJobs = 2
    MaxEvals = 3
    MaxFaults = 0
INVARIANT MatchesAlways
CHECK_DEADLOCK FALSE
