SPECIFICATION LiveSpec
CONSTANTS
    c1 = c1
    c2 = c2
    Catalogs = {c1, c2}
    None = None
    SeqOf <- TwoSeq
    Advisories = {1, 2}
    Content <- TwoContents
    Kev = FALSE
    MaxActs = 3
    MaxJobs = 2
    MaxEvals = 2
    MaxFaults = 1
INVARIANTS TypeOK MatchesCurrent NotHidden
PROPERTY ReevaluationEnds
CHECK_DEADLOCK FALSE
