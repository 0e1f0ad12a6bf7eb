SPECIFICATION Spec
CONSTANTS
    Sources <- AllSources
    Bound = {"endpoint"}
    Rank <- Ranks
    Adapter <- Adapters
    Assets = {"a"}
    Requests <- AllRequests
    Calls = {1, 2}
    Window = 2
    Limit = 1
    MaxTime = 2
    Admins = {1}
    MaxPending = 1
    MaxFailures = 1
    MaxRestarts = 1
INVARIANTS QueueTypeOK StrongestWins AdmissionBound AnswerIsStored Kept
PROPERTY Settled
CHECK_DEADLOCK FALSE
