SPECIFICATION EdgeSpec
CONSTANTS
    e1 = e1
    e2 = e2
    t1 = t1
    t2 = t2
    Enrollments = {e1, e2}
    Txns = {t1, t2}
    MaxCreds = 3
    MaxAttempts = 2
    Nobody = Nobody
    Requests = {q1, q2}
    MaxCredentials = 3
    MaxFailures = 2
    MaxIssued = 2
    MaxFailed = 1
    MaxBrought = 1
    Policies = {"a1", "a2"}
    FirstPolicy = "a1"
    Contents <- WrittenContents
    FirstContent <- EarlyContent
    DefaultContent <- HubDefault
    LocalSettings <- ConfiguredLocally
    MaxEdits = 2
    SensorVersions = {"v1", "v2"}
    MaxOperations = 3
    Items <- SeenItems
    Tagged = {2}
    MaxDevices = 2
    MaxIPs = 2
    MaxEvidence = 1
    ContractEvidence = 1
    BatchSize = 2
    TTL = 1
    LastTime = 4
    Sites = {"s1", "s2"}
    Commands = {c1, c2}
    MaxLaunched = 3
    MaxDrawn = 1
    MaxSecrets = 2
    AgentVersions = {"v1", "v2"}
    AgentTargets = {"linux", "macos"}
    Releases <- SandboxReleases
    MaxSandboxJobs = 2
SYMMETRY Symmetry
INVARIANTS EdgeTypeOK IdentitySound ProgramsSound
PROPERTIES StoredIsAuthorized NothingRevives AgentSound InstallSound AggregateSound
CHECK_DEADLOCK FALSE
