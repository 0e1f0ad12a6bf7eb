SPECIFICATION Spec
CONSTANTS
    Known <- KnownFacts
    Evaluations = {e1, e2}
    Handled <- HandledFindings
    MaxChanges = 1
    Components = {"c1", "c2"}
    NativeSources = {"32bit", "64bit"}
    Reports <- ReportsOfAsset
    Projections = {p1, p2}
    Processes = {h1, h2, h3}
    Releases <- Packaged
    Objects <- SchemaObjects
    KindOf <- Kinds
    TableOf <- Tables
    Databases <- FoundSchemas
    Reporters = {"s1", "s2"}
    Method <- Methods
    ReportedCategories = {1, 2}
    FirstReport <- KnownReport
    Evaluators = {v1, v2}
    MaxDay = 2
    MaxAlterations = 1
    LastDay = 4
    MaxRows = 5
    MaxSameDay = 2
    Expectation <- Sizes
    Persistence = 2
    ComponentMatches = {"m1", "m2"}
    SiteOf <- MatchSite
    AdvisoryOf <- MatchAdvisory
    MatchRuns = {w1, w2}
    KevCatalogs <- Exploited
    NewAdvisories <- Withdrawn1
    FirstAdvisories <- EarlyAdvisories
    MaxNews = 1
    RetainPrior = 1
    SourceReleases = {"r1", "r2", "r3"}
    MaxTime = 2
    MaxDeployments = 3
    Publishers = {"k1", "k2"}
    Versions = {1, 2}
    CatalogBytes = {"x", "y"}
    Floors = {0, 2}
    MaxKevSequence = 3
    OsvIds = {"o1", "o2"}
    Overlap = 1
    ExportDelay = 1
    LastChange = 3
    MaxRemoved = 1
    MaxBundles = 2
    Histories <- HubHistories
    Questions <- SomeAsks
    AskedSites = {"anywhere", "x"}
    AskedAssets = {"anywhere", "a"}
    FewItems = 1
    MaxToolItems = 3
    MaxEvidenceItems = 5
    AdvisorSettings <- SomeSettings
    Manifests <- SomeManifests
    Registries <- SomeRegistries
    Qualifications <- AskedTests
    SuiteVersions <- Suites
    MaxOperations = 3
    Keyring <- FeedKeyring
    BundleKeys = {"p1", "p2", "p3"}
    IndexKeys = {"i1"}
    HostIndexes <- ServedIndexes
    HostManifests <- ServedManifests
    HostPayloads <- ServedPayloads
    HostSignatures <- ServedSignatures
    MaxStored = 2
    MaxPlain = 4
    MaxExpansion = 2
    TotalTimeout = 2
    FutureSkew = 1
    IndexLife = 1
    AbandonedAfter = 2
    LastFeedTime = 3
    MaxRetrievals = 1
INVARIANTS PartsTypeOK FindingsCurrent AlgorithmsSound ClassificationCurrent CutoffSafe PublicationsSound AdvisorSound
PROPERTIES InventorySound SchemaSound MatchesSound
CHECK_DEADLOCK FALSE
