SPECIFICATION ServicesSpec
CONSTANTS
    Conversations = {c1, c2}
    Sentinel = Sentinel
    Attempts = 2
    MaxLifespans = 2
    Files = {f}
    Issues = {i}
    Sources = {a, b}
    NoSource = NoSource
    Requests = {r1, r2}
    MaxFaults = 2
    EmbedTexts = {t, u}
    EmbedCalls = {e1, e2}
    CacheSizes <- MCCacheSizes
    Calls = {k1, k2}
    Paths = {p1}
    Texts = {a, b}
    NoText = NoText
    Commands = {w1}
    MaxEdits = 2
    Projects = {p, q}
    Known = {p}
    Fingerprints = {g}
    NoFingerprint = NoFingerprint
    Nowhere = Nowhere
    Askers = {k}
    MaxViolations = 3
    MaxSightings = 2
    Tasks = {t1}
    Decisions = {d1, d2}
    Owners = {p, q}
    RealOwners = {p}
    NoOwner = NoOwner
    Packages = {pkg, sub}
    PackageFiles <- MCNumbers
    ChunkSizes <- MCSizes
    TreeFiles <- MCNumbers
    BatchSizes = {0, 2}
    ToolCalls = {x, y}
    MaxResults = 2
INVARIANTS
    ServicesTypeOK
    JoinCounter
    PendingHasJob
    IndexAccounted
    HashMeansEmbedding
    CacheIsRecent
    CallsRunOnce
    StagedIsFresh
    OneLiveNode
    SupersededHasSuccessor
    AuditedOnce
    ReportIsWhole
PROPERTIES
    DrainedStop
    StopEnds
    RunEnds
    WatcherSettles
    ResolvedStays
CHECK_DEADLOCK FALSE
