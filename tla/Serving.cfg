SPECIFICATION Spec
CONSTANTS
    ann = ann
    bob = bob
    d1 = d1
    d2 = d2
    User = {ann, bob}
    Nobody = Nobody
    Document = {d1, d2}
    Owner <- MCOwner
    NameOf <- MCName
    Indexed = {d1}
    Configs <- MCConfigs
    Minted <- MCMinted
    Surfaces <- MCSurfaces
    Needs <- MCNeeds
    ExtraTools = {"erase", "bare"}
    MaxCalls = 2
    MaxChanges = 1
    Books <- MCBooks
    Cuts <- MCCuts
    Chunk = {c1, c2, c3, c4}
    Backfilled = {c1, c2, c3}
    CandK = 3
    TopK = 2
    RerankTop = 2
    Limits = {0, 1, 3}
    RrfK = 2
    Scores = {0, 1, 2}
    MinScore = 1
    RerankMinScore = 2
    Delays = {0, 9, 25}
    Limiter = {"query", "auth"}
    Rate <- MCRate
    Minute = 4
    Requests <- MCRequests
    Horizon = 6
    MaxAsks = 6
    Process = {s1, s2}
    Founded = {0, 2, 8, 14}
    Targets = {2, 7, 9, 11, 13}
    MaxDowngrades = 1
    MaxWrites = 3
INVARIANTS
    Tenancy
    GateTrue
    ChunksTrue
    AnswerTold
    BucketExact
    SchemaTrue
CHECK_DEADLOCK FALSE
