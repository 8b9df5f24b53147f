\* One part of the Data Service at a time, two calls each; or three calls of
\* the User Service.
SPECIFICATION ServicesSpec
CONSTANTS
    Calls = {c1, c2}
    Keys = {k1, k2}
    Contents = {text}
    Strict = {text}
    Cites <- PlainCites
    Statements = {1, 2}
    Absent = Absent
    keyA = keyA
    keyB = keyB
    bad = bad
    endless = endless
    e1 = e1
    e2 = e2
    gone = gone
    LocalKeys = {keyA, keyB}
    LongKeys = {endless}
    KnownEvidence = {e1, e2}
    Drafts <- MCDrafts
    Null = Null
    Fold <- MCFold
    Cast <- MCCast
    KnownCategories = {1, 2}
    PublishedEvidence = {1, 2}
    FactDrafts <- MCFactDrafts
    bocha = bocha
    tavily = tavily
    feed = feed
    plain = plain
    exponent = exponent
    digits = digits
    Requests <- MCRequests
    Codes = {bocha, tavily, feed}
    SourceCalls = {c1, c2}
    Configs = {plain, exponent, digits}
    Jsonb <- MCJsonb
    Bytes <- MCBytes
    StampWidth <- MCStampWidth
    WorstWidth = 2
    MaxNow = 2
    MaxConfigBytes = 3
    MaxSources = 2
    MaxEnvelope = 10
    FixedManifest <- MCFixed
    ResearchManifest <- MCResearch
    Imports <- MCImports
    n1 = n1
    n2 = n2
    p1 = p1
    p2 = p2
    t1 = t1
    Names = {n1, n2}
    Profiles = {p1, p2}
    NoProfile = none
    Targets = {t1}
    Stocks = {1, 2}
    Dates = {1, 2}
    StockCalls = {c1, c2}
    Files <- MCFiles
    Runs = {c1, c2}
    Latest = 2
    Orders <- MCOrders
    MaxMigrationFaults = 1
    UserCalls = {u1, u2, u3}
    OpenIDs = {o1}
    UnionIDs = {}
    WatchedStocks = {s1}
    AuthorizedOps = {"add"}
    TTL = 1
    MaxClock = 0
    None = None
INVARIANTS
    OnlyDivergencesAreRefused
    AcceptedIsKept
    SourceSetIsWithinLimits
    DeadlocksNeedAnUnwrittenRow
    MigrationReportIsTrue
PROPERTIES
    EveryCallEnds
    RemovedAsReviewed
    PublishedFactsStay
CHECK_DEADLOCK FALSE
