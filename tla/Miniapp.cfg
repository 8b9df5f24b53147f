\* The company page (one page, two sessions, two queries, two pages of companies)
\* or the home page over two reports, or a list of two companies, a part at a time.
SPECIFICATION MiniappSpec
CONSTANTS
    Tokens = {one, two}
    None = None
    Queries = {q1, q2}
    Filters = {f1}
    Companies = 2
    Wanted = {1}
    MaxSearches = 2
    Reports = {1, 2}
    Kinds = {"geo", "macro"}
    Units <- MCUnits
    Tabs <- MCTabs
    PageLimit = 1
    WalkLimit = 1
    HomeLoads = {one, two}
    UnitLoads = {one, two}
    DetailReads = {d1}
    DayLength = 1
    LastMoment = 1
    TrackedStocks = {1, 2, 3}
    root = root
    leaf = leaf
    Industries = {root, leaf}
    ParentOf <- MCParent
    Lookups = {"all"}
    Logins = {"session"}
    Followers = {"user"}
    OwnerOf <- MCOwner
    TrackCalls = {"reader", "writer"}
    PageSizes = {1}
    MaxOffset = 9
    LastInstant = 2
    Nothing = Nothing
SYMMETRY MiniappSymmetry
INVARIANTS
    ResultsMatchSearch
    PagesAreContiguous
    FollowShown
    ContentIsVerified
    PageIsNeverStuck
    ReadsMissNothing
    HomeIsWhole
    WatchlistIsServed
PROPERTIES
    HomeNeverGoesBack
