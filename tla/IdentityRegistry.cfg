\* Three calls, expiring sessions: replacement, logout, writes, disablement,
\* and the refinement.
SPECIFICATION Spec
CONSTANTS
    Requests = {r1, r2, r3}
    OpenIDs = {o1}
    UnionIDs = {n1}
    Stocks = {s1}
    AuthorizedOps = {"nickname+avatar"}
    TTL = 1
    MaxClock = 1
    None = None
SYMMETRY Symmetry
INVARIANTS
    ReplacedSessionRevoked
PROPERTIES
    WritesAreAuthorized
    ImplementsRegistry
CHECK_DEADLOCK FALSE
