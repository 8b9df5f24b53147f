\* Three calls, two WeChat users, contradicting unionids; two pages, two sessions.
SPECIFICATION AccountsSpec
CONSTANTS
    Requests = {r1, r2, r3}
    OpenIDs = {o1, o2}
    UnionIDs = {n1, n2}
    Stocks = {s1}
    AuthorizedOps = {"nickname+avatar"}
    TTL = 1
    MaxClock = 0
    None = None
    Pages = {1, 2}
    Offers <- MCOffers
    SessionTokens = {1, 2}
    NoToken = NoToken
SYMMETRY Symmetry
INVARIANTS
    AccountsAreWhole
    SessionMatchesExchange
    RetryFindsWinner
    ProfileIsOfSession
PROPERTIES
    LoginIsKept
CHECK_DEADLOCK FALSE
