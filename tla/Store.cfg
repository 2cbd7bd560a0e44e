CONSTANTS
    p1 = p1
    p2 = p2
    w1 = w1
    w2 = w2
    w3 = w3
    t1 = t1
    a = a
    Processes = {p1, p2}
    Workers = {w1, w2, w3}
    ProcessOf <- MCProcessOf
    Users = {u1}
    Roles <- MCRoles
    Tx = {t1}
    Values = {a, b}
    FirstBook <- MCFirstBook
    LiveDates = TRUE
    CacheLimit = 1
    MaxRequests = 2
    MaxEvents = 1
    None = None
SPECIFICATION FairSpec
CHECK_DEADLOCK FALSE
INVARIANTS
    CachesExact
    AnswersFresh
PROPERTIES
    LedgerSpec
    ReviewedOnly
    AuthorityAtCommit
    EveryRequestEnds
