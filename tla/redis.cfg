CONSTANTS
    h1 = h1
    h2 = h2
    l1 = l1
    l2 = l2
    Absent = Absent
    Handlers = {h1, h2}
    Limiters = {l1, l2}
    Callers <- MCCallers
    PerMinute = 1
    Burst = 1
    Ttl = 1
    MaxEntries = 1
    FailCount = 2
    OpenWindow = 1
    MaxTime = 3
    MaxRequests = 3
    Creators = {p1, p2, p3}
    LockTTL = 2
    CallTimeout = 3
    MaxConversations = 3
    MaxLate = 1
    None = None
SPECIFICATION RedisSpec
INVARIANTS RatesBounded CircuitJustified DoubledByOverrun
PROPERTY LockReleasedByHolder
VIEW View
SYMMETRY Symmetry
CHECK_DEADLOCK FALSE
