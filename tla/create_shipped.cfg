CONSTANTS
    Creators = {p1, p2, p3}
    LockTTL = 2
    CallTimeout = 3
    MaxConversations = 2
    MaxLate = 0
    None = None
SPECIFICATION CreateSpec
SYMMETRY Symmetry
CHECK_DEADLOCK FALSE
INVARIANT AtMostOneOpen
