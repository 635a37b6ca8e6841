SPECIFICATION FairSpec
CONSTANTS
    Connections = {c1}
    MaxID = 4
    History = 2
    QueueCap = 2
    PageSize = 1
    MaxReplay = 2
    MaxAgain = 1
    None = None
INVARIANTS
    NoWindowLost
    ReplayComplete
PROPERTY
    EventuallyReleased
CHECK_DEADLOCK FALSE
