CONSTANTS
    Agents = {a1, a2}
    Tokens = {vt}
    VisitorToken = vt
    CallerTypes = {"visitor", "agent"}
    Requests = {r1, r2}
    ClientMsgIDs = {k1, k2}
    None = None
    MaxMessages = 2
    Callbacks = {c1}
    AutoCloseAfter = 2
    MaxTime = 3
    MaxCrashes = 1
    MaxFaults = 1
SPECIFICATION AutoCloseFairSpec
VIEW View
INVARIANT TimerCoversWaiting
PROPERTIES
    NoEarlyAutoClose
    EventuallyAutoClosed
CHECK_DEADLOCK FALSE
