CONSTANTS
    Agents = {a1}
    Tokens = {vt}
    VisitorToken = vt
    CallerTypes = {"visitor", "agent", "ai"}
    Requests = {w1, w2, r1}
    Workers = {w1, w2}
    ak1 = ak1
    ak2 = ak2
    ak3 = ak3
    ak4 = ak4
    uk1 = uk1
    uk2 = uk2
    AIKey <- MCAIKey
    ClientMsgIDs <- MCClientMsgIDs
    None = None
    MaxMessages = 4
    MaxAIFaults = 1
    MaxFaults = 4
    project = project
    service = service
    Containers = {1, 2}
    Labels <- MCLabels
    FailThreshold = 2
    Cooldown = 2
    NoContainer = NoContainer
SPECIFICATION BackgroundSpec
VIEW View
INVARIANTS OneReplyPerMessage RestartJustified
PROPERTY TunnelRecovers
CHECK_DEADLOCK FALSE
