CONSTANTS
    a1 = a1
    a2 = a2
    a3 = a3
    e1 = e1
    e2 = e2
    e3 = e3
    s1 = s1
    s2 = s2
    MaxConns = 1
    MaxSessions = 1
    AgentIDs = {a1, a2, a3}
    Agents = {a1, a2, a3}
    Emails = {e1, e2, e3, root}
    RootEmail = root
    Passwords = {p1}
    WeakPasswords = {}
    SiteIDs = {s1, s2}
    Domains = {d1, d2, d3}
    AdminCalls = {}
    Logins = {}
    Staff <- TwoSites
    MaxOps = 1
    ConvSite = s1
    AllowedOrigins = {console}
    Tokens = {vt, other}
    VisitorToken = vt
    CallerTypes = {"visitor", "agent"}
    Requests = {g1}
    ClientMsgIDs = {k1}
    None = None
    MaxMessages = 2
SPECIFICATION GatewaySpec
INVARIANT SiteIsolation
PROPERTY ActsWithinRights
VIEW View
SYMMETRY Symmetry
CHECK_DEADLOCK FALSE
