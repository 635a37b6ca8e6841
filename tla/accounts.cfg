CONSTANTS
    AgentIDs = {"a1", "a2"}
    Emails = {"e1", "e2", "root"}
    RootEmail = "root"
    Passwords = {p1, p2, weak}
    WeakPasswords = {weak}
    SiteIDs = {"s1", "s2"}
    Domains = {d1, d2}
    AdminCalls = {c1, c2}
    Logins = {l1}
    Staff <- OneAgent
    MaxOps = 4
SPECIFICATION AccountsSpec
INVARIANTS
    SessionsCurrent
    ChangesAccountable
    DirectoryConsistent
SYMMETRY Symmetry
CHECK_DEADLOCK FALSE
