CONSTANTS
    s1 = s1
    s2 = s2
    d1 = d1
    d2 = d2
    t1 = t1
    t2 = t2
    NoDir = NoDir
    Topics = {t1, t2}
    ShortText = 2
    MaxContext = 2
    Docs = {d1, d2}
    Lines <- MCLines
    Markdown = {d1, d2}
    ChunkLines = 2
    Sites = {s1, s2}
    Deployed <- MCDeployed
    UploadBatch = 2
    CandidateK = 2
    TopK = 2
    ContextLines = 3
    PrimaryDoc = d2
    Asks <- MCAsks
    MaxReloads = 2
    MaxDisturbances = 1
SPECIFICATION Spec
INVARIANTS ReadyIndexWhole AnswersFromFiles ReplyGrounded 
PROPERTY ReloadEnds
CHECK_DEADLOCK FALSE
