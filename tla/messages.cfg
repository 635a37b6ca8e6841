CONSTANTS
    Agents = {a1, a2}
    Tokens = {vt, other}
    VisitorToken = vt
    CallerTypes = {"visitor", "agent"}
    Requests = {r1, r2}
    ClientMsgIDs = {k1, k2}
    None = None
    MaxMessages = 3
SPECIFICATION Spec
SYMMETRY Symmetry
CHECK_DEADLOCK FALSE
INVARIANTS
    TypeOK
    MessageAnnouncedOnce
    ReadIffAnnounced
    UniqueClientMsgID
    AckedMessageDurable
    TransferConsistent
    ClosedAnnouncedOnce
PROPERTIES
    ClosedFrozen
    OwnerHandedOver
