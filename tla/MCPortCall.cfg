SPECIFICATION PortCallSpec
CONSTANTS
    o1 = o1
    o2 = o2
    none = none
    None = none
    Calls = {"c1", "c2"}
    Docs = {"d1", "d2"}
    DocType <- MCDocType
    Officers = {o1, o2}
    Keys = {"k1"}
    Messages = {"m1"}
    Expires <- MCExpires
    MaxClockSkew = 0
    ReplayTTL = 1
    MaxTime = 2
    MaxEvents <- MCMaxEvents
SYMMETRY Symmetry
INVARIANTS
    OutboxReplays
    FourEyesChain
    ApprovalVerified
    OneCallPerMessage
CHECK_DEADLOCK FALSE
