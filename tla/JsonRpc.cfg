SPECIFICATION Spec
CONSTANTS
    c1 = c1
    c2 = c2
    s1 = s1
    None = None
    Threads = {c1, c2, s1}
    Side <- MCSide
    Methods = {"calc", "fail", "size", "scale", "ratio"}
    Notifications = {"note", "rpc.off"}
    Reserved = {"rpc.off"}
    Named = {"calc"}
    ParamType <- MCParamType
    Raising = {"fail"}
    Requests <- MCRequests
    Listeners = {"calc", "note", "rpc.off"}
    IntMin <- MCIntMin
    IntMax = 3
    UIntMax = 7
    Double <- MCDouble
    Float <- MCFloat
    MaxCalls = 2
    TurnTaking = TRUE
INVARIANTS TypeOK OwnResponse FramesWhole ArgumentsKept
PROPERTY CallsReturn
CHECK_DEADLOCK FALSE
