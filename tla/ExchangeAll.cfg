SPECIFICATION Spec
CONSTANTS
    r1 = r1
    r2 = r2
    Records = {r1, r2}
    EventVersions = {"1.0"}
    Kinds = {"time_series", "file", "custom", "1.0"}
    MaxItems = 3
    MaxPayload = 1181
    TextLength <- MCTextLength
    Codes = {"MCL_UNAUTHORIZED"}
    Faults = {"initialize", "prepare", "event", "add", "finish", "network"}
SYMMETRY Symmetry
INVARIANTS
    TypeOK
    NothingLostUnexposed
    NoNeedlessDuplicate
    WrittenIsInRequest
    RequestWithinLimit
    OneListPerEventVersion
PROPERTIES
    LeftOutOnlyIfTooLong
    OkMeansAllExchanged
    ImplementsDelivery
