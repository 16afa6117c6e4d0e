SPECIFICATION LiveSpec
CONSTANTS
    r1 = r1
    r2 = r2
    Records = {r1, r2}
    EventVersions = {"1.0"}
    Kinds = {"time_series", "file", "custom", "1.0"}
    MaxItems = 2
    MaxPayload = 1181
    TextLength <- MCTextLength
    Codes = {"MCL_UNAUTHORIZED"}
    Faults = {"initialize", "prepare", "event", "add", "finish", "network"}
PROPERTIES
    ExchangeReturns
