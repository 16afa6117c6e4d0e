SPECIFICATION Spec
CONSTANTS
    r1 = r1
    r2 = r2
    Records = {r1, r2}
    EventVersions = {"1.0"}
    Kinds = {"custom", "time_series"}
    MaxItems = 3
    MaxPayload = 1181
    TextLength <- MCTextLength
    Codes = {"MCL_UNAUTHORIZED"}
    Faults = {}
INVARIANTS
    SentMeansAccepted
