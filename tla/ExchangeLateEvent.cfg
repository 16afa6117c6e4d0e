SPECIFICATION Spec
CONSTANTS
    r1 = r1
    r2 = r2
    Records = {r1, r2}
    EventVersions = {"1.0"}
    Kinds = {"1.0"}
    MaxItems = 2
    MaxPayload = 1400
    TextLength <- MCTextLength
    Codes = {"MCL_UNAUTHORIZED"}
    Faults = {}
INVARIANTS
    SentMeansAccepted
