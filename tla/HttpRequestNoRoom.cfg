SPECIFICATION Spec
CONSTANTS
    MaxPayload = 600
    InitialSizes <- MCInitialSizes
    TextSizes <- MCTextSizes
INVARIANTS
    TupleLeavesRoom
CHECK_DEADLOCK FALSE
