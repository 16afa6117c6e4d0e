SPECIFICATION Spec
CONSTANTS
    MaxPayload = 600
    InitialSizes <- MCInitialSizes
    TextSizes <- MCTextSizes
INVARIANTS
    TypeOK
    WritesInBounds
    WithinLimit
    SingleLeavesRoom
    FinalizeNearlyFits
PROPERTIES
    RefusedExactlyWhenTooLong
CHECK_DEADLOCK FALSE
