SPECIFICATION LibrarySpec
CONSTANTS
    Within <- MCWithin
    Freed <- MCFreed
    Table <- MCTable
    Halves <- MCHalves
    Removable <- MCRemovable
    Exceptions <- MCExceptions
    Optional <- MCOptional
    Together <- MCTogether
    OnlyWith <- MCOnlyWith
    Outline <- MCOutline
    n1 = n1
    n2 = n2
    n3 = n3
    n4 = n4
    Nodes = {n1, n2, n3, n4}
    NoNode = NULL
    Gone = Gone
    MaxCount = 3
    Bytes <- MCBytes
    Texts <- MCTexts
INVARIANTS
    OwnershipTypeOK
    OnlyOwnedMemoryIsTouched
    NothingIsLost
    ObjectsAreWhole
    ListTypeOK
    ListWellLinked
    WritesWithinBuffer
    DecodingIsInverse
PROPERTIES
    OkMeansComplete
    ErrorsLeaveObjectsAlone
    EveryItemIsVisited
    ImplementsIteration
