SPECIFICATION Spec
CONSTANTS
    p1 = p1
    p2 = p2
    NoProcess = NoProcess
    Processes = {p1, p2}
    Calls = {"onboard", "rotate_key", "update", "get_access_token", "process"}
    Persistent = {}
    Profiles = {"MCL_SECURITY_SHARED_SECRET", "MCL_SECURITY_RSA_3072"}
    MaxRat = 2
    MaxKey = 4
    MaxLate = 1
    Faults = {"enter", "compose", "network", "malformed", "refuse", "open", "write", "close", "crash"}
SYMMETRY Symmetry
INVARIANTS
    TypeOK
    CriticalSection
    CredentialsInCustody
    PairsMatch
    UpToDateIsUpToDate
    OkMeansSaved
    UpdateIsCurrent
PROPERTIES
    CurrentIsKept
    ImplementsCustody
