SPECIFICATION Spec
CONSTANTS
    p1 = p1
    p2 = p2
    NoProcess = NoProcess
    Processes = {p1}
    Calls = {"onboard", "update"}
    Persistent = {}
    Profiles = {"MCL_SECURITY_SHARED_SECRET", "MCL_SECURITY_RSA_3072"}
    MaxRat = 1
    MaxKey = 1
    MaxLate = 0
    Faults = {"write"}
PROPERTY UpdateReturns
