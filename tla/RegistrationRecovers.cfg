SPECIFICATION RetrySpec
CONSTANTS
    p1 = p1
    p2 = p2
    NoProcess = NoProcess
    Processes = {p1, p2}
    Calls = {"onboard", "update", "process"}
    Persistent = {p1}
    Profiles = {"MCL_SECURITY_SHARED_SECRET", "MCL_SECURITY_RSA_3072"}
    MaxRat = 2
    MaxKey = 3
    MaxLate = 0
    Faults = {"crash"}
PROPERTIES
    CallsReturn
    AgentsRecover
