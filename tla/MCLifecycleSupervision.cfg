SPECIFICATION Spec
CONSTANTS
    Procs = {p1}
    Calls = {c1, c2}
    Kids = {k1, k2}
    NoKid = NoKid
    MaxRestartCount = 2
    MemoryLimited = {p1}
    Requests = {"start", "stop", "restart"}
    Faults = {}
    MaxTimers = 1
PROPERTIES
    ImplementsSupervision
