SPECIFICATION Spec
CONSTANTS
    Procs = {p1}
    Calls = {c1, c2}
    Kids = {k1}
    NoKid = NoKid
    MaxRestartCount = 2
    MemoryLimited = {p1}
    Requests = {"start", "stop", "restart", "signal", "cleanup"}
    Faults = {"denied", "lingering"}
    MaxTimers = 1
PROPERTIES
    EveryCallReturns
    NothingStartsAfterCleanup
