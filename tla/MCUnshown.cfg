SPECIFICATION SafeSpec
CONSTANTS
    Procs = {p1}
    Calls = {c1, c2}
    Kids = {k1, k2}
    NoKid = NoKid
    MaxRestartCount = 2
    MemoryLimited = {}
    Requests = {"start", "stop", "restart", "cleanup"}
    Faults = {"denied", "lingering"}
    MaxTimers = 1
INVARIANTS
    LivingIsShown
