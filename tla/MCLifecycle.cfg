SPECIFICATION SafeSpec
CONSTANTS
    Procs = {p1}
    Calls = {c1, c2, c3}
    Kids = {k1, k2}
    NoKid = NoKid
    MaxRestartCount = 2
    MemoryLimited = {p1}
    Requests = {"start", "stop", "restart"}
    Faults = {"denied", "lingering"}
    MaxTimers = 2
SYMMETRY Symmetry
INVARIANTS
    ListenerWaits
    TransientStatusHasOwner
    OnlineIsTracked
    NoChildForgotten
    OneChildPerProcess
PROPERTIES
    StopMeansDead
    UsesKeyedMutex
