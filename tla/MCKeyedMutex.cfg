SPECIFICATION Spec
CONSTANTS
    Keys = {k1, k2}
    Callers = {c1, c2, c3, c4}
INVARIANTS
    MutualExclusion
PROPERTIES
    ImplementsFifoLock
