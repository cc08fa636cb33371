SPECIFICATION Spec
CONSTANTS
    Daemons = {d0, d1}
    None = None
    Recoveries = {r1, r2}
    Apps = {a}
    Overlap = FALSE
    Earlier = {d0}
    Busy = {d1}
INVARIANTS
    CleanExit
    Reachable
PROPERTIES
    SignalEnds
    ErrorEnds
CHECK_DEADLOCK FALSE
