SPECIFICATION SafeSpec
CONSTANTS
    Daemons = {d1, d2, d3}
    None = None
    Recoveries = {r1}
    Apps = {a}
    Overlap = FALSE
    Earlier = {}
    Busy = {}
INVARIANTS
    OneDaemon
CHECK_DEADLOCK FALSE
