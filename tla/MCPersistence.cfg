SPECIFICATION SafeSpec
CONSTANTS
    Savers = {s1, s2}
    Inodes = {i1, i2, i3, i4, i5}
    None = None
    MaxState = 2
SYMMETRY Symmetry
INVARIANTS
    CleanupKeepsState
PROPERTIES
    ImplementsStore
CHECK_DEADLOCK FALSE
