SPECIFICATION Spec
CONSTANTS
    Loggers = {l1, l2}
    NoLogger = NoLogger
    MaxLines = 2
    Sizes = {1, 2}
    MaxSize = 2
    Threshold = 1
    MaxRetries = 2
    FileLines = 3
    LineLength = 3
    SmallFile = 4
INVARIANTS
    TimerArmed
    NotRepeated
    CloseFlushes
    ReaderLosesOnlyCutLines
PROPERTIES
    ImplementsLogSink
CHECK_DEADLOCK FALSE
