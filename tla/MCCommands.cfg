SPECIFICATION Spec
CONSTANTS
    Members = {1, 2, 3}
    Procs <- MCProcs
    NoSpace = NoSpace
    MaxAttempts = 2
    MaxCalls = 2
    Files = {f}
    Contents <- MCContents
    TargetLists <- MCTargetLists
    MaxTimers = 1
INVARIANTS
    ConfigsApply
    ConfigsStayValid
    GroupsAreOrdered
    CommandLineIsTrue
    AskedToStopIsGone
PROPERTIES
    EveryCommandReturns
CHECK_DEADLOCK FALSE
