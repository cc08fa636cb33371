SPECIFICATION Spec
CONSTANTS
    Sockets = {s1, s2}
    NoSocket = NoSocket
    Requests = {r1}
    Entry = Entry
    LargeRequests = {r1}
    LargeAnswers = {r1}
    Following = {r1}
    MaxConnections = 1
    Launches = 2
INVARIANTS
    PendingIsWaiting
    ConnectionsCounted
PROPERTIES
    ConnectionsLeave
    ImplementsCalls
CHECK_DEADLOCK FALSE
