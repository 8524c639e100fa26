SPECIFICATION Spec
CONSTANTS
    a1 = a1
    a2 = a2
    b1 = b1
    t1 = t1
    t2 = t2
    NoEntry = NoEntry
    Objects <- Restarts
    Ids <- IdsAB
    IdOf <- IdOfObject
    Threads <- OneThread
    NumEvents = 1
    WorkCap = 1
    EventCap = 1
    MaxSessions = 1
    MaxChanges = 1
    MaxCurrent = 0
    MaxFailures = 0
CHECK_DEADLOCK FALSE
INVARIANTS
    RefsAccounted
    SessionsConverge
PROPERTIES
    CloseAnswered
    EventuallyQuiet
