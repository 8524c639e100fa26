SPECIFICATION Spec
CONSTANTS
    a1 = a1
    a2 = a2
    b1 = b1
    t1 = t1
    t2 = t2
    NoEntry = NoEntry
    Objects <- TwoIds
    Ids <- IdsAB
    IdOf <- IdOfObject
    Threads <- OneThread
    NumEvents = 1
    WorkCap = 1
    EventCap = 1
    MaxSessions = 2
    MaxChanges = 2
    MaxCurrent = 1
    MaxFailures = 1
CHECK_DEADLOCK FALSE
INVARIANTS
    RefsAccounted
    SessionsConverge
    NothingLeftAfterClose
    
