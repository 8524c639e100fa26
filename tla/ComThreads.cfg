SPECIFICATION ComSpec
CONSTANTS
    t1 = t1
    t2 = t2
    m1 = m1
    m2 = m2
    a1 = a1
    w1 = w1
    s1 = s1
    NoThread = NoThread
    Threads <- TwoThreads
    MtaUsers <- TwoMta
    WasapiUsers <- OneWasapi
    WindowUsers <- OneWindow
    StaUsers <- OneSta
    MaxDepth = 2
CHECK_DEADLOCK FALSE
INVARIANTS
    ThreadsGoBackClean
    InApartment
