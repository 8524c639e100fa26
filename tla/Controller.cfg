SPECIFICATION Spec
CONSTANTS
    p1 = p1
    q1 = q1
    c1 = c1
    c2 = c2
    Commands <- OneCommand
    Queries <- OneQuery
    Closers <- TwoClosers
    Ids <- TwoIds
    AnyId = "any"
    MaxList = 3
    ScanCap = 2
CHECK_DEADLOCK FALSE
INVARIANTS
    SessionUsedWhileHeld
    OutcomeIsTrue
    NothingLeft
PROPERTIES
    CallsAnswered
