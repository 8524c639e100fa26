SPECIFICATION StackSpec
CONSTANTS
    x1 = x1
    x2 = x2
    c1 = c1
    c2 = c2
    NoSender = NoSender
    Calls <- TwoCalls
    Closers <- TwoClosers
    FrameCap = 1
    ErrorCap = 1
    NumPackets = 2
CHECK_DEADLOCK FALSE
INVARIANTS
    ReadsOpenStream
    CloseReleases
    NothingLeft
    PacketsInOrder
PROPERTIES
    CaptureEndsNoticed
    CommandAnswered
