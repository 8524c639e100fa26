SPECIFICATION StackSpec
CONSTANTS
    i1 = i1
    i2 = i2
    NoStatus = NoStatus
    OpenInvokes <- OneInvoke
    ReadInvokes <- TwoInvokes
    MaxThumbnailBytes <- OneByte
CHECK_DEADLOCK FALSE
INVARIANTS
    RefsAccounted
    OutcomeIsTrue
    NothingLeaked
    HeldWhileUsed
PROPERTIES
    ReadEnds
