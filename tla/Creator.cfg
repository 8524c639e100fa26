SPECIFICATION Spec
CONSTANTS
    s1 = s1
    s2 = s2
    c1 = c1
    c2 = c2
    d1 = d1
    d2 = d2
    Maker = Maker
    Undoer = Undoer
    Nobody = Nobody
    Setters <- TwoSetters
    KindOf <- MediaAndThumbnail
    Closers <- TwoClosers
    Presses <- TwoPresses
    ButtonPuts <- OneButton
    ButtonCap = 1
    Configs <- NothingOrAll
CHECK_DEADLOCK FALSE
INVARIANTS
    
    MetadataWhole
    NothingLeft
PROPERTIES
    CallsAnswered
