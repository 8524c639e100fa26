SPECIFICATION Spec
CONSTANTS
    r1 = r1
    r2 = r2
    u1 = u1
    c1 = c1
    c2 = c2
    d1 = d1
    d2 = d2
    d3 = d3
    NoToken = NoToken
    NoThread = NoThread
    Registrars <- TwoRegistrars
    Unregistrars <- OneUnregistrar
    Closers <- TwoClosers
    Deliveries <- ThreeDeliveries
    RemoveMayFail = TRUE
CHECK_DEADLOCK FALSE
INVARIANTS
    RefsAccounted
    SourceRefsAccounted
    NoCallbackAfterClose
PROPERTIES
    CloseAnswered
    ImplementsGate
