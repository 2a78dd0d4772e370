SPECIFICATION Spec
CONSTANTS
    c1 = c1
    c2 = c2
    s1 = s1
    s2 = s2
    Clients = {c1, c2}
    Consumer = Consumer
    Actions <- MCActions
    Sessions = {s1, s2}
    Legacy = Legacy
    NoSession = NoSession
    NoBorne = NoBorne
INVARIANTS
    BorneTypeOK
    
    
    LegacyLeftAlone
PROPERTIES
    IsAttachment
SYMMETRY Symmetry
CHECK_DEADLOCK FALSE
