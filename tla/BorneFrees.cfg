SPECIFICATION Spec
CONSTANTS
    c1 = c1
    s1 = s1
    Clients = {c1}
    Consumer = Consumer
    Actions <- MCActions
    Sessions = {s1}
    Legacy = Legacy
    NoSession = NoSession
    NoBorne = NoBorne
PROPERTIES
    FreesFinished
CHECK_DEADLOCK FALSE
