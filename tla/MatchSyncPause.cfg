SPECIFICATION Spec
CONSTANTS
    t1 = t1
    Tasks = {t1}
    NoSession = NoSession
    DEFAULT_LIVES = 3
    Points <- MCOnePoint
    Emits <- MCTopics
    MaxEvents = 1
    MaxFaults = 0
PROPERTIES
    PauseOnlyChangesStatus
