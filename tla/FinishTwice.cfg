SPECIFICATION FlushSpec
CONSTANTS
    t1 = t1
    r1 = r1
    Tasks = {t1}
    NoSession = NoSession
    DEFAULT_LIVES = 3
    Points <- MCPoints
    Emits <- MCTopics
    MaxEvents = 1
    MaxFaults = 0
    Requests = {r1}
    Consumer = Consumer
    FinalScores <- MCFinalScores
    MaxFlushes = 1
INVARIANTS
    SavedOnce
CHECK_DEADLOCK FALSE
