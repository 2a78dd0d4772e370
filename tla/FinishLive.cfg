SPECIFICATION FairFlushSpec
CONSTANTS
    t1 = t1
    t2 = t2
    Tasks = {t1, t2}
    NoSession = NoSession
    DEFAULT_LIVES = 3
    Points <- MCPoints
    Emits <- MCGameOver
    MaxEvents = 1
    MaxFaults = 0
    Requests = {}
    Consumer = Consumer
    FinalScores = {}
    MaxFlushes = 0
PROPERTIES
    
    NaturalEndIsSaved
CHECK_DEADLOCK FALSE
