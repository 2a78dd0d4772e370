SPECIFICATION Spec
CONSTANTS
    t1 = t1
    t2 = t2
    Tasks = {t1, t2}
    NoSession = NoSession
    DEFAULT_LIVES = 1
    Points <- MCOnePoint
    Emits <- MCTopics
    MaxEvents = 2
    MaxFaults = 1
SYMMETRY Symmetry
INVARIANTS
    TypeOK
    NothingInvented
    CountedDown
    
    ExactUnlessStale
    
PROPERTIES
    TransitionsFollowTable
