SPECIFICATION Spec
CONSTANTS
    r1 = r1
    r2 = r2
    f1 = f1
    f2 = f2
    Players = {1, 2}
    Requests = {r1, r2}
    Flushes = {f1, f2}
    Points <- MCPoints
    Starts <- MCStarts
    Runs <- MCRuns
    MaxGames = 2
    MaxEvents = 4
    MaxRooms = 1
INVARIANTS
    GamesTypeOK
    ScoreIsEventSum
    FewLateEvents
    ListMissesNone
    HistoryFlagsBest
    
    RecordIsAnnounced
    LeaderboardIsTop
SYMMETRY Symmetry
CHECK_DEADLOCK FALSE
