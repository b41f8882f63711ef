SPECIFICATION FairSpec
CONSTANTS
    Threads = {t1}
    TailLines = 2
    InitialLines = 1
    Frame = 2
    Levels = {0, 2, 3}
    MaxCalls = 3
    MaxFails = 1
INVARIANTS ScreenIntact LogsExact
PROPERTIES LinesSynced FollowerCatchesUp
CHECK_DEADLOCK FALSE
