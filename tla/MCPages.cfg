\* Walks in both directions over every table of four rows; drawers opened
\* twice on two tasks.
CONSTANTS
    Id <- Ids
    MaxTime = 3
    Milli = 2
    Limit = 2
    MaxWrites = 2
    Task = {t1, t2}
    NoTask = NoTask
    FinalStatus = 3
    PageSize = 2
    MaxMoves = 3
    MaxOpens = 2
    MaxCalls = 3
    Settings <- CalmSettings
SPECIFICATION MCSpec
INVARIANTS
    ServedInOrder
    NoneSkipped
    OrderlyTimelineWhole
    CalmTimelineFollows
CHECK_DEADLOCK FALSE
