SPECIFICATION Spec
CONSTANTS
    Frequencies <- AllFrequencies
    Origins <- AllOrigins
    CAPACITY = 2
    MaxBroadcasts = 4
    MaxOwed = 2
CHECK_DEADLOCK FALSE
INVARIANTS
    TypeOK
    OncePerPeriod
    TickSendsNewest
PROPERTIES
    SendsOnlyNewer
    UpdatesArrive
    ClosedEnds
    AbortEnds
