SPECIFICATION Spec
CONSTANTS
    Frequencies <- OnEventOnly
    Origins <- AllOrigins
    CAPACITY = 2
    MaxBroadcasts = 2
    MaxOwed = 2
CHECK_DEADLOCK FALSE
PROPERTIES
    RunningCallFinishes
