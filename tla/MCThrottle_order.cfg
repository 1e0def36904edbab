SPECIFICATION Spec
CONSTANTS
    Frequencies <- OnEventOnly
    Origins <- HandleOnly
    CAPACITY = 2
    MaxBroadcasts = 3
    MaxOwed = 2
CHECK_DEADLOCK FALSE
PROPERTIES
    SendsInOrder
