SPECIFICATION Spec
CONSTANTS
    k1 = k1
    k2 = k2
    a = a
    b = b
    Caches <- OneCache
    Values <- TwoValues
    InitialValue = a
    Wanted <- Anything
    CAPACITY = 1
    MaxWrites = 2
CHECK_DEADLOCK FALSE
PROPERTIES
    HandleWaitEnds
    ClosedEndsReads
