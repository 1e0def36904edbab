SPECIFICATION Spec
CONSTANTS
    a1 = a1
    a2 = a2
    r1 = r1
    r2 = r2
    Actors <- TwoActors
    Readers <- TwoReaders
    Totalling <- OneReader
    MaxMade = 2
CHECK_DEADLOCK FALSE
INVARIANTS
    TypeOK
    EveryBroadcastIsKept
    NothingCountedTwice
PROPERTIES
    QuietReadIsComplete
    ReadEnds
    CountsReachTotals
