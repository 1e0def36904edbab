SPECIFICATION Spec
CONSTANTS
    a1 = a1
    a2 = a2
    a3 = a3
    c1 = c1
    c2 = c2
    Actors <- ThreeActors
    Clients <- TwoClients
    Nobody = Nobody
    Graphs <- AllGraphs
    CHANNEL_SIZE = 1
    MaxCalls = 2
    MaxCallsOut = 2
    Programs <- AllPrograms
    Elements <- Held
    Start <- FirstValues
    ProgramCalls <- AllCalls
    Default = 2
    Width <- Bytes
    Upper <- Uppers
    Lower <- Lowers
    Blank = {" "}
CHECK_DEADLOCK FALSE
INVARIANTS
    WaitsAreServed
    SomebodyCanMove
    PanicComesFromBelow
    ExpansionIsComplete
    MarkersDecide
    MirrorIsCurrent
    LedgerBalances
PROPERTIES
    CheckedCallIsSafe
    AcyclicCallsEnd
