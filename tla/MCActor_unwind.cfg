SPECIFICATION Spec
CONSTANTS
    c1 = c1
    c2 = c2
    v1 = v1
    v2 = v2
    w1 = w1
    w2 = w2
    Unit = Unit
    Callers <- TwoCallers
    Values <- TwoValues
    Views <- TwoViews
    View <- TwoWayView
    InitialValue = v1
    Ops <- OneOp
    PanickingKinds = {"method"}
    CHANNEL_SIZE = 1
    MaxCalls = 1
    RuntimeMayStop = TRUE
    StopMayUnwind = TRUE
INVARIANTS
    PanicReportIsTrue
