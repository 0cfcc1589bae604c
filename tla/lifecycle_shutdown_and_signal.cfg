CONSTANTS
    r1 = r1
    r2 = r2
    Requests <- TwoRequests
    Routes <- StopOnly
    ExitOnFinish = FALSE
    IdleEnabled = FALSE
    ConnCap = 1
    MaxSignals = 1
    ParentMayDie = FALSE
SPECIFICATION Spec
PROPERTY AcceptedShutdownStops
CHECK_DEADLOCK FALSE
