CONSTANTS
    r1 = r1
    r2 = r2
    Requests <- TwoRequests
    Routes <- EveryKind
    ExitOnFinish = TRUE
    IdleEnabled = TRUE
    ConnCap = 1
    MaxSignals = 1
    ParentMayDie = TRUE
SPECIFICATION Spec
INVARIANTS TypeOK CounterExact OneDecisionNeverWedges
PROPERTIES IdleOverlooksNoCountedRequest OneDecisionStops AcceptedStopsUnlessLoopSends FinishedStops IdleStops
CHECK_DEADLOCK FALSE
