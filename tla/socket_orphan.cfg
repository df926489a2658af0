SPECIFICATION Spec
CONSTANTS
    MaxConvs = 2
    MaxTurns = 1
    MaxHandlers = 2
INVARIANTS
    ClosedSocketHoldsNothing
CHECK_DEADLOCK FALSE
