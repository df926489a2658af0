SPECIFICATION Spec
CONSTANTS
    MaxTurns = 2
    MaxResponses = 2
    MaxDeltas = 2
INVARIANTS
    TruncateWithinItem
CHECK_DEADLOCK FALSE
