SPECIFICATION FairSpec
CONSTANTS
    MaxTurns = 3
    MaxResponses = 2
    MaxDeltas = 1
INVARIANTS
    EventsPaired
    OwedIsAwaited
    RanIsBilled
PROPERTIES
    ClosedIsSilent
    StartSettles
CHECK_DEADLOCK FALSE
