SPECIFICATION Spec
CONSTANTS
    MaxConvs = 1
    MaxTurns = 1
    MaxHandlers = 2
INVARIANTS
    RecordingKept
CHECK_DEADLOCK FALSE
