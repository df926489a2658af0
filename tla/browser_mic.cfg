SPECIFICATION Spec
CONSTANTS
    MaxConns = 1
    MaxRecs = 2
INVARIANTS
    MicIsStoppable
CHECK_DEADLOCK FALSE
