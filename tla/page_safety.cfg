SPECIFICATION Spec
CONSTANTS
    MaxConns = 3
    MaxRecs = 1
INVARIANTS
    SpokenIsRecorded
    SocketIsHeld
CHECK_DEADLOCK FALSE
