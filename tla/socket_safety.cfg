SPECIFICATION Spec
CONSTANTS
    MaxConvs = 2
    MaxTurns = 2
    MaxHandlers = 2
INVARIANTS
    NoOrphanSession
    UsageInOwnLedger
    AllTurnsFiled
    SummaryIsFinal
    RecordersAreClosed
CHECK_DEADLOCK FALSE
