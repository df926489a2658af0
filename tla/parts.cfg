SPECIFICATION FairSpec
CONSTANTS
    MaxChunks = 3
    MaxPending = 2
    MaxSegments = 2
    MaxTurns = 3
    MaxErrors = 1
    MaxTexts = 3
    MaxAudio = 2
    MaxDeltas = 2
    MaxUsage = 2
    MaxInput = 2
    MaxConns = 2
    MaxRecs = 2
    MaxCalls = 1
    MaxLoads = 2
    MaxOpens = 2
    MaxFails = 1
    Records = {r1, r2}
    Newest = {r1}
    TypedIds = {"mine"}
INVARIANTS
    TypeOK
    StreamsInOrder
    EndsOnce
    BilledAsSent
    TtfaIsOwn
    PageIsCurrent
    RigIsValid
PROPERTIES
    QuietAfterCancel
    AllSettle
CHECK_DEADLOCK FALSE
