SPECIFICATION Spec
CONSTANTS
    MaxTurns = 3
    MaxAudio = 4
    MinTail = 2
    AbortedLlmReports = FALSE
    OneShotTts = TRUE
INVARIANTS
    AudioConserved
    BilledOnce
    EventsPaired
    OneVoice
    VendorCountsBilled
    ClosedIsSettled
    HistoryCoherent
PROPERTIES
    ImplementsBilling
CHECK_DEADLOCK FALSE
