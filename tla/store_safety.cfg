SPECIFICATION FairSpec
CONSTANTS
    MaxRecords = 2
    MaxSaves = 2
    Cap = 1
    MaxLists = 1
    MaxFaults = 1
INVARIANTS
    ResolvedSavesLast
    CapHolds
    IndexIsFresh
PROPERTIES
    SavesSettle
CHECK_DEADLOCK FALSE
