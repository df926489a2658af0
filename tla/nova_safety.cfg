SPECIFICATION Spec
CONSTANTS
    MaxTurns = 3
    MaxCompletions = 2
    MaxUsage = 1
INVARIANTS
    CompletionsKeptApart
    RanIsBilled
CHECK_DEADLOCK FALSE
