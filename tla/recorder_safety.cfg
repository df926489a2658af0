SPECIFICATION FairSpec
CONSTANTS
    Minutes = 5
    HeaderLimit = 4
    Block = 2
    ChunkBytes = {3, 4}
    MaxChunks = 3
    MaxNow = 3
INVARIANTS
    CapHolds
    WavFaithful
    LatenessBounded
    AllReleased
PROPERTIES
    StopSettles
CHECK_DEADLOCK FALSE
