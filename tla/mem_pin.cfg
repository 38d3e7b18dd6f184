SPECIFICATION Spec
CONSTANTS
    Handles = {"h1", "h2"}
    Afus = {"a1", "a2"}
    AfuOf <- TwoAfus
    Bufs = {1, 2}
    IdxBits <- Bit
    PoolFrames <- F0
    UserFrames <- None
    VaFrames <- F01
    Levels <- Both
    Kinds = {"prepare"}
    Backing = {"small"}
    Ats = FALSE
    AtsIdx <- NoIdx
    BadLength = FALSE
    NoMemory = FALSE
    CloseBusy = FALSE
    MaxOpens = 1
INVARIANTS DmaMemoryMapped
PROPERTY AllocatedIovaPins
