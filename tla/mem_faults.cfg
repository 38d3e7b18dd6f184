SPECIFICATION Spec
CONSTANTS
    Handles = {"h1"}
    Afus = {"a1"}
    AfuOf <- OneHandle
    Bufs = {1, 2}
    IdxBits <- Bit
    PoolFrames <- F0
    UserFrames <- F9
    VaFrames <- F0
    Levels <- Both
    Kinds = {"prepare", "user", "pin"}
    Backing = {"small", "huge"}
    Ats = TRUE
    AtsIdx <- AllIdx
    BadLength = TRUE
    NoMemory = TRUE
    CloseBusy = TRUE
    MaxOpens = 1
INVARIANTS RefcountExact PaPinnedOnce
CHECK_DEADLOCK FALSE
