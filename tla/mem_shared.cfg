SPECIFICATION Spec
CONSTANTS
    Handles = {"h1", "h2"}
    Afus = {"a1"}
    AfuOf <- OneAfu
    Bufs = {1, 2, 3}
    IdxBits <- Bit
    PoolFrames <- F0
    UserFrames <- None
    VaFrames <- F0
    Levels <- Small
    Kinds = {"prepare"}
    Backing = {"small"}
    Ats = TRUE
    AtsIdx <- AllIdx
    BadLength = FALSE
    NoMemory = FALSE
    CloseBusy = FALSE
    MaxOpens = 0
INVARIANTS OwnerReached OwnedReachable
CHECK_DEADLOCK FALSE
