SPECIFICATION FairSpec
CONSTANTS
    t1 = t1
    t2 = t2
    NoThread = NoThread
    Threads = {t1, t2}
    NumSlots = 2
    TidSpace = 3
    MaxReqs = 5
CONSTRAINT
    IdsRecent
INVARIANTS
    ReadReturnsOwnData
    NeverLosesTrack
    NoCreditLeak
    SlotOwnedOnce
PROPERTIES
    DeliveredInOrder
    ReadReturns
    LockReleased
