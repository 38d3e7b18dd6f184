SPECIFICATION Spec
CONSTANTS
    t1 = t1
    t2 = t2
    NoThread = NoThread
    Threads = {t1, t2}
    NumSlots = 2
    TidSpace = 4
    MaxReqs = 4
INVARIANT
    AlwaysFindsSlot
