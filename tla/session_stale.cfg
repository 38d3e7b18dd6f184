SPECIFICATION Spec
CONSTANTS
    Procs = {"p1", "p2"}
    Modes = {"regression"}
    NumTests = 3
    MaxOpens = 2
    MaxFaults = 1
    SignalAt = {"up"}
    Kills = FALSE
INVARIANT DeallocatesOwn
CHECK_DEADLOCK FALSE
