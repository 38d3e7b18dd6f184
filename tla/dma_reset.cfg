SPECIFICATION Spec
CONSTANTS
    TagMapper = FALSE
    Ordered = FALSE
    BeatDw = 2
    SopDw = 1
    RcbDw = 1
    MaxChunks = 2
    NumTags = 2
    MaxReads = 2
    MaxWrites = 1
    MaxMmio = 1
    MaxMsgs = 1
    MaxResets = 1
    ReadLens <- Len2
    WriteLens <- Len2
    MmioLens <- Mmio2
    DmModes <- Pu
INVARIANTS EveryWordOnce WellFramed PendingMatchesPipes
PROPERTY ImplementsDmaReads
