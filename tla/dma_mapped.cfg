SPECIFICATION FairSpec
CONSTANTS
    TagMapper = TRUE
    Ordered = FALSE
    BeatDw = 2
    SopDw = 0
    RcbDw = 1
    MaxChunks = 2
    NumTags = 2
    MaxReads = 3
    MaxWrites = 0
    MaxMmio = 1
    MaxMsgs = 0
    MaxResets = 0
    ReadLens <- Len3
    WriteLens <- Len2
    MmioLens <- Mmio02
    DmModes <- Pu
INVARIANTS FreeListSound ReadAlwaysAccepted CplStateLive ReadDataCorrect
PROPERTY ReadCompletes
