SPECIFICATION Spec
CONSTANTS
    NumCh = 2
    NumTags = 2
    NumIrqs = 2
    BeatDw = 1
    RcbDw = 1
    MaxChunks = 2
    ReadReqs <- Shapes
    WriteLens <- Len2
    MmioReqs <- Mmio
    MaxMmioRd = 2
    MaxOps = 3
INVARIANTS WellFramed ReadDataCorrect IrqListSound MmioAnsweredOnce LegalAfuAccepted
PROPERTY ImplementsDmaReads
