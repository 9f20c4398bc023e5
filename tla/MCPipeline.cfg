SPECIFICATION FairSpec
CONSTANTS
    NumBatches = 4
    NumSectors = 2
    PagesPerLayer = 3
    NumLayers = 2
    Drives <- TwoDrives
    Null = Null
\* The pipeline ends.
CHECK_DEADLOCK FALSE
INVARIANTS
    LayersAreKept
    EverySectorIsProved
    ContextIsReady
PROPERTIES
    EveryBatchEnds
