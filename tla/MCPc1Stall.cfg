SPECIFICATION FairSpec
CONSTANTS
    Coordinators = {c1}
    NodesPerPage = 1
    LayerNodes = 6
    Layers = 1
    PageBatch = 2
    BaseCount = 2
    Graphs <- MCFirst
    NodeSlots = 6
    ParentSlots = 3
    SyncPages = 1
    CountMod = 8
    LocalDistance = 2
    ActionBatch = 2
    RetireLimit = 6
    FifoDepth = 2
    QueueSize = 2
    Window = 2
    ReportGrain = 2
    Lag = 2
    BoundedLatency = TRUE
    HashAhead = 100
    NoNode = NoNode
PROPERTY Completion
