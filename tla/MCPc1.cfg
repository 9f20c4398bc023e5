SPECIFICATION Spec
CONSTANTS
    Coordinators = {c1}
    NodesPerPage = 1
    LayerNodes = 4
    Layers = 2
    PageBatch = 3
    BaseCount = 2
    Graphs <- MCGraphs
    NodeSlots = 6
    ParentSlots = 3
    SyncPages = 2
    CountMod = 8
    LocalDistance = 2
    ActionBatch = 2
    RetireLimit = 6
    FifoDepth = 2
    QueueSize = 3
    Window = 2
    ReportGrain = 2
    Lag = 2
    BoundedLatency = TRUE
    HashAhead = 100
    NoNode = NoNode
INVARIANTS
    LabelsAreParents
    WrittenLabelsAreOnDisk
    RequestsAreDistinct
    ReferencesBalance
    CursorsAreSane
