SPECIFICATION Spec
CONSTANTS
    Coordinators = {c1, c2}
    NodesPerPage = 2
    LayerNodes = 4
    Layers = 2
    PageBatch = 2
    BaseCount = 2
    Graphs <- MCFirst
    NodeSlots = 4
    ParentSlots = 5
    SyncPages = 2
    CountMod = 8
    LocalDistance = 2
    ActionBatch = 2
    RetireLimit = 4
    FifoDepth = 2
    QueueSize = 2
    Window = 2
    ReportGrain = 2
    Lag = 2
    BoundedLatency = TRUE
    HashAhead = 100
    NoNode = NoNode
SYMMETRY CoordinatorSymmetry
INVARIANTS
    LabelsAreRight
