SPECIFICATION FairSpec
CONSTANTS
    Hashers = {h1, h2}
    BatchSize = 2
    BatchCount = 4
    UpdateInterval = 2
    NodeStop = 14
    NodesPerPage = 2
    ParentCapacity = 8
    Coord = Coord
    Free = Free
    NoNode = NoNode
\* A stuck state is a counterexample of Termination.
CHECK_DEADLOCK FALSE
INVARIANTS
    BatchIntact
    ReportedAreHashed
    CopiedParentsAreHashed
PROPERTIES
    Termination
    ImplementsWorker
    ReportsProgress
