SPECIFICATION Spec
CONSTANTS
    NumCircuits = 2
    InpSize = 1
    AuxSize = 3
    ChunkBits = 2
    Scalars = {0, 1, 2}
INVARIANTS
    SplitMsmIsMsm
    VectorsAreFilled
