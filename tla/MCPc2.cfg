SPECIFICATION FairSpec
CONSTANTS
  Arity = 2
  BatchSize = 4
  LeafItems = 2
  DiscardRows = 1
  NodesPerPage = 2
  NumLayers = 3
  Slots = {0, 1}
  ReadFifo = 4
  ReadQueue = 2
  Writers = {w1}
  Null = Null
  Configs <- MCConfigs
\* The call ends
CHECK_DEADLOCK FALSE
INVARIANTS
    TypeOK
    BundlesSuffice
    BuffersHaveOneOwner
    PAuxIsRight
PROPERTIES
    ImplementsSectorTrees
    Completes
