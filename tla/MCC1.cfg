SPECIFICATION FairSpec
CONSTANTS
  Arity = 2
  NumLayers = 2
  Slots = {0}
  ReadFifo = 10
  ReadQueue = 2
  NodesPerPage = 2
  BaseParents = 2
  ExpParents = 2
  LabelParents = 7
  LayerOneRepeat = 3
  LayerNRepeat = 1
  NumChallenges = 2
  NumPartitions = 2
  Hashes <- MCHashes
  ParentsBuf <- MCParents
  Shapes <- MCShapes
\* The program ends
CHECK_DEADLOCK FALSE
INVARIANTS
    ProofsAreRight
    SizesAgree
PROPERTIES
    ImplementsSectorTrees
    LoadReturns
