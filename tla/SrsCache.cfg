SPECIFICATION FairSpec
CONSTANTS
    Clients = {c1, c2}
    Paths = {p1, p2}
    Objects = {o1, o2, o3}
    Spare = 0
    Arrays = 1
    Null = Null
INVARIANTS
    RefsCountHolders
    OneOwner
    PointsAreLoaded
    CacheIsRight
PROPERTIES
    CacheIsReleased
