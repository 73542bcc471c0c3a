SPECIFICATION Spec
CONSTANTS
    Ids = {3, 30}
    Prefixes <- NestedIds
    MaxNodeNum = 2
    Rounds = 2
    Readings = {1, 2}
    UintSize = 2
    MaxDoms = 2
INVARIANT OwnGroup
