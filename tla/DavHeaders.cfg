SPECIFICATION HeadersSpec
CONSTANTS
    a = a
    b = b
    NoName = NoName
    Foreign = Foreign
    Outside = Outside
    Segments <- MCSegments
    Names <- PairNames
    Durations <- MCDurations
    Conns = {c1, c2}
    Bases <- RootBase
    IfHeaders <- TwoLists
    Methods = {"PUT", "COPY", "MOVE", "LOCK", "UNLOCK", "REFRESH"}
    StartTrees <- Full
    MaxRequests = 3
    MaxTime = 1
    MaxGen = 6
    MaxClaims = 2
INVARIANTS
    WritersExclusive
    NothingLeaks
    LocksRespected
PROPERTIES
    ClientLocksStay
SYMMETRY Perms
CHECK_DEADLOCK FALSE
