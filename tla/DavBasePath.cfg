SPECIFICATION DavSpec
CONSTANTS
    a = a
    b = b
    NoName = NoName
    Foreign = Foreign
    Outside = Outside
    Segments <- MCSegments
    Names <- TreeNames
    Durations <- Forever
    Conns = {c1, c2}
    Bases <- TwoBases
    IfHeaders <- OneToken
    Methods = {"PUT", "LOCK"}
    StartTrees <- Full
    MaxRequests = 2
    MaxTime = 0
    MaxGen = 4
    MaxClaims = 2
INVARIANTS
    LocksRespected
SYMMETRY Perms
CHECK_DEADLOCK FALSE
