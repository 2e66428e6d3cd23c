SPECIFICATION DavSpec
CONSTANTS
    a = a
    b = b
    NoName = NoName
    Foreign = Foreign
    Outside = Outside
    Segments <- MCSegments
    Names <- ChainNames
    Durations <- Forever
    Conns = {c1, c2}
    Bases <- RootBase
    IfHeaders <- OneToken
    Methods = {"DELETE", "MKCOL", "PROPPATCH", "COPY", "LOCK", "UNLOCK", "REFRESH"}
    StartTrees <- Grown
    MaxRequests = 2
    MaxTime = 1
    MaxGen = 5
    MaxClaims = 2
PROPERTIES
    RequestsServed
CHECK_DEADLOCK FALSE
