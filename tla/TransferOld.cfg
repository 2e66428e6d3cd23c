SPECIFICATION Spec
CONSTANTS
    dir = dir
    m1 = m1
    m2 = m2
    f1 = f1
    f2 = f2
    w1 = w1
    w2 = w2
    Top = Top
    NoGroup = NoGroup
    Tasks <- TwoTasks
    Members <- TwoMembers
    Workers <- TwoWorkers
    MaxRetry = 0
    AllowRetryCanceled = FALSE
    RetryAny = FALSE
    StartDst <- OneFile
    MaxCancels = 0
    MaxRetries = 0
    MaxCrashes = 0
INVARIANTS
    NothingLost
CHECK_DEADLOCK FALSE
