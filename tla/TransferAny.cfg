SPECIFICATION OneStartSpec
CONSTANTS
    dir = dir
    m1 = m1
    m2 = m2
    f1 = f1
    f2 = f2
    w1 = w1
    w2 = w2
    Top = Top
    NoGroup = NoGroup
    Tasks <- DirTasks
    Members <- DirMembers
    Workers <- TwoWorkers
    MaxRetry = 1
    AllowRetryCanceled = TRUE
    RetryAny = TRUE
    StartDst <- Nothing
    MaxCancels = 1
    MaxRetries = 1
    MaxCrashes = 0
INVARIANTS
    SourcesSafe
SYMMETRY Symmetry
CHECK_DEADLOCK FALSE
