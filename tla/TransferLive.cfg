SPECIFICATION LiveSpec
CONSTANTS
    dir = dir
    m1 = m1
    m2 = m2
    f1 = f1
    f2 = f2
    w1 = w1
    w2 = w2
    Top = Top
    NoGroup = NoGroup
    Tasks <- DirTasks
    Members <- DirMembers
    Workers <- TwoWorkers
    MaxRetry = 0
    AllowRetryCanceled = FALSE
    RetryAny = FALSE
    StartDst <- Nothing
    MaxCancels = 0
    MaxRetries = 1
    MaxCrashes = 0
INVARIANTS
    GroupsAgree
PROPERTIES
    MoveFinishes
    TasksEnd
CHECK_DEADLOCK FALSE
