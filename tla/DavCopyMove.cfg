SPECIFICATION Spec
CONSTANTS
    f = f
    g = g
    Solo = Solo
    Files <- TwoFiles
    Twin = f
INVARIANTS
    TypeOK
    OldSurvives
    FailureUndone
    SuccessTruthful
CHECK_DEADLOCK FALSE
