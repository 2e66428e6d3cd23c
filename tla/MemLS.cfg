SPECIFICATION Spec
CONSTANTS
    a = a
    b = b
    NoName = NoName
    Segments <- MCSegments
    Names <- TreeNames
    Durations <- MCDurations
    MaxTime = 1
    MaxGen = 2
    MaxClaims = 2
INVARIANTS
    TypeOK
    IndexesExact
    NoConflictingLocks
    CanCreateExact
    ConfirmExclusive
    HeldExact
PROPERTIES
    HeldNodesStay
    GoneOnlyWhenDue
    ImplementsLockTable
