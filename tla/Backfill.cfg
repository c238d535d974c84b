SPECIFICATION Spec
CONSTANTS
    Msgs = {1, 2, 3, 4, 5, 6, 7}
    Time <- MCTime
    Since = 2
    PageSize = 2
    Initial <- MCInitial
    MaxAttempts = 2
INVARIANTS
    TypeOK
    EachDeletionHidesAtMostOne
    NamedOnceInOrder
CHECK_DEADLOCK FALSE
