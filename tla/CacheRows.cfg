SPECIFICATION Spec
CONSTANTS
    b1 = b1
    b2 = b2
    p1 = p1
    p2 = p2
    Boxes = {b1, b2}
    Msgs = {p1, p2}
    MaxVersion = 2
    Mail <- MCMail
    Canonical <- MCCanonical
    Labels <- MCLabels
    MaxDerived = 2
INVARIANTS
    TypeOK
    NothingOrphaned
    IndexIsTheCache
    RowsAreWhole
    OneContactEach
    FolderIsItsOwn
PROPERTIES
    DerivedSurvives
CHECK_DEADLOCK FALSE
