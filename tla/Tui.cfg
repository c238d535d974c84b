SPECIFICATION FairSpec
CONSTANTS
    q1 = q1
    q2 = q2
    m1 = m1
    m2 = m2
    a1 = a1
    a2 = a2
    c1 = c1
    Queries = {q1, q2}
    Listing <- MCListing
    Sizes = {0, 4}
    MaxInFlight = 2
INVARIANTS
    TypeOK
    SelectionInRange
    CursorOnScreen
    PagerIsOneMessage
    HitsAreOfTheirQuery
    HelpNeverOverPrompt
PROPERTIES
    ReaderIsNotDisturbed
    EverythingLoads
CHECK_DEADLOCK FALSE
