SPECIFICATION Spec
CONSTANTS
    q1 = q1
    q2 = q2
    m1 = m1
    m2 = m2
    a1 = a1
    a2 = a2
    c1 = c1
    Queries = {}
    Listing <- MCListing
    Sizes = {0, 4}
    MaxInFlight = 2
INVARIANTS
    AttachmentIsOneRow
CHECK_DEADLOCK FALSE
