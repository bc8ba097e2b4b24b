SPECIFICATION MCSpec
CONSTANTS
    Nothing = Nothing
    d1 = d1
    d2 = d2
    Query <- MCQuery
    Domain = {d1, d2}
    Clicks = 2
    Moves = 3
    Mishaps = 1
    Call = {c1, c2}
    Sends = 3
    Troubles = 3
    Admin = {a1, a2}
    Visitor = {u1}
    MaxContainers = 1
    MaxEdits = 1
    MaxVersion = 2
INVARIANTS
    TypesOK
    FreshIsCurrent
    NobodyIsLockedOut
    PublishedIsSaved
    ServedIsPublished
PROPERTIES
    CatchesUp
CHECK_DEADLOCK FALSE
