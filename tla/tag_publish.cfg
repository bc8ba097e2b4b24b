SPECIFICATION TagSpec
CONSTANTS
    Admin = {a1, a2}
    Visitor = {u1}
    MaxContainers = 1
    MaxEdits = 1
    MaxVersion = 2
INVARIANTS
    PublishesNewVersion
CHECK_DEADLOCK FALSE
