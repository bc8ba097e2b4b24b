\* Requests, an import rollback, the writer and the compactor, which may stop for
\* good (lock_deadlock), so that a deadlock is no error here; and starts with
\* either storage, cut off anywhere, with what is written in between.
SPECIFICATION MCSpec
CONSTANTS
    q1 = q1  q2 = q2  b1 = b1  p1 = p1  r1 = r1  r2 = r2
    Sides = {"lock", "storage"}
    Reader = {q1, q2}
    Rollback = {b1}
    Unguarded = {p1}
    Writer = Writer
    File = File
    ChanCap = 2
    EventTables <- MCTables
    Row = {r1, r2}
    TableOf <- MCTableOf
INVARIANTS
    TypesOK
    HoldersStayOut
    LakeIsHome
PROPERTIES
    EveryoneIsServed
    NothingLost
CHECK_DEADLOCK FALSE
