\* Import rollback while a compaction is due.
SPECIFICATION MCSpec
CONSTANTS
    q1 = q1  q2 = q2  b1 = b1  p1 = p1  r1 = r1  r2 = r2
    Sides = {"lock"}
    Reader = {q1}
    Rollback = {b1}
    Unguarded = {}
    Writer = Writer
    File = File
    ChanCap = 2
    EventTables <- MCTables
    Row = {r1, r2}
    TableOf <- MCTableOf
PROPERTIES
    RollbackReturns
CHECK_DEADLOCK FALSE
