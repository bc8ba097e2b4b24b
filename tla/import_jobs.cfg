\* An import, two requests to roll it back, shutdown and crashes.
SPECIFICATION LiveSpec
CONSTANTS
    j1 = j1  r1 = r1  r2 = r2  c1 = c1  c2 = c2
    Job = {j1}
    Row = {r1}
    JobOf <- MCOneFile
    Call = {c1, c2}
    NoJob = NoJob
    MaxLives = 2
INVARIANTS
    TypeOK
    ImportsAccepted
    ShutdownOwnsJobs
    RollbackSticks
PROPERTIES
    FinalStatusStands
    ShutdownEnds
    RollbackEnds
