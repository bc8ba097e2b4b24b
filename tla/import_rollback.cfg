\* The comment on Rollback, against what it does.
SPECIFICATION Spec
CONSTANTS
    j1 = j1  r1 = r1  r2 = r2  c1 = c1  c2 = c2
    Job = {j1}
    Row = {r1, r2}
    JobOf <- MCOneFile
    Call = {c1}
    NoJob = NoJob
    MaxLives = 1
INVARIANTS
    RolledBackIsEmpty
