\* The comment on FlushAndWait, against what it does.
SPECIFICATION Spec
CONSTANTS
    r1 = r1  r2 = r2  r3 = r3  c1 = c1
    Row = {r1, r2, r3}
    TableOf <- MCTableOf3
    Order <- MCOrder
    Keyed <- MCKeyed
    Call = {c1}
    Ticker = Ticker  Closer = Closer  NoCall = NoCall
    Threshold = 2
    ChanCap = 1
    MaxRetries = 1
    MaxLives = 1
    DiskFaults = FALSE
INVARIANTS
    ReadYourWrites
