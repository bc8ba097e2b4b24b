\* The comment on writerLoop, against what it does; maxRetries as in the code.
SPECIFICATION Spec
CONSTANTS
    r1 = r1  r2 = r2  r3 = r3  c1 = c1
    Row = {r1, r2, r3}
    TableOf <- MCTableOf3
    Order <- MCOrder
    Keyed <- MCKeyed
    Call = {}
    Ticker = Ticker  Closer = Closer  NoCall = NoCall
    Threshold = 2
    ChanCap = 1
    MaxRetries = 3
    MaxLives = 1
    DiskFaults = FALSE
PROPERTIES
    RetriedBeforeQuarantine
