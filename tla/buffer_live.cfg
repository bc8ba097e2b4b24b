\* Every row settles, every Close and FlushAndWait returns; and what they leave behind,
\* with or without an expired deadline.
SPECIFICATION LiveSpec
CONSTANTS
    r1 = r1  r2 = r2  r3 = r3  c1 = c1
    Row = {r1, r2}
    TableOf <- MCTableOf2
    Order <- MCOrder
    Keyed = {}
    Call = {c1}
    Ticker = Ticker  Closer = Closer  NoCall = NoCall
    Threshold = 2
    ChanCap = 1
    MaxRetries = 1
    MaxLives = 1
    DiskFaults = FALSE
INVARIANTS
    BarrierCovers
    CleanClose
    DeadlineKeepsRows
PROPERTIES
    CloseReturns
    CallReturns
    RowsSettle
