\* Crashes, restarts and disk faults; two rows of one table, one of another.
SPECIFICATION Spec
CONSTANTS
    r1 = r1  r2 = r2  r3 = r3  c1 = c1
    Row = {r1, r2, r3}
    TableOf <- MCTableOf3
    Order <- MCOrder
    Keyed <- MCKeyed
    Call = {}
    Ticker = Ticker  Closer = Closer  NoCall = NoCall
    Threshold = 2
    ChanCap = 1
    MaxRetries = 1
    MaxLives = 2
    DiskFaults = TRUE
INVARIANTS
    TypeOK
    ClaimsAreSound
    Conservation
    NoSendOnClosed
    OncePerLife
PROPERTIES
    ImplementsRowStore
    QuietAfterClose
