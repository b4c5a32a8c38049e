\* Two readers of a block, one request of which may outlast the deadline.
SPECIFICATION ReaderSpec
CONSTANTS
    MaxBlock = 3
    Registered <- NewerOnly
    Market <- ChangingMarket
    SupplyCurve <- RisingCurve
    RAY = 100
    SCALE_18 = 10
    CalendarYear = 3
    JulianYear = 4
    Seconds = {0, 5}
    Deadline = 4
INVARIANTS
    BlockNotStalled
