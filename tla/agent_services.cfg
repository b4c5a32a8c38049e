\* Readers, a private transaction, the server's requests, and the loop's records.
SPECIFICATION Spec
CONSTANTS
    MaxBlock = 5
    Registered <- Programs
    Market <- ChangingMarket
    SupplyCurve <- RisingCurve
    RAY = 100
    SCALE_18 = 10
    CalendarYear = 3
    JulianYear = 4
    Seconds = {0}
    Offset = 2
    WaitOffsets = {1, 3}
    Thread = {t1, t2}
    None = None
    Adapter = {0}
    Observations <- TwoReadings
    ALPHA = 3
    Parts = 10
    MaxRequests = 2
    MaxDay = 2
    MaxDecisions = 2
    MaxKills = 1
    MaxStops = 1
INVARIANTS
    TypeOK
    OneBlock
    RateOfUtilization
    RatesAgree
    SnapshotsLineUp
    DryRunSendsNothing
    LateInclusionBounded
    SharedWithinObserved
    ScrapeConsistent
    TrailInOrder
    TrailSurvives
    OneLineSpoilt
    FileIsOpen
PROPERTIES
    ClientEnds
    ClientAdvances
CHECK_DEADLOCK FALSE
