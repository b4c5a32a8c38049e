\* The hourly loop and the handler with one key, on a vault others act on too.
SPECIFICATION Spec
CONSTANTS
    Adapters = {0, 1}
    MinCooldown = 3
    MinAgentTimeout = 3
    SignatureMaxAge = 1
    Points = 10
    WeightApy = 40
    WeightRisk = 25
    WeightCost = 20
    WeightStability = 15
    MaxApy = 4
    MaxGas = 1
    MaxUtilization = 2
    MaxOutflow = 3
    ScoreThreshold = 2
    Process = {loop, handler}
    Loop = {loop}
    RetryLimit = 2
    ReceiptTimeout = 1
    ClockSkew = 0
    QuotesOf <- EitherAhead
    Gas = {0}
    MaxTime = 6
    MaxNonce = 3
    MaxCycles = 1
INVARIANTS
    TypeOK
    CycleMovesOnce
    ActedOnWhatItSaw
PROPERTIES
    CycleAdvances
    KeepsToView
CHECK_DEADLOCK FALSE
