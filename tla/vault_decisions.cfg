\* Two signed decisions against both rebalance paths, the clock and the owner.
SPECIFICATION Spec
CONSTANTS
    BPS = 10
    RateUnit = 10
    AdapterCount = 2
    Rates = {0, 4}
    StrategyParams <- RawRates
    Year = 1
    Day = 1
    MaxNonce = 0
    Holder = {treasury}
    feeRecipient = treasury
    Keys = {agent}
    VaultParams <- ChangingVault
    ManagementFees = {0}
    PerformanceFees = {0}
    VirtualShares = 1
    PriceUnit = 4
    SignatureMaxAge = 1
    DefaultMaxLossBps = 5
    ClockSkew = 0
    GasPrices = {0}
    Amounts = {2}
    ShareAmounts = {}
    Interest = {}
    MaxLosses = {5}
    SupplyLoss = 0
    CreditAny = FALSE
    PoolsMayFreeze = FALSE
    MaxTime = 4
    MaxAssets = 2
    MaxSupply = 20
    MaxSigned = 2
    MinCooldown = 2
    MinAgentTimeout = 2
INVARIANTS
    DecisionStillCurrent
    NonceExecutedOnce
PROPERTIES
    RefinesView
