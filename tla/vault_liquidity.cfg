\* Positions in both pools, pools that cannot pay, and moving rates.
SPECIFICATION Spec
CONSTANTS
    BPS = 10
    RateUnit = 10
    AdapterCount = 2
    Rates = {0, 2, 3}
    StrategyParams <- SmoothedRates
    Year = 1
    Day = 1
    MaxNonce = 0
    Holder = {treasury}
    feeRecipient = treasury
    Keys = {agent}
    VaultParams <- PromptVault
    ManagementFees = {0}
    PerformanceFees = {3}
    VirtualShares = 1
    PriceUnit = 4
    SignatureMaxAge = 1
    DefaultMaxLossBps = 5
    ClockSkew = 0
    GasPrices = {0}
    Amounts = {2}
    ShareAmounts = {}
    Interest = {2}
    MaxLosses = {5}
    SupplyLoss = 0
    CreditAny = TRUE
    PoolsMayFreeze = TRUE
    MaxTime = 0
    MaxAssets = 4
    MaxSupply = 20
    MaxSigned = 1
INVARIANTS
    WithdrawalServed
PROPERTIES
    SmoothingWithinGuard
