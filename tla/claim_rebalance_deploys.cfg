\* A first decision for adapter 0.
SPECIFICATION Spec
CONSTANTS
    BPS = 10
    RateUnit = 10
    AdapterCount = 2
    Rates = {0, 4}
    StrategyParams <- RawRates
    Year = 1
    Day = 1
    MaxNonce = 0
    Holder = {alice, treasury}
    feeRecipient = treasury
    Keys = {agent}
    VaultParams <- PromptVault
    ManagementFees = {0}
    PerformanceFees = {3}
    VirtualShares = 1
    PriceUnit = 4
    SignatureMaxAge = 1
    DefaultMaxLossBps = 5
    ClockSkew = 0
    GasPrices = {0}
    Amounts = {3}
    ShareAmounts = {2}
    Interest = {2}
    MaxLosses = {5}
    SupplyLoss = 0
    CreditAny = FALSE
    PoolsMayFreeze = FALSE
    MaxTime = 1
    MaxAssets = 5
    MaxSupply = 20
    MaxSigned = 1
PROPERTIES
    RebalanceDeploys
