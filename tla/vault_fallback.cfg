\* No agent: the fallback alone, with credits to either pool, pools that freeze and a
\* nonce consumed by someone else.
SPECIFICATION FairSpec
CONSTANTS
    BPS = 10
    RateUnit = 10
    AdapterCount = 2
    Rates = {1, 4}
    StrategyParams <- RawRates
    Year = 1
    Day = 1
    MaxNonce = 1
    Holder = {treasury}
    feeRecipient = treasury
    Keys = {agent}
    VaultParams <- FallbackVault
    ManagementFees = {0}
    PerformanceFees = {0}
    VirtualShares = 1
    PriceUnit = 4
    SignatureMaxAge = 1
    DefaultMaxLossBps = 5
    ClockSkew = 0
    GasPrices = {4}
    Amounts = {2}
    ShareAmounts = {}
    Interest = {1}
    MaxLosses = {5}
    SupplyLoss = 0
    CreditAny = TRUE
    PoolsMayFreeze = TRUE
    MaxTime = 6
    MaxAssets = 3
    MaxSupply = 20
    MaxSigned = 0
PROPERTIES
    
    FallbackClimbs
