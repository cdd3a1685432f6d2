CONSTANTS
    Addresses = {c1}
    NoAddress = NoAddress
    InitController = c1
    InitAgentWallet = NoAddress
    PlatformFeeRatePct = 30
    AffiliateFeeRatePct = 20
    Supply = 2
    CoreReserve = 2
    MaxPrincipal = 2
    PnlValues <- MCPnlValues
    Cloids = {1}
    MaxQueue = 1
    MaxExposure = 1
SPECIFICATION Spec
INVARIANTS
    TypeOK
    PrincipalReachesBeneficiary
    FeesWithinHighWaterMark
    PayoutsBalance
PROPERTY
    RiskOnlyFromActive
