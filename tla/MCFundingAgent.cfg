CONSTANTS
    Addresses = {c1}
    NoAddress = NoAddress
    InitController = c1
    InitAgentWallet = c1
    PlatformFeeRatePct = 60
    AffiliateFeeRatePct = 40
    Supply = 1
    CoreReserve = 0
    MaxPrincipal = 1
    PnlValues = {1}
    Cloids = {}
    MaxQueue = 0
    MaxExposure = 0
    Operators = {o1, o2}
    InitOperator = o1
    ActionIds = {"request"}
    Calls = {c2, c3}
    CallKey <- MCOneKey
    Requests <- MCRequests
    MaxSends = 2
SPECIFICATION AgentSpec
INVARIANTS
    MovedAtMostOnce
    ConfirmedMatchesChain
PROPERTY OutflowsStayWithOwner
SYMMETRY MCSymmetry
