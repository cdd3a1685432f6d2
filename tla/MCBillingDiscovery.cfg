SPECIFICATION DiscoveryFairSpec
CONSTANTS
    h1 = h1
    p1 = p1
    NoHash = NoHash
    MaxOrders = 2
    Hashes = {h1}
    Mismatched = {}
    Kinds = {"plain"}
    HasProTerm = FALSE
    Procs = {p1}
    QuoteTtl = 1
    OrderTtl = 1
    FinalityLag = 1
    MaxMissingAttempts = 1
    AiDiscountCap = 1
    MaxClock = 5
    RecoveryHorizon = 3
    Overlap = 1
    Chunk = 2
INVARIANTS DiscoveryTypeOK NoPaymentOverlooked
PROPERTIES OrdersDecidedOnce PaymentsFound
CHECK_DEADLOCK FALSE
