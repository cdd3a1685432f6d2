SPECIFICATION BillingFairSpec
CONSTANTS
    h1 = h1
    h2 = h2
    p1 = p1
    p2 = p2
    NoHash = NoHash
    MaxOrders = 1
    Hashes = {h1, h2}
    Mismatched = {h2}
    Kinds = {"plain", "ai", "upgrade"}
    HasProTerm = TRUE
    Procs = {p1}
    QuoteTtl = 1
    OrderTtl = 2
    FinalityLag = 1
    MaxMissingAttempts = 2
    AiDiscountCap = 1
    MaxClock = 5
PROPERTY AllPaymentsDecided
CHECK_DEADLOCK FALSE
