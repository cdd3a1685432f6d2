SPECIFICATION BillingSpec
CONSTANTS
    h1 = h1
    h2 = h2
    p1 = p1
    p2 = p2
    NoHash = NoHash
    MaxOrders = 2
    Hashes = {h1, h2}
    Mismatched = {}
    Kinds = {"plain", "ai"}
    HasProTerm = FALSE
    Procs = {p1, p2}
    QuoteTtl = 1
    OrderTtl = 1
    FinalityLag = 1
    MaxMissingAttempts = 1
    AiDiscountCap = 1
    MaxClock = 4
SYMMETRY MCSymmetry
INVARIANTS BillingTypeOK PaymentsBackOrders
PROPERTY OrdersDecidedOnce
CHECK_DEADLOCK FALSE
