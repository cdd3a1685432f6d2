CONSTANTS
    Rounds = {1, 2}
    Buyers = {b1, b2}
    NoBuyer = NoBuyer
    Treasuries = {t1}
    NoTreasury = NoTreasury
    InitTreasury = t1
    Budget = 3
    MaxPurchases = 2
    MaxTime = 6
    InitialUnlockBps = 5000
    CliffSeconds = 0
    LinearVestingDurationSeconds = 2
    OneUliq = 6
    AllocationCap <- MCAllocationCap
    Price <- MCPrice
    MinPurchase = 1
    MaxPurchase = 2
    WithdrawalPeriod = 1
    Windows <- MCWindows
    Requests = {1, 3}
    SourceUliq = 5
SYMMETRY MCSymmetry
SPECIFICATION PresaleSpec
INVARIANTS
    PresaleTypeOK
    BooksMatchPurchases
    BuyersMadeWhole
    InventoryCoversSales
    SalesWithinLimits
    OneSaleAtATime
    ListingSealsPurchases
    VestingSolvent
CHECK_DEADLOCK FALSE
