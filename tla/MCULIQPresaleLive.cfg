CONSTANTS
    Rounds = {1, 2}
    Buyers = {b1}
    NoBuyer = NoBuyer
    Treasuries = {t1, t2}
    NoTreasury = NoTreasury
    InitTreasury = t1
    Budget = 3
    MaxPurchases = 1
    MaxTime = 4
    InitialUnlockBps = 5000
    CliffSeconds = 0
    LinearVestingDurationSeconds = 2
    OneUliq = 6
    AllocationCap <- MCAllocationCap
    Price <- MCPrice
    MinPurchase = 1
    MaxPurchase = 2
    WithdrawalPeriod = 1
    Windows <- MCWindow
    Requests = {3}
    SourceUliq = 5
SPECIFICATION FairPresaleSpec
INVARIANT
    BuyersMadeWhole
PROPERTY
    EveryPurchaseSettles
CHECK_DEADLOCK FALSE
