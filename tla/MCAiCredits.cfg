CONSTANTS
    Runs = {1, 2}
    Kind <- MCKind
    Credits = 2
    MicrousdPerCredit = 2
    Costs = {1, 3}
    MaxCalls = 2
    InitBalance = 3
    MaxBalance = 4
    DailyLimit = 4
    Adjustments <- MCDebit
SPECIFICATION FairCreditsSpec
INVARIANTS
    CreditsTypeOK
    ReservedMatchesReservations
    ChargesMatchUsage
    ReservationsCovered
PROPERTY
    EveryReservationResolved
CHECK_DEADLOCK FALSE
