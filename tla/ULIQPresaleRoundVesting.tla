----------------------- MODULE ULIQPresaleRoundVesting -----------------------
(***************************************************************************)
(* One vesting pool per presale round.  Allocations of finalized purchases *)
(* unlock from the shared listing timestamp on: a part at once, the rest   *)
(* linearly after a cliff.                                                 *)
(***************************************************************************)
EXTENDS ULIQGlobalListing

CONSTANTS
    InitialUnlockBps,
    CliffSeconds,
    LinearVestingDurationSeconds

BPS_DENOMINATOR == 10000

\* The checks of the constructor.
ASSUME ScheduleAssumption ==
    /\ InitialUnlockBps \in 0..BPS_DENOMINATOR
    /\ CliffSeconds \in Nat
    /\ LinearVestingDurationSeconds \in Nat
    /\ InitialUnlockBps < BPS_DENOMINATOR => LinearVestingDurationSeconds > 0

VARIABLES
    vesting,                \* state of each vesting contract
    walletUliq              \* ULIQ of each beneficiary

vestingVars == <<vesting, walletUliq>>

VestingInit ==
    /\ vesting = [r \in Rounds |->
         [presale |-> FALSE, balance |-> 0, totalAllocated |-> 0, totalReleased |-> 0,
          allocated |-> [b \in Buyers |-> 0],
          released |-> [b \in Buyers |-> 0]]]
    /\ walletUliq = [b \in Buyers |-> 0]

\* setPresale, once and before the listing.
setVestingPresale(r) ==
    /\ ~vesting[r].presale
    /\ listingTimestamp = 0
    /\ vesting' = [vesting EXCEPT ![r].presale = TRUE]
    /\ UNCHANGED walletUliq

\* allocate, in the transaction that transferred received ULIQ to the pool.
allocate(r, beneficiary, amount, received) ==
    /\ vesting[r].presale
    /\ amount # 0
    /\ listingTimestamp = 0
    /\ vesting[r].balance + received + vesting[r].totalReleased
         >= vesting[r].totalAllocated + amount
    /\ vesting' = [vesting EXCEPT ![r].balance = @ + received,
                                  ![r].totalAllocated = @ + amount,
                                  ![r].allocated[beneficiary] = @ + amount]
    /\ UNCHANGED walletUliq

initialUnlock(amount) == (amount * InitialUnlockBps) \div BPS_DENOMINATOR

vested(r, beneficiary) ==
    LET allocation == vesting[r].allocated[beneficiary]
        remaining == allocation - initialUnlock(allocation)
        elapsed == now - (listingTimestamp + CliffSeconds)
    IN  IF listingTimestamp = 0 \/ now < listingTimestamp THEN 0
        ELSE IF elapsed <= 0 /\ remaining # 0 THEN initialUnlock(allocation)
        ELSE IF remaining = 0 \/ elapsed >= LinearVestingDurationSeconds THEN allocation
        ELSE initialUnlock(allocation) + (remaining * elapsed) \div LinearVestingDurationSeconds

\* Mutant: pays what has vested without subtracting what was released.
claimable_gross(r, beneficiary) == vested(r, beneficiary)

claimable(r, beneficiary) == vested(r, beneficiary) - vesting[r].released[beneficiary]

claim(r, beneficiary) ==
    LET amount == claimable(r, beneficiary) IN
    /\ amount > 0
    /\ amount <= vesting[r].balance
    /\ vesting' = [vesting EXCEPT ![r].balance = @ - amount,
                                  ![r].totalReleased = @ + amount,
                                  ![r].released[beneficiary] = @ + amount]
    /\ walletUliq' = [walletUliq EXCEPT ![beneficiary] = @ + amount]
=============================================================================
