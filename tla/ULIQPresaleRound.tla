-------------------------- MODULE ULIQPresaleRound --------------------------
(***************************************************************************)
(* The two-round ULIQ presale: the rounds, each with its payment custody   *)
(* and vesting pool, and the listing controller they share.                *)
(*                                                                         *)
(* Every external function is one transaction, calls into custody, vesting *)
(* and tokens included.  Amounts are raw units; OneUliq stands for 10^18.  *)
(***************************************************************************)
EXTENDS ULIQPaymentCustody, ULIQPresaleRoundVesting, FiniteSets, FiniteSetsExt, Functions

CONSTANTS
    OneUliq,                \* raw units of one ULIQ
    AllocationCap,          \* per round: allocationCapUliqRaw
    Price,                  \* per round: priceUsdcRawPerUliq
    MinPurchase, MaxPurchase, WithdrawalPeriod,
    Windows,                \* bound: sale windows the owner configures
    Requests,               \* bound: maxUsdcAmountRaw values of buy
    SourceUliq              \* ULIQ of the inventory source at the start

mulDiv(a, b, c) == (a * b) \div c

hardCap(r) == mulDiv(AllocationCap[r], Price[r], OneUliq)

\* The checks of the constructor.
ASSUME RoundAssumption ==
    /\ Rounds = {1, 2}
    /\ OneUliq \in Nat \ {0}
    /\ WithdrawalPeriod \in Nat \ {0}
    /\ MinPurchase \in Nat \ {0}
    /\ MaxPurchase \in Nat
    /\ MinPurchase <= MaxPurchase
    /\ SourceUliq \in Nat
    /\ Windows \subseteq Nat \X Nat
    /\ Requests \subseteq Nat
    /\ \A r \in Rounds :
        /\ AllocationCap[r] \in Nat \ {0}
        /\ Price[r] \in Nat \ {0}
        /\ MinPurchase <= hardCap(r)

VARIABLES
    round,                  \* state of each round contract
    sourceUliq              \* ULIQ of the inventory source

presaleVars == <<now, listingVars, custodyVars, vestingVars, round, sourceUliq>>

NoPurchase == [buyer |-> NoBuyer, usdc |-> 0, uliq |-> 0, withdrawalDeadline |-> 0,
               state |-> "NONE"]

PresaleInit ==
    /\ GlobalListingInit
    /\ CustodyInit
    /\ VestingInit
    /\ round = [r \in Rounds |->
         [state |-> "DRAFT", saleStart |-> 0, saleEnd |-> 0, nextPurchaseId |-> 1,
          totalRaised |-> 0, totalSold |-> 0, pendingAllocation |-> 0,
          pendingPurchaseCount |-> 0, finalizedAllocation |-> 0, withdrawnAllocation |-> 0,
          unsoldReleased |-> 0, inventoryFunded |-> FALSE, balance |-> 0,
          purchasedByBuyer |-> [b \in Buyers |-> 0],
          purchases |-> [id \in PurchaseIds |-> NoPurchase]]]
    /\ sourceUliq = SourceUliq

-----------------------------------------------------------------------------
(* Life cycle *)

\* A round changes state and nothing else happens.
setState(r, from, to) ==
    /\ round[r].state \in from
    /\ round' = [round EXCEPT ![r].state = to]
    /\ UNCHANGED <<now, listingVars, custodyVars, vestingVars, sourceUliq>>

\* The version counter only orders the owner's own calls: a call prepared
\* against an older window is refused.  The window chosen last is the state.
configureSaleWindow(r, saleStart, saleEnd) ==
    /\ round[r].state = "DRAFT"
    /\ saleStart < saleEnd
    /\ saleEnd > now
    /\ round' = [round EXCEPT ![r].saleStart = saleStart, ![r].saleEnd = saleEnd]
    /\ UNCHANGED <<now, listingVars, custodyVars, vestingVars, sourceUliq>>

fundInventory(r) ==
    /\ round[r].state = "DRAFT"
    /\ ~round[r].inventoryFunded
    /\ AllocationCap[r] <= sourceUliq
    /\ round' = [round EXCEPT ![r].inventoryFunded = TRUE,
                              ![r].balance = @ + AllocationCap[r]]
    /\ sourceUliq' = sourceUliq - AllocationCap[r]
    /\ UNCHANGED <<now, listingVars, custodyVars, vestingVars>>

\* A plain token transfer to the round, which is no funding.
donateInventory(r) ==
    /\ sourceUliq > 0
    /\ round' = [round EXCEPT ![r].balance = @ + 1]
    /\ sourceUliq' = sourceUliq - 1
    /\ UNCHANGED <<now, listingVars, custodyVars, vestingVars>>

markReady(r) ==
    /\ round[r].saleEnd # 0
    /\ now < round[r].saleEnd
    /\ round[r].inventoryFunded
    /\ vesting[r].presale
    /\ round[r].balance >= AllocationCap[r]
    /\ setState(r, {"DRAFT"}, "READY")

isRoundEnded(r) ==
    round[r].state \in {"ENDED", "LISTING_PENDING", "LISTING_LAUNCHED", "COMPLETED"}

\* Mutant: does not ask whether the predecessor has ended.
activateSale_anyOrder(r) ==
    /\ now >= round[r].saleStart /\ now < round[r].saleEnd
    /\ listingTimestamp = 0
    /\ setState(r, {"READY"}, "ACTIVE")

\* The first round has no predecessor.
activateSale(r) ==
    /\ now >= round[r].saleStart /\ now < round[r].saleEnd
    /\ r > 1 => isRoundEnded(r - 1)
    /\ listingTimestamp = 0
    /\ setState(r, {"READY"}, "ACTIVE")

pauseSale(r) == setState(r, {"ACTIVE"}, "PAUSED")

remainingCapacity(r) ==
    Min({hardCap(r) - round[r].totalRaised,
         mulDiv(AllocationCap[r] - round[r].totalSold, Price[r], OneUliq)})

unpauseSale(r) ==
    /\ now < round[r].saleEnd
    /\ remainingCapacity(r) >= MinPurchase
    /\ setState(r, {"PAUSED"}, "ACTIVE")

endSale(r) ==
    /\ \/ now >= round[r].saleEnd
       \/ /\ round[r].state # "READY"
          /\ remainingCapacity(r) < MinPurchase
          /\ round[r].pendingPurchaseCount = 0
    /\ setState(r, {"READY", "ACTIVE", "PAUSED"}, "ENDED")

markListingPending(r) ==
    /\ round[r].pendingPurchaseCount = 0
    /\ setState(r, {"ENDED"}, "LISTING_PENDING")

\* Mutant: an ended round counts as ready even with purchases pending.
isListingReady_ended(r) == isRoundEnded(r)

isListingReady(r) ==
    /\ round[r].state = "LISTING_PENDING"
    /\ round[r].pendingPurchaseCount = 0

acknowledgeListingLaunch(r) ==
    /\ listingTimestamp # 0
    /\ now >= listingTimestamp
    /\ setState(r, {"LISTING_PENDING"}, "LISTING_LAUNCHED")

completeSale(r) == setState(r, {"LISTING_LAUNCHED"}, "COMPLETED")

\* Mutant: does not wait for purchases that may still be withdrawn.
releaseUnsold_whilePending(r) ==
    LET amount == AllocationCap[r] - round[r].totalSold IN
    /\ isRoundEnded(r)
    /\ round[r].unsoldReleased = 0
    /\ amount # 0
    /\ round[r].balance >= amount
    /\ round' = [round EXCEPT ![r].unsoldReleased = amount, ![r].balance = @ - amount]
    /\ sourceUliq' = sourceUliq + amount
    /\ UNCHANGED <<now, listingVars, custodyVars, vestingVars>>

releaseUnsold(r) ==
    LET amount == AllocationCap[r] - round[r].totalSold IN
    /\ isRoundEnded(r)
    /\ round[r].pendingPurchaseCount = 0
    /\ round[r].unsoldReleased = 0
    /\ amount # 0
    /\ round[r].balance >= amount
    /\ round' = [round EXCEPT ![r].unsoldReleased = amount, ![r].balance = @ - amount]
    /\ sourceUliq' = sourceUliq + amount
    /\ UNCHANGED <<now, listingVars, custodyVars, vestingVars>>
-----------------------------------------------------------------------------
(* Purchases *)

Nothing == [usdc |-> 0, uliq |-> 0]

toUliq(r, usdcAmount) == mulDiv(usdcAmount, OneUliq, Price[r])

\* Mutant: clips to the hard cap but forgets what the wallet already bought.
quotePurchase_noWalletLimit(r, buyer, requested) ==
    LET usdcAmount == Min({requested, hardCap(r) - round[r].totalRaised}) IN
    IF requested < MinPurchase \/ usdcAmount < MinPurchase \/ toUliq(r, usdcAmount) = 0
    THEN Nothing ELSE [usdc |-> usdcAmount, uliq |-> toUliq(r, usdcAmount)]

quotePurchase(r, buyer, requested) ==
    LET already == round[r].purchasedByBuyer[buyer]
        clipped == Min({requested, MaxPurchase - already, hardCap(r) - round[r].totalRaised})
        remaining == AllocationCap[r] - round[r].totalSold
        accepted == IF toUliq(r, clipped) > remaining
                    THEN mulDiv(remaining, Price[r], OneUliq) ELSE clipped
    IN  IF requested < MinPurchase \/ already >= MaxPurchase
             \/ accepted < MinPurchase \/ toUliq(r, accepted) = 0
        THEN Nothing ELSE [usdc |-> accepted, uliq |-> toUliq(r, accepted)]

\* Mutant: the purchase is stored but not counted as pending.
recordPurchase_uncounted(r, id, buyer, quote) ==
    round' = [round EXCEPT
        ![r].nextPurchaseId = @ + 1,
        ![r].purchases[id] = [buyer |-> buyer, usdc |-> quote.usdc, uliq |-> quote.uliq,
                              withdrawalDeadline |-> now + WithdrawalPeriod,
                              state |-> "PENDING_WITHDRAWAL"]]

recordPurchase(r, id, buyer, quote) ==
    round' = [round EXCEPT
        ![r].nextPurchaseId = @ + 1,
        ![r].purchases[id] = [buyer |-> buyer, usdc |-> quote.usdc, uliq |-> quote.uliq,
                              withdrawalDeadline |-> now + WithdrawalPeriod,
                              state |-> "PENDING_WITHDRAWAL"],
        ![r].totalRaised = @ + quote.usdc,
        ![r].totalSold = @ + quote.uliq,
        ![r].pendingAllocation = @ + quote.uliq,
        ![r].pendingPurchaseCount = @ + 1,
        ![r].purchasedByBuyer[buyer] = @ + quote.usdc]

\* Mutant: custody collects what the buyer offered, not what was accepted.
buy_collectsRequested(r, buyer, maxUsdcAmount, minUliqAllocation) ==
    LET quote == quotePurchase(r, buyer, maxUsdcAmount)
        id == round[r].nextPurchaseId
    IN  /\ id \in PurchaseIds
        /\ round[r].state = "ACTIVE"
        /\ now >= round[r].saleStart /\ now < round[r].saleEnd
        /\ quote # Nothing
        /\ recordPurchase(r, id, buyer, quote)
        /\ collectFrom(r, id, buyer, maxUsdcAmount)
        /\ UNCHANGED <<now, listingVars, vestingVars, sourceUliq>>

buy(r, buyer, maxUsdcAmount, minUliqAllocation) ==
    LET quote == quotePurchase(r, buyer, maxUsdcAmount)
        id == round[r].nextPurchaseId
    IN  /\ id \in PurchaseIds
        /\ round[r].state = "ACTIVE"
        /\ now >= round[r].saleStart /\ now < round[r].saleEnd
        /\ maxUsdcAmount >= MinPurchase
        /\ quote # Nothing
        /\ quote.uliq >= minUliqAllocation
        /\ round[r].balance >= round[r].pendingAllocation + quote.uliq
        /\ recordPurchase(r, id, buyer, quote)
        /\ collectFrom(r, id, buyer, quote.usdc)
        /\ UNCHANGED <<now, listingVars, vestingVars, sourceUliq>>

isPending(r, id) == round[r].purchases[id].state = "PENDING_WITHDRAWAL"

\* Mutant: the capacity of a withdrawn purchase is not given back.
withdrawPurchase_keepsSold(r, id, sender) ==
    LET p == round[r].purchases[id] IN
    /\ isPending(r, id)
    /\ sender = p.buyer
    /\ now <= p.withdrawalDeadline
    /\ round' = [round EXCEPT
         ![r].purchases[id].state = "WITHDRAWN",
         ![r].pendingPurchaseCount = @ - 1,
         ![r].pendingAllocation = @ - p.uliq]
    /\ refundTo(r, id, p.buyer, p.usdc)
    /\ UNCHANGED <<now, listingVars, vestingVars, sourceUliq>>

withdrawPurchase(r, id, sender) ==
    LET p == round[r].purchases[id] IN
    /\ isPending(r, id)
    /\ sender = p.buyer
    /\ now <= p.withdrawalDeadline
    /\ round' = [round EXCEPT
         ![r].purchases[id].state = "WITHDRAWN",
         ![r].pendingPurchaseCount = @ - 1,
         ![r].pendingAllocation = @ - p.uliq,
         ![r].totalRaised = @ - p.usdc,
         ![r].totalSold = @ - p.uliq,
         ![r].purchasedByBuyer[p.buyer] = @ - p.usdc,
         ![r].withdrawnAllocation = @ + p.uliq]
    /\ refundTo(r, id, p.buyer, p.usdc)
    /\ UNCHANGED <<now, listingVars, vestingVars, sourceUliq>>

\* Mutant: a purchase can only be finalized while the sale is active.
finalizePurchase_whileActive(r, id) ==
    LET p == round[r].purchases[id] IN
    /\ isPending(r, id)
    /\ round[r].state = "ACTIVE"
    /\ now > p.withdrawalDeadline
    /\ listingTimestamp = 0
    /\ p.uliq <= round[r].balance
    /\ round' = [round EXCEPT
         ![r].purchases[id].state = "FINALIZED",
         ![r].pendingPurchaseCount = @ - 1,
         ![r].pendingAllocation = @ - p.uliq,
         ![r].finalizedAllocation = @ + p.uliq,
         ![r].balance = @ - p.uliq]
    /\ allocate(r, p.buyer, p.uliq, p.uliq)
    /\ releaseToTreasury(r, id, p.buyer, p.usdc)
    /\ UNCHANGED <<now, listingVars, sourceUliq>>

\* Anyone may finalize; the backend's auto-finalizer does.
finalizePurchase(r, id) ==
    LET p == round[r].purchases[id] IN
    /\ isPending(r, id)
    /\ now > p.withdrawalDeadline
    /\ listingTimestamp = 0
    /\ p.uliq <= round[r].balance
    /\ round' = [round EXCEPT
         ![r].purchases[id].state = "FINALIZED",
         ![r].pendingPurchaseCount = @ - 1,
         ![r].pendingAllocation = @ - p.uliq,
         ![r].finalizedAllocation = @ + p.uliq,
         ![r].balance = @ - p.uliq]
    /\ allocate(r, p.buyer, p.uliq, p.uliq)
    /\ releaseToTreasury(r, id, p.buyer, p.usdc)
    /\ UNCHANGED <<now, listingVars, sourceUliq>>

-----------------------------------------------------------------------------
roundUnchanged == UNCHANGED <<round, sourceUliq>>

adminNext ==
    \/ /\ configureRounds \/ \E t \in 1..MaxTime :
                                scheduleListing(t, \A r \in Rounds : isListingReady(r))
       /\ UNCHANGED <<custodyVars, vestingVars>> /\ roundUnchanged
    \/ \E r \in Rounds :
        \/ \E w \in Windows : configureSaleWindow(r, w[1], w[2])
        \/ fundInventory(r) \/ donateInventory(r) \/ markReady(r)
        \/ activateSale(r) \/ pauseSale(r) \/ unpauseSale(r) \/ endSale(r)
        \/ markListingPending(r) \/ acknowledgeListingLaunch(r) \/ completeSale(r)
        \/ releaseUnsold(r)
        \/ /\ \/ setCustodyPresale(r) \/ cancelTreasuryTransfer(r)
              \/ \E t \in Treasuries : proposeTreasury(r, t) \/ acceptTreasury(r, t)
           /\ UNCHANGED <<now, listingVars, vestingVars>> /\ roundUnchanged
        \/ /\ setVestingPresale(r)
           /\ UNCHANGED <<now, listingVars, custodyVars>> /\ roundUnchanged

\* minUliqAllocationRaw: no limit, or the whole round.
buyerNext ==
    \E r \in Rounds, b \in Buyers :
        \/ \E request \in Requests, minUliq \in {0, AllocationCap[r]} : buy(r, b, request, minUliq)
        \/ \E id \in PurchaseIds : withdrawPurchase(r, id, b)
        \/ /\ claim(r, b)
           /\ UNCHANGED <<now, listingVars, custodyVars>> /\ roundUnchanged

finalizerNext == \E r \in Rounds, id \in PurchaseIds : finalizePurchase(r, id)

timeNext == tick /\ UNCHANGED <<custodyVars, vestingVars>> /\ roundUnchanged

PresaleNext == adminNext \/ buyerNext \/ finalizerNext \/ timeNext

PresaleSpec == PresaleInit /\ [][PresaleNext]_presaleVars

\* Block time advances, and the auto-finalizer job keeps finalizing what is due.
FairPresaleSpec ==
    /\ PresaleSpec
    /\ WF_presaleVars(timeNext)
    /\ WF_presaleVars(finalizerNext)

-----------------------------------------------------------------------------
(* Properties *)

SaleStates == {"DRAFT", "READY", "ACTIVE", "PAUSED", "ENDED", "LISTING_PENDING",
               "LISTING_LAUNCHED", "COMPLETED"}

\* Type invariant: in particular no unchecked difference goes below zero.
PresaleTypeOK ==
    /\ now \in 1..MaxTime
    /\ listingTimestamp \in 0..MaxTime
    /\ sourceUliq \in Nat
    /\ walletUsdc \in [Buyers -> Nat]
    /\ walletUliq \in [Buyers -> Nat]
    /\ treasuryUsdc \in [Treasuries -> Nat]
    /\ \A r \in Rounds :
        /\ round[r].state \in SaleStates
        /\ {round[r].totalRaised, round[r].totalSold, round[r].pendingAllocation,
            round[r].pendingPurchaseCount, round[r].balance} \subseteq Nat
        /\ round[r].purchasedByBuyer \in [Buyers -> Nat]
        /\ {custody[r].balance, accountedBalance(r), vesting[r].balance} \subseteq Nat
        /\ custody[r].treasury \in Treasuries
        /\ custody[r].pendingTreasury \in Treasuries \cup {NoTreasury}
        /\ vesting[r].allocated \in [Buyers -> Nat]
        /\ vesting[r].released \in [Buyers -> Nat]

Pending(r) == {id \in PurchaseIds : isPending(r, id)}
Live(r) == {id \in PurchaseIds :
             round[r].purchases[id].state \in {"PENDING_WITHDRAWAL", "FINALIZED"}}
OwnedBy(b, r, ids) == {id \in ids : round[r].purchases[id].buyer = b}
UsdcOf(r, ids) == SumFunctionOnSet([id \in PurchaseIds |-> round[r].purchases[id].usdc], ids)
UliqOf(r, ids) == SumFunctionOnSet([id \in PurchaseIds |-> round[r].purchases[id].uliq], ids)

\* The counters of a round, updated one by one in buy, withdrawPurchase and
\* finalizePurchase, always agree with the purchases they summarise, and each
\* purchase with the payment custody keeps for it.
BooksMatchPurchases ==
    \A r \in Rounds :
        /\ round[r].pendingPurchaseCount = Cardinality(Pending(r))
        /\ round[r].pendingAllocation = UliqOf(r, Pending(r))
        /\ round[r].totalRaised = UsdcOf(r, Live(r))
        /\ round[r].totalSold = UliqOf(r, Live(r))
        /\ \A b \in Buyers : round[r].purchasedByBuyer[b] = UsdcOf(r, OwnedBy(b, r, Live(r)))
        /\ \A id \in PurchaseIds :
            <<round[r].purchases[id].state, custody[r].payments[id].state>> \in
                {<<"NONE", "NONE">>, <<"PENDING_WITHDRAWAL", "COLLECTED">>,
                 <<"WITHDRAWN", "REFUNDED">>, <<"FINALIZED", "RELEASED">>}

\* A buyer's USDC is in the wallet or in a purchase that is pending or
\* finalized, custody can refund every pending purchase in full, and the
\* treasuries hold the finalized ones, whoever was treasury at the time.
BuyersMadeWhole ==
    /\ \A r \in Rounds : custody[r].balance >= UsdcOf(r, Pending(r))
    /\ \A b \in Buyers :
        LET spent == [r \in Rounds |-> UsdcOf(r, OwnedBy(b, r, Live(r)))]
        IN  walletUsdc[b] + SumFunction(spent) = Budget
    /\ SumFunction(treasuryUsdc)
         = SumFunction([r \in Rounds |-> UsdcOf(r, Live(r) \ Pending(r))])

\* A funded round can always deliver every pending allocation and still has
\* what was neither sold nor returned.  releaseUnsold, which works once only,
\* returns everything: no later withdrawal strands inventory in the round.
InventoryCoversSales ==
    \A r \in Rounds :
        LET unsold == AllocationCap[r] - round[r].totalSold IN
        /\ round[r].inventoryFunded =>
            round[r].balance >= round[r].pendingAllocation + unsold - round[r].unsoldReleased
        /\ round[r].unsoldReleased \in {0, unsold}

\* Purchases, partial fills and withdrawals that free capacity again never
\* bring a round above its hard cap or its allocation, or a wallet above its
\* maximum.
SalesWithinLimits ==
    \A r \in Rounds :
        /\ round[r].totalRaised <= hardCap(r)
        /\ round[r].totalSold <= AllocationCap[r]
        /\ \A b \in Buyers : round[r].purchasedByBuyer[b] <= MaxPurchase

\* The rounds sell one after the other: once the second round has opened, the
\* first never sells again.
OneSaleAtATime ==
    ~ \A r \in Rounds : round[r].state \in {"ACTIVE", "PAUSED"}

\* Once the listing is scheduled every purchase of both rounds is settled, and
\* it stays so: finalizePurchase and allocate refuse from then on, so a pending
\* purchase would be stuck for good.
ListingSealsPurchases ==
    listingTimestamp # 0 => \A r \in Rounds : Pending(r) = {}

\* Every pool can pay what it still owes, no claim runs ahead of the schedule
\* (claimable would underflow), and each beneficiary is credited exactly the
\* finalized purchases.
VestingSolvent ==
    /\ \A r \in Rounds :
        /\ vesting[r].balance + vesting[r].totalReleased >= vesting[r].totalAllocated
        /\ vesting[r].totalAllocated = round[r].finalizedAllocation
        /\ \A b \in Buyers :
            /\ vesting[r].allocated[b] = UliqOf(r, OwnedBy(b, r, Live(r) \ Pending(r)))
            /\ vesting[r].released[b] <= vested(r, b)
            /\ vested(r, b) <= vesting[r].allocated[b]
    /\ \A b \in Buyers :
        walletUliq[b] = SumFunction([r \in Rounds |-> vesting[r].released[b]])

\* Every purchase is eventually withdrawn or finalized: neither the end of the
\* sale nor the listing leaves one pending.
EveryPurchaseSettles ==
    \A r \in Rounds, id \in PurchaseIds : isPending(r, id) ~> ~isPending(r, id)
=============================================================================
