-------------------------- MODULE ULIQPaymentCustody --------------------------
(***************************************************************************)
(* One payment custody per presale round: it holds a purchase's USDC until *)
(* the round refunds it to the buyer or releases it to the treasury.       *)
(***************************************************************************)
EXTENDS ULIQGlobalListing, FiniteSets

CONSTANTS
    NoBuyer,                \* address(0)
    Treasuries,             \* addresses that are or may become the treasury
    NoTreasury,
    InitTreasury,
    Budget,                 \* USDC each buyer starts with
    MaxPurchases            \* bound: purchases per round

ASSUME CustodyAssumption ==
    /\ NoBuyer \notin Buyers
    /\ NoTreasury \notin Treasuries
    /\ InitTreasury \in Treasuries
    /\ IsFiniteSet(Treasuries)
    /\ Budget \in Nat
    /\ MaxPurchases \in Nat

VARIABLES
    custody,                \* state of each custody contract
    walletUsdc,             \* USDC of each buyer
    treasuryUsdc            \* USDC of each treasury address

custodyVars == <<custody, walletUsdc, treasuryUsdc>>

PurchaseIds == 1..MaxPurchases

NoPayment == [buyer |-> NoBuyer, amount |-> 0, state |-> "NONE"]

CustodyInit ==
    /\ custody = [r \in Rounds |->
         [presale |-> FALSE, balance |-> 0,
          treasury |-> InitTreasury, pendingTreasury |-> NoTreasury,
          totalCollected |-> 0, totalRefunded |-> 0, totalReleased |-> 0,
          payments |-> [id \in PurchaseIds |-> NoPayment]]]
    /\ walletUsdc = [b \in Buyers |-> Budget]
    /\ treasuryUsdc = [t \in Treasuries |-> 0]

\* setPresale, once.
setCustodyPresale(r) ==
    /\ ~custody[r].presale
    /\ custody' = [custody EXCEPT ![r].presale = TRUE]
    /\ UNCHANGED <<walletUsdc, treasuryUsdc>>

-----------------------------------------------------------------------------
(* Called by the round *)

collectFrom(r, id, buyer, amount) ==
    /\ custody[r].presale
    /\ amount # 0
    /\ custody[r].payments[id].state = "NONE"
    /\ amount <= walletUsdc[buyer]
    /\ custody' = [custody EXCEPT
         ![r].payments[id] = [buyer |-> buyer, amount |-> amount, state |-> "COLLECTED"],
         ![r].totalCollected = @ + amount,
         ![r].balance = @ + amount]
    /\ walletUsdc' = [walletUsdc EXCEPT ![buyer] = @ - amount]
    /\ UNCHANGED treasuryUsdc

requireCollectedPayment(r, id, buyer, amount) ==
    /\ custody[r].presale
    /\ custody[r].payments[id] = [buyer |-> buyer, amount |-> amount, state |-> "COLLECTED"]

refundTo(r, id, buyer, amount) ==
    /\ requireCollectedPayment(r, id, buyer, amount)
    /\ amount <= custody[r].balance
    /\ custody' = [custody EXCEPT
         ![r].payments[id].state = "REFUNDED",
         ![r].totalRefunded = @ + amount,
         ![r].balance = @ - amount]
    /\ walletUsdc' = [walletUsdc EXCEPT ![buyer] = @ + amount]
    /\ UNCHANGED treasuryUsdc

releaseToTreasury(r, id, buyer, amount) ==
    /\ requireCollectedPayment(r, id, buyer, amount)
    /\ amount <= custody[r].balance
    /\ custody' = [custody EXCEPT
         ![r].payments[id].state = "RELEASED",
         ![r].totalReleased = @ + amount,
         ![r].balance = @ - amount]
    /\ treasuryUsdc' = [treasuryUsdc EXCEPT ![custody[r].treasury] = @ + amount]
    /\ UNCHANGED walletUsdc

-----------------------------------------------------------------------------
(* Two-step handover of the treasury *)

proposeTreasury(r, proposed) ==
    /\ proposed # custody[r].treasury
    /\ custody[r].pendingTreasury = NoTreasury
    /\ custody' = [custody EXCEPT ![r].pendingTreasury = proposed]
    /\ UNCHANGED <<walletUsdc, treasuryUsdc>>

acceptTreasury(r, sender) ==
    /\ custody[r].pendingTreasury # NoTreasury
    /\ sender = custody[r].pendingTreasury
    /\ custody' = [custody EXCEPT ![r].treasury = sender,
                                  ![r].pendingTreasury = NoTreasury]
    /\ UNCHANGED <<walletUsdc, treasuryUsdc>>

cancelTreasuryTransfer(r) ==
    /\ custody[r].pendingTreasury # NoTreasury
    /\ custody' = [custody EXCEPT ![r].pendingTreasury = NoTreasury]
    /\ UNCHANGED <<walletUsdc, treasuryUsdc>>

accountedBalance(r) ==
    custody[r].totalCollected - custody[r].totalRefunded - custody[r].totalReleased
=============================================================================
