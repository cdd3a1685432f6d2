----------------------------- MODULE BotVaultV4 -----------------------------
(***************************************************************************)
(* One BotVaultV4 contract: the vault that holds the capital of one bot,   *)
(* its status machine, the profit-share accounting on the way out, and the *)
(* actions it forwards to HyperCore.                                       *)
(*                                                                         *)
(* Every external function is one action and one transaction: a failed     *)
(* require reverts everything, so an action is enabled exactly when the    *)
(* call would not revert.  HyperCore (the exchange behind HYPERCORE_WRITER *)
(* and the core deposit wallet) is external: it executes forwarded actions *)
(* later, in order, drops the ones it cannot honour, and fills orders.     *)
(*                                                                         *)
(* bestPnl and netPaid are history variables: no action reads them.        *)
(***************************************************************************)
EXTENDS Integers, Sequences

CONSTANTS
    Addresses,              \* accounts that can send transactions
    NoAddress,              \* address(0)
    InitController,         \* controller_ and agentWallet_ of the constructor
    InitAgentWallet,
    PlatformFeeRatePct,     \* immutable fee rates of this vault
    AffiliateFeeRatePct,
    Supply,                 \* USDC the public holds at the start
    CoreReserve,            \* USDC in the core deposit wallet at the start
    MaxPrincipal,           \* bound: principalDeposited stays below it
    PnlValues,              \* bound: realizedClosedPnl values a controller reports
    Cloids,                 \* bound: client order ids
    MaxQueue,               \* bound: actions HyperCore has not executed yet
    MaxExposure             \* bound: size of the position on HyperCore

ASSUME AddressAssumption ==
    /\ NoAddress \notin Addresses
    /\ InitController \in Addresses
    /\ InitAgentWallet \in Addresses \cup {NoAddress}

\* The requires of the constructor, lines 117-119.
ASSUME FeeRateAssumption ==
    /\ PlatformFeeRatePct \in 0..100
    /\ AffiliateFeeRatePct \in 0..100
    /\ PlatformFeeRatePct + AffiliateFeeRatePct <= 100

ASSUME BoundAssumption ==
    /\ Supply \in Nat
    /\ CoreReserve \in Nat
    /\ MaxPrincipal \in Nat
    /\ PnlValues \subseteq Int
    /\ MaxQueue \in Nat
    /\ MaxExposure \in Nat

VARIABLES
    status, controller, agentWallet,
    principalDeposited, principalReturned, realizedPnlNet,
    feePaidTotal, highWaterMarkProfit,
    usdc,           \* IERC20 balances
    core,           \* the vault's HyperCore account: spot, perp, exposure
    coreQueue,      \* forwarded raw actions not executed yet, oldest first
    openOrders,     \* resting orders: cloid and reduce-only flag
    bestPnl,        \* history: largest realizedClosedPnl accepted, at least 0
    netPaid         \* history: USDC paid to the beneficiary

accountVars == <<principalDeposited, principalReturned, realizedPnlNet,
                 feePaidTotal, highWaterMarkProfit, bestPnl, netPaid>>
roleVars == <<controller, agentWallet>>
coreVars == <<core, coreQueue, openOrders>>
botVaultVars == <<status, roleVars, accountVars, usdc, coreVars>>

Status == {"DEPLOYED", "FUNDED", "ACTIVE", "PAUSED", "CLOSE_ONLY", "CLOSED"}

\* "treasury" and "affiliate" stand for every address that is or was the
\* treasury recipient of the factory, or the affiliate recipient of the vault.
Accounts == {"vault", "beneficiary", "treasury", "affiliate",
             "coreDepositWallet", "owner", "public"}

profitShareFeeRatePct == PlatformFeeRatePct + AffiliateFeeRatePct

transfer(from, to, amount) ==
    [usdc EXCEPT ![from] = @ - amount, ![to] = @ + amount]

Lesser(a, b) == IF a < b THEN a ELSE b
Greater(a, b) == IF a > b THEN a ELSE b

-----------------------------------------------------------------------------
Init ==
    /\ status = "DEPLOYED"
    /\ controller = InitController
    /\ agentWallet = InitAgentWallet
    /\ principalDeposited = 0
    /\ principalReturned = 0
    /\ realizedPnlNet = 0
    /\ feePaidTotal = 0
    /\ highWaterMarkProfit = 0
    /\ usdc = [a \in Accounts |-> CASE a = "public" -> Supply
                                    [] a = "coreDepositWallet" -> CoreReserve
                                    [] OTHER -> 0]
    /\ core = [spot |-> 0, perp |-> 0, exposure |-> 0]
    /\ coreQueue = <<>>
    /\ openOrders = {}
    /\ bestPnl = 0
    /\ netPaid = 0

-----------------------------------------------------------------------------
(* Roles *)

onlyController(sender) == sender = controller

onlyControllerOrAgent(sender) == sender \in {controller, agentWallet}

\* Mutant: the zero address is accepted.
setController_anyAddress(sender, nextController) ==
    /\ onlyController(sender)
    /\ controller' = nextController
    /\ UNCHANGED <<status, agentWallet, accountVars, usdc, coreVars>>

setController(sender, nextController) ==
    /\ onlyController(sender)
    /\ nextController # NoAddress
    /\ controller' = nextController
    /\ UNCHANGED <<status, agentWallet, accountVars, usdc, coreVars>>

setAgentWallet(sender, nextAgentWallet) ==
    /\ onlyController(sender)
    /\ agentWallet' = nextAgentWallet
    /\ UNCHANGED <<status, controller, accountVars, usdc, coreVars>>

-----------------------------------------------------------------------------
(* Status machine *)

fund(from, amount) ==
    /\ status # "CLOSED"
    /\ amount > 0
    /\ amount <= usdc[from]
    /\ principalDeposited + amount <= MaxPrincipal
    /\ usdc' = transfer(from, "vault", amount)
    /\ principalDeposited' = principalDeposited + amount
    /\ status' = IF status \in {"DEPLOYED", "CLOSE_ONLY"} THEN "FUNDED" ELSE status
    /\ UNCHANGED <<roleVars, principalReturned, realizedPnlNet, feePaidTotal,
                   highWaterMarkProfit, bestPnl, netPaid, coreVars>>

changeStatus(sender, from, to) ==
    /\ onlyController(sender)
    /\ status \in from
    /\ status' = to
    /\ UNCHANGED <<roleVars, accountVars, usdc, coreVars>>

activate(sender) == changeStatus(sender, {"FUNDED", "PAUSED"}, "ACTIVE")

pause(sender) == changeStatus(sender, {"ACTIVE"}, "PAUSED")

setCloseOnly(sender) ==
    changeStatus(sender, {"ACTIVE", "PAUSED", "FUNDED"}, "CLOSE_ONLY")

-----------------------------------------------------------------------------
(* Payouts.  claimProfit, closeVault and recoverClosedFunds differ in their *)
(* status guard and in whether a zero payout is accepted; the checks, the   *)
(* profit-share accounting and the transfers are the same.                  *)

\* Mutant: principal already returned is forgotten.
principalOutstanding_total == principalDeposited

principalOutstanding ==
    IF principalDeposited > principalReturned
    THEN principalDeposited - principalReturned ELSE 0

\* Mutant: the high-water mark ignored: the whole reported profit is the base.
feeBase_ignoresHighWaterMark(profitComponent, realizedClosedPnl) ==
    IF realizedClosedPnl > 0
    THEN Lesser(profitComponent, realizedClosedPnl) ELSE 0

feeBase(profitComponent, realizedClosedPnl) ==
    IF realizedClosedPnl > 0 /\ realizedClosedPnl > highWaterMarkProfit
    THEN Lesser(profitComponent, realizedClosedPnl - highWaterMarkProfit)
    ELSE 0

\* Mutant: rounds the fee up instead of down.
computeProfitShareFee_roundsUp(base) == (base * profitShareFeeRatePct + 99) \div 100

computeProfitShareFee(base) == (base * profitShareFeeRatePct) \div 100

applyProfitShareAccounting(profitComponent, feeAmount, realizedClosedPnl) ==
    LET base == feeBase(profitComponent, realizedClosedPnl) IN
    /\ feeAmount = computeProfitShareFee(base)
    /\ feePaidTotal' = feePaidTotal + feeAmount
    /\ highWaterMarkProfit' = highWaterMarkProfit + base
    /\ realizedPnlNet' = realizedClosedPnl
    /\ bestPnl' = Greater(bestPnl, realizedClosedPnl)

platformFee(feeAmount) ==
    IF feeAmount > 0
    THEN (feeAmount * PlatformFeeRatePct) \div profitShareFeeRatePct ELSE 0

\* Mutant: pays the fee on top of the gross amount out of the vault's balance.
payoutProfitShare_feeOnTop(grossAmount, feeAmount) ==
    /\ usdc["vault"] >= grossAmount + feeAmount
    /\ usdc' = [usdc EXCEPT !["vault"] = @ - grossAmount - feeAmount,
                            !["treasury"] = @ + platformFee(feeAmount),
                            !["beneficiary"] = @ + grossAmount]
    /\ netPaid' = netPaid + grossAmount

payoutProfitShare(grossAmount, feeAmount) ==
    LET platformFeeAmount == platformFee(feeAmount)
        affiliateFeeAmount == feeAmount - platformFeeAmount
        netAmount == grossAmount - feeAmount
    IN  /\ usdc' = [usdc EXCEPT !["vault"] = @ - grossAmount,
                                !["treasury"] = @ + platformFeeAmount,
                                !["affiliate"] = @ + affiliateFeeAmount,
                                !["beneficiary"] = @ + netAmount]
        /\ netPaid' = netPaid + netAmount

payout(principal, grossAmount, feeAmount, realizedClosedPnl) ==
    /\ grossAmount >= feeAmount
    /\ principal <= grossAmount
    /\ grossAmount <= usdc["vault"]
    /\ principal <= principalOutstanding
    /\ feeAmount <= grossAmount - principal
    /\ applyProfitShareAccounting(grossAmount - principal, feeAmount, realizedClosedPnl)
    /\ principalReturned' = principalReturned + principal
    /\ payoutProfitShare(grossAmount, feeAmount)
    /\ UNCHANGED <<status, roleVars, principalDeposited, coreVars>>

claimProfit(sender, grossAmount, feeAmount, principalPortion, realizedClosedPnl) ==
    /\ onlyController(sender)
    /\ status # "CLOSED"
    /\ grossAmount > 0
    /\ payout(principalPortion, grossAmount, feeAmount, realizedClosedPnl)

closeVault(sender, principalToReturn, grossAmount, feeAmount, realizedClosedPnl) ==
    /\ onlyController(sender)
    /\ status = "CLOSE_ONLY"
    /\ payout(principalToReturn, grossAmount, feeAmount, realizedClosedPnl)

recoverClosedFunds(sender, principalToReturn, grossAmount, feeAmount, realizedClosedPnl) ==
    /\ onlyController(sender)
    /\ status \in {"CLOSE_ONLY", "CLOSED"}
    /\ grossAmount > 0
    /\ payout(principalToReturn, grossAmount, feeAmount, realizedClosedPnl)
-----------------------------------------------------------------------------
(* Forwarding to HyperCore *)

CoreAction ==
    [kind : {"toPerp", "toSpot", "spotSendEvm", "spotSendOther"}, amount : Nat]
      \cup [kind : {"order"}, cloid : Cloids, reduceOnly : BOOLEAN]
      \cup [kind : {"cancel"}, cloid : Cloids]

sendRawAction(action) ==
    /\ Len(coreQueue) < MaxQueue
    /\ coreQueue' = Append(coreQueue, action)
    /\ UNCHANGED <<status, roleVars, accountVars, usdc, core, openOrders>>

requireTransferAllowed(toPerp) ==
    \/ status = "ACTIVE"
    \/ ~toPerp /\ status \in {"FUNDED", "PAUSED", "CLOSE_ONLY", "CLOSED"}

\* Mutant: a paused vault still accepts orders of any kind.
requireOrderPlacementAllowed_whilePaused(reduceOnly) ==
    \/ status \in {"ACTIVE", "PAUSED"}
    \/ status = "CLOSE_ONLY" /\ reduceOnly

requireOrderPlacementAllowed(reduceOnly) ==
    \/ status = "ACTIVE"
    \/ status \in {"PAUSED", "CLOSE_ONLY"} /\ reduceOnly

sendUsdClassTransfer(sender, ntl, toPerp) ==
    /\ onlyControllerOrAgent(sender)
    /\ requireTransferAllowed(toPerp)
    /\ ntl > 0
    /\ sendRawAction([kind |-> IF toPerp THEN "toPerp" ELSE "toSpot", amount |-> ntl])

\* toEvm: the destination is the system address that credits the vault's USDC.
sendHyperCoreSpot(sender, toEvm, weiAmount) ==
    /\ onlyControllerOrAgent(sender)
    /\ status # "DEPLOYED"
    /\ weiAmount > 0
    /\ sendRawAction([kind |-> IF toEvm THEN "spotSendEvm" ELSE "spotSendOther",
                      amount |-> weiAmount])

depositUsdcToHyperCore(sender, amount) ==
    /\ onlyControllerOrAgent(sender)
    /\ status \in {"ACTIVE", "FUNDED"}
    /\ amount > 0
    /\ amount <= usdc["vault"]
    /\ usdc' = transfer("vault", "coreDepositWallet", amount)
    /\ core' = [core EXCEPT !.spot = @ + amount]
    /\ UNCHANGED <<status, roleVars, accountVars, coreQueue, openOrders>>

placeHyperCoreLimitOrder(sender, cloid, reduceOnly) ==
    /\ onlyControllerOrAgent(sender)
    /\ requireOrderPlacementAllowed(reduceOnly)
    /\ sendRawAction([kind |-> "order", cloid |-> cloid, reduceOnly |-> reduceOnly])

\* By oid or by cloid; allowed in every status.
cancelHyperCoreOrder(sender, cloid) ==
    /\ onlyControllerOrAgent(sender)
    /\ sendRawAction([kind |-> "cancel", cloid |-> cloid])

-----------------------------------------------------------------------------
(* HyperCore, external *)

CoreMove(action) ==
    CASE action.kind = "toPerp" /\ action.amount <= core.spot ->
            [core EXCEPT !.spot = @ - action.amount, !.perp = @ + action.amount]
      [] action.kind = "toSpot" /\ action.amount <= core.perp ->
            [core EXCEPT !.spot = @ + action.amount, !.perp = @ - action.amount]
      [] /\ action.kind \in {"spotSendEvm", "spotSendOther"}
         /\ action.amount <= core.spot ->
            [core EXCEPT !.spot = @ - action.amount]
      [] OTHER -> core

hyperCoreExecute ==
    /\ coreQueue # <<>>
    /\ LET action == Head(coreQueue) IN
        /\ core' = CoreMove(action)
        /\ usdc' = IF action.kind = "spotSendEvm" /\ action.amount <= core.spot
                   THEN transfer("coreDepositWallet", "vault", action.amount) ELSE usdc
        /\ openOrders' =
             CASE action.kind = "order" /\ \A o \in openOrders : o.cloid # action.cloid ->
                    openOrders \cup {[cloid |-> action.cloid, reduceOnly |-> action.reduceOnly]}
               [] action.kind = "cancel" -> {o \in openOrders : o.cloid # action.cloid}
               [] OTHER -> openOrders
    /\ coreQueue' = Tail(coreQueue)
    /\ UNCHANGED <<status, roleVars, accountVars>>

\* A fill moves the exposure by one; a reduce-only order never increases it.
hyperCoreFill(order) ==
    /\ order \in openOrders
    /\ \E delta \in IF order.reduceOnly THEN {-1, 0} ELSE {-1, 1} :
          /\ core.exposure + delta \in 0..MaxExposure
          /\ core' = [core EXCEPT !.exposure = @ + delta]
    /\ openOrders' = openOrders \ {order}
    /\ UNCHANGED <<status, roleVars, accountVars, usdc, coreQueue>>

\* Profit is paid by counterparties whose USDC is in the deposit wallet too.
hyperCorePnl(delta) ==
    /\ core.perp + delta >= 0
    /\ core.spot + core.perp + delta <= usdc["coreDepositWallet"]
    /\ core' = [core EXCEPT !.perp = @ + delta]
    /\ UNCHANGED <<status, roleVars, accountVars, usdc, coreQueue, openOrders>>

-----------------------------------------------------------------------------
payoutNext(sender) ==
    \E gross \in 0..usdc["vault"], pnl \in PnlValues :
      \E fee \in 0..gross, principal \in 0..gross :
        \/ claimProfit(sender, gross, fee, principal, pnl)
        \/ closeVault(sender, principal, gross, fee, pnl)
        \/ recoverClosedFunds(sender, principal, gross, fee, pnl)

controlNext(sender) ==
    \/ \E next \in Addresses \cup {NoAddress} :
          setController(sender, next) \/ setAgentWallet(sender, next)
    \/ activate(sender)
    \/ pause(sender)
    \/ setCloseOnly(sender)

tradeNext(sender) ==
    \/ \E amount \in 1..(core.spot + core.perp) :
          \/ \E toPerp \in BOOLEAN : sendUsdClassTransfer(sender, amount, toPerp)
          \/ \E toEvm \in BOOLEAN : sendHyperCoreSpot(sender, toEvm, amount)
    \/ \E amount \in 1..usdc["vault"] : depositUsdcToHyperCore(sender, amount)
    \/ \E cloid \in Cloids, reduceOnly \in BOOLEAN :
          placeHyperCoreLimitOrder(sender, cloid, reduceOnly)
    \/ \E cloid \in Cloids : cancelHyperCoreOrder(sender, cloid)

hyperCoreNext ==
    \/ hyperCoreExecute
    \/ \E order \in openOrders : hyperCoreFill(order)
    \/ \E delta \in {-1, 1} : hyperCorePnl(delta)

senderNext(sender) ==
    \/ controlNext(sender)
    \/ payoutNext(sender)
    \/ tradeNext(sender)

Next ==
    \/ \E from \in {"beneficiary", "public"} : \E amount \in 1..usdc[from] : fund(from, amount)
    \/ \E sender \in Addresses : senderNext(sender)
    \/ hyperCoreNext

Spec == Init /\ [][Next]_botVaultVars

-----------------------------------------------------------------------------
(* Properties *)

\* Type invariant of the vault, its token balances and its HyperCore account.
TypeOK ==
    /\ status \in Status \ {"CLOSED"}
    /\ controller \in Addresses
    /\ agentWallet \in Addresses \cup {NoAddress}
    /\ principalDeposited \in 0..MaxPrincipal
    /\ principalReturned \in Nat
    /\ realizedPnlNet \in Int
    /\ feePaidTotal \in Nat
    /\ highWaterMarkProfit \in Nat
    /\ usdc \in [Accounts -> Nat]
    /\ core \in [spot : Nat, perp : Nat, exposure : Nat]
    /\ coreQueue \in Seq(CoreAction)
    /\ openOrders \subseteq [cloid : Cloids, reduceOnly : BOOLEAN]
    /\ bestPnl \in Nat
    /\ netPaid \in Nat

\* Whatever mix of claims, closes and recoveries the controller sends, the
\* principal booked as returned never exceeds what was deposited, and really
\* reached the beneficiary: no fee is ever taken out of it.
PrincipalReachesBeneficiary ==
    /\ principalReturned <= principalDeposited
    /\ principalReturned <= netPaid

\* No profit pays the profit share twice: over all payouts the fee stays within
\* the vault's rate on the high-water mark, and the high-water mark neither
\* exceeds the best PnL ever reported nor the profit actually paid out.
FeesWithinHighWaterMark ==
    /\ 100 * feePaidTotal <= profitShareFeeRatePct * highWaterMarkProfit
    /\ highWaterMarkProfit <= bestPnl
    /\ highWaterMarkProfit <= netPaid + feePaidTotal - principalReturned

\* The split of every payout is exact: treasury and affiliate together hold the
\* recorded fees to the last unit, and no USDC is created or lost on the way.
PayoutsBalance ==
    /\ usdc["treasury"] + usdc["affiliate"] = feePaidTotal
    /\ usdc["vault"] + usdc["beneficiary"] + usdc["treasury"] + usdc["affiliate"]
         + usdc["coreDepositWallet"] + usdc["owner"] + usdc["public"]
       = Supply + CoreReserve

\* An order that may add exposure, forwarded or resting on HyperCore.
RiskInFlight ==
    \/ \E i \in 1..Len(coreQueue) :
         coreQueue[i].kind = "order" /\ ~coreQueue[i].reduceOnly
    \/ \E o \in openOrders : ~o.reduceOnly

\* Once the vault has left ACTIVE and the orders of that period are gone, no
\* sequence of calls, executions and fills adds exposure before activate().
RiskOnlyFromActive ==
    [][(status # "ACTIVE" /\ ~RiskInFlight)
        => (core'.exposure <= core.exposure /\ ~RiskInFlight')]_botVaultVars
=============================================================================
