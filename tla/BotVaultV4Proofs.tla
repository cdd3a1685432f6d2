-------------------------- MODULE BotVaultV4Proofs --------------------------
(***************************************************************************)
(* Proofs about BotVaultV4 for every fee rate, supply, set of addresses    *)
(* and set of reported PnL values.                                         *)
(***************************************************************************)
EXTENDS BotVaultV4, TLAPS

\* What HyperCore owes the vault is covered by the core deposit wallet.
CoreSolvent == core.spot + core.perp <= usdc["coreDepositWallet"]

\* The inductive invariant.  The accounting facts need the types, the types of
\* the balances need CoreSolvent, and the fee bound needs the payout totals.
IInv ==
    /\ TypeOK
    /\ CoreSolvent
    /\ PrincipalReachesBeneficiary
    /\ FeesWithinHighWaterMark
    /\ PayoutsBalance

-----------------------------------------------------------------------------
(* Arithmetic of the profit share *)

\* Products of amounts and rates stay natural numbers.
LEMMA ProductNat ==
    ASSUME NEW a \in Nat, NEW b \in Nat
    PROVE  a * b \in Nat
BY SMT

\* A share of two bases is the sum of their shares.
LEMMA Distribute ==
    ASSUME NEW r \in Nat, NEW a \in Nat, NEW b \in Nat
    PROVE  r * (a + b) = r * a + b * r
BY SMT

\* Division by 100 in _computeProfitShareFee rounds towards zero.
LEMMA HundredthBound ==
    ASSUME NEW p \in Nat
    PROVE  /\ p \div 100 \in Nat
           /\ 100 * (p \div 100) <= p
BY SMT

\* The platform's part of a fee, as _payoutProfitShare divides it, is at most
\* the fee: the affiliate's remainder is never negative.
LEMMA ShareBound ==
    ASSUME NEW fee \in Nat, NEW part \in Nat, NEW whole \in Nat, part <= whole, whole > 0
    PROVE  (fee * part) \div whole \in 0..fee
<1>1. fee * part \in Nat /\ fee * whole \in Nat
  BY ProductNat
<1>2. fee * part <= fee * whole
  BY SMT
<1> DEFINE q == (fee * part) \div whole
<1>3. q \in Int /\ whole * q <= fee * part /\ fee * part < whole * (q + 1)
  BY <1>1, SMT
<1>4. q >= 0
  BY <1>1, <1>3, SMT
<1>5. q <= fee
  BY <1>1, <1>2, <1>3, SMT
<1> QED
  BY <1>3, <1>4, <1>5, SMT

\* The vault's total rate is a percentage.
LEMMA RateType == profitShareFeeRatePct \in 0..100
BY FeeRateAssumption, SMT DEF profitShareFeeRatePct

\* The base the fee is computed on is covered by the payout's profit component
\* and by the reported PnL above the high-water mark.
LEMMA FeeBaseBound ==
    ASSUME TypeOK, NEW profit \in Nat, NEW pnl \in Int
    PROVE  /\ feeBase(profit, pnl) \in Nat
           /\ feeBase(profit, pnl) <= profit
           /\ feeBase(profit, pnl) > 0 => highWaterMarkProfit + feeBase(profit, pnl) <= pnl
BY SMT DEF TypeOK, feeBase, Lesser

\* The fee on a base is at most the vault's percentage of it.
LEMMA FeeBound ==
    ASSUME NEW base \in Nat
    PROVE  /\ computeProfitShareFee(base) \in Nat
           /\ 100 * computeProfitShareFee(base) <= base * profitShareFeeRatePct
           /\ base = 0 => computeProfitShareFee(base) = 0
<1>1. profitShareFeeRatePct \in Nat
  BY RateType
<1>2. base * profitShareFeeRatePct \in Nat
  BY <1>1, ProductNat
<1>3. base = 0 => base * profitShareFeeRatePct = 0
  BY <1>1, SMT
<1> QED
  BY <1>2, <1>3, HundredthBound, SMT DEF computeProfitShareFee

\* The platform's part lies between nothing and the whole fee.
LEMMA PlatformFeeBound ==
    ASSUME NEW fee \in Nat, fee > 0 => profitShareFeeRatePct > 0
    PROVE  platformFee(fee) \in 0..fee
<1>1. CASE fee = 0
  BY <1>1, SMT DEF platformFee
<1>2. CASE fee > 0
  <2>1. /\ PlatformFeeRatePct \in Nat
        /\ profitShareFeeRatePct \in Nat
        /\ PlatformFeeRatePct <= profitShareFeeRatePct
        /\ profitShareFeeRatePct > 0
    BY <1>2, FeeRateAssumption, SMT DEF profitShareFeeRatePct
  <2>2. (fee * PlatformFeeRatePct) \div profitShareFeeRatePct \in 0..fee
    BY <2>1, ShareBound
  <2> QED
    BY <1>2, <2>2 DEF platformFee
<1> QED
  BY <1>1, <1>2, SMT
-----------------------------------------------------------------------------
(* Steps *)

\* The constructor establishes the invariant.
LEMMA InitIInv == Init => IInv
<1> SUFFICES ASSUME Init PROVE IInv
  OBVIOUS
<1> USE AddressAssumption, BoundAssumption
<1>1. TypeOK
  BY SMT DEF Init, TypeOK, Status, Accounts
<1>2. CoreSolvent
  BY SMT DEF Init, CoreSolvent, Accounts
<1>3. PrincipalReachesBeneficiary
  BY SMT DEF Init, PrincipalReachesBeneficiary
<1>4. FeesWithinHighWaterMark
  <2>1. /\ feePaidTotal = 0 /\ highWaterMarkProfit = 0 /\ bestPnl = 0
        /\ netPaid = 0 /\ principalReturned = 0
    BY DEF Init
  <2>2. \A rate \in 0..100 : 100 * 0 <= rate * 0
    BY SMT
  <2>3. 100 * feePaidTotal <= profitShareFeeRatePct * highWaterMarkProfit
    BY <2>1, <2>2, RateType
  <2> QED
    BY <2>1, <2>3, SMT DEF FeesWithinHighWaterMark
<1>5. PayoutsBalance
  BY SMT DEF Init, PayoutsBalance, Accounts
<1> QED
  BY <1>1, <1>2, <1>3, <1>4, <1>5 DEF IInv

\* A step that moves no USDC, leaves the books alone and keeps the HyperCore
\* balances keeps the accounting part of the invariant.
LEMMA BooksUnchanged ==
    ASSUME IInv, UNCHANGED <<accountVars, usdc>>, UNCHANGED <<core.spot, core.perp>>
    PROVE  /\ CoreSolvent'
           /\ PrincipalReachesBeneficiary'
           /\ FeesWithinHighWaterMark'
           /\ PayoutsBalance'
BY DEF IInv, accountVars, CoreSolvent, PrincipalReachesBeneficiary,
       FeesWithinHighWaterMark, PayoutsBalance

\* setController, setAgentWallet, activate, pause and setCloseOnly.
LEMMA ControlStep ==
    ASSUME IInv, NEW sender \in Addresses, controlNext(sender)
    PROVE  IInv'
<1>1. UNCHANGED <<accountVars, usdc, coreVars>>
  BY DEF controlNext, setController, setAgentWallet, activate, pause, setCloseOnly, changeStatus
<1>2. /\ status' \in Status \ {"CLOSED"}
      /\ controller' \in Addresses
      /\ agentWallet' \in Addresses \cup {NoAddress}
  BY DEF IInv, TypeOK, Status, roleVars,
         controlNext, setController, setAgentWallet, activate, pause, setCloseOnly, changeStatus
<1>3. TypeOK'
  BY <1>1, <1>2 DEF IInv, TypeOK, accountVars, coreVars
<1>4. UNCHANGED <<core.spot, core.perp>>
  BY <1>1 DEF coreVars
<1> QED
  BY <1>1, <1>3, <1>4, BooksUnchanged DEF IInv

\* fund, from the beneficiary or from anyone else.
LEMMA FundStep ==
    ASSUME IInv, NEW from \in {"beneficiary", "public"}, NEW amount \in 1..usdc[from],
           fund(from, amount)
    PROVE  IInv'
<1> USE DEF IInv
<1>1. /\ usdc \in [Accounts -> Nat]
      /\ amount \in Nat
      /\ from \in Accounts
  BY DEF TypeOK, Accounts
<1>2. usdc' = [usdc EXCEPT ![from] = @ - amount, !["vault"] = @ + amount]
  BY DEF fund, transfer
<1>3. /\ usdc' \in [Accounts -> Nat]
      /\ usdc'["coreDepositWallet"] = usdc["coreDepositWallet"]
  BY <1>1, <1>2, SMT DEF Accounts
<1>4. TypeOK'
  BY <1>1, <1>3, BoundAssumption, SMT DEF TypeOK, fund, roleVars, coreVars, Status
<1>5. CoreSolvent'
  BY <1>3 DEF CoreSolvent, fund, coreVars
<1>6. PrincipalReachesBeneficiary'
  BY <1>1, SMT DEF PrincipalReachesBeneficiary, fund, TypeOK
<1>7. FeesWithinHighWaterMark'
  BY DEF FeesWithinHighWaterMark, fund
<1>8. PayoutsBalance'
  BY <1>1, <1>2, SMT DEF PayoutsBalance, fund, Accounts
<1> QED
  BY <1>4, <1>5, <1>6, <1>7, <1>8

\* The common part of claimProfit, closeVault and recoverClosedFunds.
LEMMA PayoutStep ==
    ASSUME IInv, NEW gross \in Nat, NEW principal \in Nat, NEW fee \in Nat, NEW pnl \in Int,
           payout(principal, gross, fee, pnl)
    PROVE  IInv'
<1> DEFINE base == feeBase(gross - principal, pnl)
           platform == platformFee(fee)
<1> USE DEF IInv
<1>1. /\ principal <= gross
      /\ gross <= usdc["vault"]
      /\ principal <= principalOutstanding
      /\ fee <= gross - principal
      /\ gross - principal \in Nat
  BY SMT DEF payout
<1>2. /\ fee = computeProfitShareFee(base)
      /\ feePaidTotal' = feePaidTotal + fee
      /\ highWaterMarkProfit' = highWaterMarkProfit + base
      /\ realizedPnlNet' = pnl
      /\ bestPnl' = Greater(bestPnl, pnl)
      /\ principalReturned' = principalReturned + principal
      /\ netPaid' = netPaid + (gross - fee)
  BY DEF payout, applyProfitShareAccounting, payoutProfitShare
<1>3. /\ usdc' = [usdc EXCEPT !["vault"] = @ - gross,
                              !["treasury"] = @ + platform,
                              !["affiliate"] = @ + (fee - platform),
                              !["beneficiary"] = @ + (gross - fee)]
      /\ UNCHANGED <<status, roleVars, principalDeposited, coreVars>>
  BY DEF payout, payoutProfitShare
<1>4. /\ base \in Nat
      /\ base <= gross - principal
      /\ base > 0 => highWaterMarkProfit + base <= pnl
  BY <1>1, FeeBaseBound
<1>5. /\ 100 * fee <= base * profitShareFeeRatePct
      /\ base = 0 => fee = 0
  BY <1>2, <1>4, FeeBound
<1>6. fee > 0 => profitShareFeeRatePct > 0
  BY <1>4, <1>5, RateType, SMT
<1>7. platform \in 0..fee
  BY <1>6, PlatformFeeBound
<1>t. /\ principalDeposited \in Nat /\ principalReturned \in Nat
      /\ feePaidTotal \in Nat /\ highWaterMarkProfit \in Nat
      /\ bestPnl \in Nat /\ netPaid \in Nat
      /\ usdc \in [Accounts -> Nat]
  BY BoundAssumption DEF TypeOK
<1> HIDE DEF base, platform
<1>8. /\ usdc \in [Accounts -> Nat]
      /\ usdc' \in [Accounts -> Nat]
      /\ usdc'["coreDepositWallet"] = usdc["coreDepositWallet"]
  BY <1>1, <1>3, <1>7, <1>t, SMT DEF Accounts
<1>9. TypeOK'
  <2>1. /\ principalReturned' \in Nat
        /\ realizedPnlNet' \in Int
        /\ feePaidTotal' \in Nat
        /\ highWaterMarkProfit' \in Nat
        /\ bestPnl' \in Nat
        /\ netPaid' \in Nat
    BY <1>1, <1>2, <1>4, <1>t, SMT DEF Greater
  <2> QED
    BY <1>3, <1>8, <2>1 DEF TypeOK, roleVars, coreVars
<1>10. CoreSolvent'
  BY <1>3, <1>8 DEF CoreSolvent, coreVars
<1>11. PrincipalReachesBeneficiary'
  BY <1>1, <1>2, <1>3, <1>t, SMT DEF PrincipalReachesBeneficiary, principalOutstanding
<1>12. FeesWithinHighWaterMark'
  <2>1. profitShareFeeRatePct \in Nat
    BY RateType
  <2>2. profitShareFeeRatePct * highWaterMarkProfit \in Nat /\ base * profitShareFeeRatePct \in Nat
    BY <1>4, <2>1, <1>t, ProductNat
  <2>3. profitShareFeeRatePct * (highWaterMarkProfit + base)
          = profitShareFeeRatePct * highWaterMarkProfit + base * profitShareFeeRatePct
    BY <1>4, <2>1, <1>t, Distribute
  <2>4. 100 * feePaidTotal' <= profitShareFeeRatePct * highWaterMarkProfit'
    BY <1>2, <1>5, <2>2, <2>3, <1>t, SMT DEF FeesWithinHighWaterMark
  <2>5. highWaterMarkProfit' <= bestPnl'
    BY <1>2, <1>4, <1>t, SMT DEF FeesWithinHighWaterMark, Greater
  <2>6. highWaterMarkProfit' <= netPaid' + feePaidTotal' - principalReturned'
    BY <1>1, <1>2, <1>4, <1>t, SMT DEF FeesWithinHighWaterMark
  <2> QED
    BY <2>4, <2>5, <2>6 DEF FeesWithinHighWaterMark
<1>13. PayoutsBalance'
  BY <1>1, <1>2, <1>3, <1>7, <1>8, <1>t, SMT DEF PayoutsBalance, Accounts
<1> QED
  BY <1>9, <1>10, <1>11, <1>12, <1>13

\* claimProfit, closeVault and recoverClosedFunds.
LEMMA PayoutNextStep ==
    ASSUME IInv, NEW sender \in Addresses, payoutNext(sender)
    PROVE  IInv'
<1>1. usdc["vault"] \in Nat
  BY DEF IInv, TypeOK, Accounts
<1>2. PICK gross \in 0..usdc["vault"], pnl \in PnlValues :
        \E fee \in 0..gross, principal \in 0..gross : payout(principal, gross, fee, pnl)
  BY DEF payoutNext, claimProfit, closeVault, recoverClosedFunds
<1>3. gross \in Nat /\ pnl \in Int
  BY <1>1, BoundAssumption
<1>4. PICK fee \in 0..gross, principal \in 0..gross : payout(principal, gross, fee, pnl)
  BY <1>2
<1>5. fee \in Nat /\ principal \in Nat
  BY <1>3
<1> QED
  BY <1>3, <1>4, <1>5, PayoutStep

\* An action forwarded with sendRawAction.
LEMMA SendStep ==
    ASSUME IInv, NEW action \in CoreAction, sendRawAction(action)
    PROVE  IInv'
<1>1. TypeOK'
  <2>1. coreQueue' \in Seq(CoreAction)
    BY DEF IInv, TypeOK, sendRawAction
  <2> QED
    BY <2>1 DEF IInv, TypeOK, sendRawAction, roleVars, accountVars
<1> QED
  BY <1>1, BooksUnchanged DEF IInv, sendRawAction

\* depositUsdcToHyperCore.
LEMMA DepositStep ==
    ASSUME IInv, NEW sender, NEW amount \in 1..usdc["vault"], depositUsdcToHyperCore(sender, amount)
    PROVE  IInv'
<1>1. /\ usdc \in [Accounts -> Nat]
      /\ core \in [spot : Nat, perp : Nat, exposure : Nat]
      /\ amount \in Nat
      /\ amount <= usdc["vault"]
  BY DEF IInv, TypeOK, Accounts
<1>2. /\ usdc' = [usdc EXCEPT !["vault"] = @ - amount, !["coreDepositWallet"] = @ + amount]
      /\ core' = [core EXCEPT !.spot = @ + amount]
      /\ UNCHANGED <<status, roleVars, accountVars, coreQueue, openOrders>>
  BY DEF depositUsdcToHyperCore, transfer
<1>3. /\ usdc' \in [Accounts -> Nat]
      /\ core' \in [spot : Nat, perp : Nat, exposure : Nat]
  BY <1>1, <1>2, SMT DEF Accounts
<1>4. TypeOK'
  BY <1>2, <1>3 DEF IInv, TypeOK, roleVars, accountVars
<1>5. CoreSolvent'
  BY <1>1, <1>2, SMT DEF IInv, CoreSolvent, Accounts
<1>6. PrincipalReachesBeneficiary' /\ FeesWithinHighWaterMark'
  BY <1>2 DEF IInv, PrincipalReachesBeneficiary, FeesWithinHighWaterMark, accountVars
<1>7. PayoutsBalance'
  BY <1>1, <1>2, SMT DEF IInv, PayoutsBalance, accountVars, Accounts
<1> QED
  BY <1>4, <1>5, <1>6, <1>7 DEF IInv

\* Everything the controller or the agent forwards to HyperCore.
LEMMA TradeStep ==
    ASSUME IInv, NEW sender \in Addresses, tradeNext(sender)
    PROVE  IInv'
<1>1. core.spot + core.perp \in Nat
  BY SMT DEF IInv, TypeOK
<1>2. CASE \E action \in CoreAction : sendRawAction(action)
  BY <1>2, SendStep
<1>3. CASE \E amount \in 1..usdc["vault"] : depositUsdcToHyperCore(sender, amount)
  BY <1>3, DepositStep
<1>4. ASSUME NEW amount \in 1..(core.spot + core.perp), NEW toPerp \in BOOLEAN,
             sendUsdClassTransfer(sender, amount, toPerp)
      PROVE  \E action \in CoreAction : sendRawAction(action)
  <2>1. amount \in Nat
    BY <1>1
  <2> QED
    BY <1>4, <2>1 DEF sendUsdClassTransfer, CoreAction
<1>5. ASSUME NEW amount \in 1..(core.spot + core.perp), NEW toEvm \in BOOLEAN,
             sendHyperCoreSpot(sender, toEvm, amount)
      PROVE  \E action \in CoreAction : sendRawAction(action)
  <2>1. amount \in Nat
    BY <1>1
  <2> QED
    BY <1>5, <2>1 DEF sendHyperCoreSpot, CoreAction
<1>6. ASSUME NEW cloid \in Cloids, NEW reduceOnly \in BOOLEAN,
             placeHyperCoreLimitOrder(sender, cloid, reduceOnly)
      PROVE  \E action \in CoreAction : sendRawAction(action)
  BY <1>6 DEF placeHyperCoreLimitOrder, CoreAction
<1>7. ASSUME NEW cloid \in Cloids, cancelHyperCoreOrder(sender, cloid)
      PROVE  \E action \in CoreAction : sendRawAction(action)
  BY <1>7 DEF cancelHyperCoreOrder, CoreAction
<1> QED
  BY <1>2, <1>3, <1>4, <1>5, <1>6, <1>7 DEF tradeNext

\* HyperCore executes a forwarded action.
LEMMA ExecuteStep ==
    ASSUME IInv, hyperCoreExecute
    PROVE  IInv'
<1> DEFINE action == Head(coreQueue)
<1>1. /\ coreQueue \in Seq(CoreAction)
      /\ coreQueue # <<>>
  BY DEF IInv, TypeOK, hyperCoreExecute
<1>2. /\ action \in CoreAction
      /\ Tail(coreQueue) \in Seq(CoreAction)
  BY <1>1
<1>3. /\ core' = CoreMove(action)
      /\ usdc' = IF action.kind = "spotSendEvm" /\ action.amount <= core.spot
                 THEN transfer("coreDepositWallet", "vault", action.amount) ELSE usdc
      /\ coreQueue' = Tail(coreQueue)
      /\ UNCHANGED <<status, roleVars, accountVars>>
  BY DEF hyperCoreExecute
<1>4. openOrders' \subseteq [cloid : Cloids, reduceOnly : BOOLEAN]
  <2>1. openOrders \subseteq [cloid : Cloids, reduceOnly : BOOLEAN]
    BY DEF IInv, TypeOK
  <2>2. CASE action.kind = "order"
    <3>1. action.cloid \in Cloids /\ action.reduceOnly \in BOOLEAN
      BY <1>2, <2>2 DEF CoreAction
    <3> QED
      BY <2>1, <2>2, <3>1 DEF hyperCoreExecute
  <2>3. CASE action.kind # "order"
    BY <2>1, <2>3 DEF hyperCoreExecute
  <2> QED
    BY <2>2, <2>3
<1>5. /\ usdc \in [Accounts -> Nat]
      /\ core \in [spot : Nat, perp : Nat, exposure : Nat]
      /\ core.spot + core.perp <= usdc["coreDepositWallet"]
  BY DEF IInv, TypeOK, CoreSolvent
<1>6. action.kind \in {"toPerp", "toSpot", "spotSendEvm", "spotSendOther"} => action.amount \in Nat
  BY <1>2 DEF CoreAction
<1> HIDE DEF action
<1>7. /\ core' \in [spot : Nat, perp : Nat, exposure : Nat]
      /\ usdc' \in [Accounts -> Nat]
      /\ core'.spot + core'.perp <= usdc'["coreDepositWallet"]
      /\ PayoutsBalance'
  <2>1. CASE action.kind = "spotSendEvm" /\ action.amount <= core.spot
    <3>1. /\ core' = [core EXCEPT !.spot = @ - action.amount]
          /\ usdc' = [usdc EXCEPT !["coreDepositWallet"] = @ - action.amount,
                                  !["vault"] = @ + action.amount]
          /\ action.amount \in Nat
      BY <1>3, <1>6, <2>1 DEF CoreMove, transfer
    <3>2. PayoutsBalance'
      <4>1. feePaidTotal' = feePaidTotal /\ PayoutsBalance
        BY <1>3 DEF IInv, accountVars
      <4> QED
        BY <1>5, <3>1, <4>1, SMT DEF PayoutsBalance, Accounts
    <3> QED
      BY <1>5, <2>1, <3>1, <3>2, SMT DEF Accounts
  <2>2. CASE ~(action.kind = "spotSendEvm" /\ action.amount <= core.spot)
    <3>1. usdc' = usdc
      BY <1>3, <2>2
    <3>2. PayoutsBalance'
      BY <1>3, <3>1 DEF IInv, PayoutsBalance, accountVars
    <3>3. /\ core' \in [spot : Nat, perp : Nat, exposure : Nat]
          /\ core'.spot + core'.perp <= core.spot + core.perp
      <4>1. CASE action.kind = "toPerp" /\ action.amount <= core.spot
        <5>1. core' = [core EXCEPT !.spot = @ - action.amount, !.perp = @ + action.amount]
          BY <1>3, <4>1 DEF CoreMove
        <5>2. action.amount \in Nat
          BY <1>6, <4>1
        <5>3. core' = [spot |-> core.spot - action.amount, perp |-> core.perp + action.amount,
                       exposure |-> core.exposure]
          BY <1>5, <5>1
        <5>4. core.spot \in Nat /\ core.perp \in Nat /\ core.exposure \in Nat
          BY <1>5
        <5> QED
          BY <4>1, <5>2, <5>3, <5>4, SMT
      <4>2. CASE action.kind = "toSpot" /\ action.amount <= core.perp
        <5>1. core' = [core EXCEPT !.spot = @ + action.amount, !.perp = @ - action.amount]
          BY <1>3, <4>2 DEF CoreMove
        <5>2. action.amount \in Nat
          BY <1>6, <4>2
        <5>3. core' = [spot |-> core.spot + action.amount, perp |-> core.perp - action.amount,
                       exposure |-> core.exposure]
          BY <1>5, <5>1
        <5>4. core.spot \in Nat /\ core.perp \in Nat /\ core.exposure \in Nat
          BY <1>5
        <5> QED
          BY <4>2, <5>2, <5>3, <5>4, SMT
      <4>3. CASE action.kind = "spotSendOther" /\ action.amount <= core.spot
        <5>1. core' = [core EXCEPT !.spot = @ - action.amount]
          BY <1>3, <4>3 DEF CoreMove
        <5>2. action.amount \in Nat
          BY <1>6, <4>3
        <5> QED
          BY <1>5, <4>3, <5>1, <5>2, SMT
      <4>4. CASE core' = core
        BY <1>5, <4>4, SMT
      <4> QED
        BY <1>3, <2>2, <4>1, <4>2, <4>3, <4>4 DEF CoreMove
    <3> QED
      BY <1>5, <3>1, <3>2, <3>3, SMT DEF Accounts
  <2> QED
    BY <2>1, <2>2
<1>8. TypeOK'
  BY <1>2, <1>3, <1>4, <1>7 DEF IInv, TypeOK, roleVars, accountVars
<1>9. PrincipalReachesBeneficiary' /\ FeesWithinHighWaterMark'
  BY <1>3 DEF IInv, PrincipalReachesBeneficiary, FeesWithinHighWaterMark, accountVars
<1> QED
  BY <1>7, <1>8, <1>9 DEF IInv, CoreSolvent

\* A fill, or profit and loss of the position.
LEMMA FillOrPnlStep ==
    ASSUME IInv,
           \/ \E order \in openOrders : hyperCoreFill(order)
           \/ \E delta \in {-1, 1} : hyperCorePnl(delta)
    PROVE  IInv'
<1>1. core \in [spot : Nat, perp : Nat, exposure : Nat]
  BY DEF IInv, TypeOK
<1>2. CASE \E order \in openOrders : hyperCoreFill(order)
  <2>1. PICK order \in openOrders : hyperCoreFill(order)
    BY <1>2
  <2>2. PICK delta \in {-1, 0, 1} : /\ core.exposure + delta \in 0..MaxExposure
                                   /\ core' = [core EXCEPT !.exposure = @ + delta]
    BY <2>1 DEF hyperCoreFill
  <2>3. core' \in [spot : Nat, perp : Nat, exposure : Nat] /\ UNCHANGED <<core.spot, core.perp>>
    BY <1>1, <2>2, BoundAssumption, SMT
  <2>4. /\ UNCHANGED <<status, roleVars, accountVars, usdc, coreQueue>>
        /\ openOrders' \subseteq openOrders
    BY <2>1 DEF hyperCoreFill
  <2>5. TypeOK'
    BY <2>3, <2>4 DEF IInv, TypeOK, roleVars, accountVars
  <2> QED
    BY <2>3, <2>4, <2>5, BooksUnchanged DEF IInv
<1>3. CASE \E delta \in {-1, 1} : hyperCorePnl(delta)
  <2>1. PICK delta \in {-1, 1} : hyperCorePnl(delta)
    BY <1>3
  <2>2. /\ core' = [core EXCEPT !.perp = @ + delta]
        /\ core.perp + delta >= 0
        /\ core.spot + core.perp + delta <= usdc["coreDepositWallet"]
        /\ UNCHANGED <<status, roleVars, accountVars, usdc, coreQueue, openOrders>>
    BY <2>1 DEF hyperCorePnl
  <2>3. /\ core' \in [spot : Nat, perp : Nat, exposure : Nat]
        /\ core'.spot + core'.perp = core.spot + core.perp + delta
    BY <1>1, <2>2, SMT
  <2>4. CoreSolvent'
    BY <2>2, <2>3 DEF CoreSolvent
  <2>5. TypeOK'
    BY <2>2, <2>3 DEF IInv, TypeOK, roleVars, accountVars
  <2>6. PrincipalReachesBeneficiary' /\ FeesWithinHighWaterMark' /\ PayoutsBalance'
    BY <2>2 DEF IInv, PrincipalReachesBeneficiary, FeesWithinHighWaterMark,
                PayoutsBalance, accountVars
  <2> QED
    BY <2>4, <2>5, <2>6 DEF IInv
<1> QED
  BY <1>2, <1>3

\* Every step of the vault and of HyperCore preserves the invariant.
LEMMA NextIInv == IInv /\ [Next]_botVaultVars => IInv'
<1> SUFFICES ASSUME IInv, [Next]_botVaultVars PROVE IInv'
  OBVIOUS
<1>1. CASE \E from \in {"beneficiary", "public"} : \E amount \in 1..usdc[from] : fund(from, amount)
  BY <1>1, FundStep
<1>2. CASE \E sender \in Addresses : senderNext(sender)
  BY <1>2, ControlStep, PayoutNextStep, TradeStep DEF senderNext
<1>3. CASE hyperCoreNext
  BY <1>3, ExecuteStep, FillOrPnlStep DEF hyperCoreNext
<1>4. CASE UNCHANGED botVaultVars
  <2>1. UNCHANGED <<accountVars, usdc>> /\ UNCHANGED <<core.spot, core.perp>>
    BY <1>4 DEF botVaultVars, coreVars
  <2>2. TypeOK'
    BY <1>4 DEF IInv, TypeOK, botVaultVars, roleVars, accountVars, coreVars
  <2> QED
    BY <2>1, <2>2, BooksUnchanged DEF IInv
<1> QED
  BY <1>1, <1>2, <1>3, <1>4 DEF Next

-----------------------------------------------------------------------------
(* Exposure *)

\* The vault is not ACTIVE and no order that may add exposure is under way.
RiskFree == status # "ACTIVE" /\ ~RiskInFlight

\* A step that leaves the queue, the resting orders and the exposure alone.
LEMMA QuietStep ==
    ASSUME RiskFree, UNCHANGED <<coreQueue, openOrders, core.exposure>>, IInv
    PROVE  core'.exposure <= core.exposure /\ ~RiskInFlight'
<1>1. core.exposure \in Nat
  BY DEF IInv, TypeOK
<1> QED
  BY <1>1, SMT DEF RiskFree, RiskInFlight

\* Forwarding an action that is no risk-adding order.
LEMMA SendRiskFree ==
    ASSUME IInv, RiskFree, NEW action \in CoreAction, sendRawAction(action),
           action.kind = "order" => action.reduceOnly
    PROVE  core'.exposure <= core.exposure /\ ~RiskInFlight'
<1>1. /\ core' = core /\ openOrders' = openOrders
      /\ coreQueue' = Append(coreQueue, action)
      /\ coreQueue \in Seq(CoreAction)
      /\ core.exposure \in Nat
  BY DEF sendRawAction, IInv, TypeOK
<1>2. ASSUME NEW i \in 1..Len(coreQueue')
      PROVE  ~(coreQueue'[i].kind = "order" /\ ~coreQueue'[i].reduceOnly)
  <2>1. Len(coreQueue') = Len(coreQueue) + 1 /\ Len(coreQueue) \in Nat
    BY <1>1
  <2>2. CASE i = Len(coreQueue) + 1
    BY <1>1, <2>1, <2>2
  <2>3. CASE i \in 1..Len(coreQueue)
    <3>1. coreQueue'[i] = coreQueue[i]
      BY <1>1, <2>3
    <3> QED
      BY <2>3, <3>1 DEF RiskFree, RiskInFlight
  <2> QED
    BY <1>2, <2>1, <2>2, <2>3, SMT
<1>3. ~RiskInFlight'
  BY <1>1, <1>2 DEF RiskFree, RiskInFlight
<1> QED
  BY <1>1, <1>3, SMT

\* What the controller and the agent can forward while the vault is not ACTIVE.
LEMMA TradeRiskFree ==
    ASSUME IInv, RiskFree, NEW sender \in Addresses, tradeNext(sender)
    PROVE  core'.exposure <= core.exposure /\ ~RiskInFlight'
<1>1. core.spot + core.perp \in Nat
  BY SMT DEF IInv, TypeOK
<1>2. CASE \E action \in CoreAction :
             sendRawAction(action) /\ (action.kind = "order" => action.reduceOnly)
  BY <1>2, SendRiskFree
<1>3. CASE \E amount \in 1..usdc["vault"] : depositUsdcToHyperCore(sender, amount)
  <2>1. UNCHANGED <<coreQueue, openOrders, core.exposure>>
    BY <1>3 DEF depositUsdcToHyperCore, IInv, TypeOK
  <2> QED
    BY <2>1, QuietStep
<1>4. ASSUME NEW amount \in 1..(core.spot + core.perp), NEW toPerp \in BOOLEAN,
             sendUsdClassTransfer(sender, amount, toPerp)
      PROVE  \E action \in CoreAction :
                sendRawAction(action) /\ (action.kind = "order" => action.reduceOnly)
  <2>1. amount \in Nat
    BY <1>1
  <2> QED
    BY <1>4, <2>1 DEF sendUsdClassTransfer, CoreAction
<1>5. ASSUME NEW amount \in 1..(core.spot + core.perp), NEW toEvm \in BOOLEAN,
             sendHyperCoreSpot(sender, toEvm, amount)
      PROVE  \E action \in CoreAction :
                sendRawAction(action) /\ (action.kind = "order" => action.reduceOnly)
  <2>1. amount \in Nat
    BY <1>1
  <2> QED
    BY <1>5, <2>1 DEF sendHyperCoreSpot, CoreAction
<1>6. ASSUME NEW cloid \in Cloids, NEW reduceOnly \in BOOLEAN,
             placeHyperCoreLimitOrder(sender, cloid, reduceOnly)
      PROVE  \E action \in CoreAction :
                sendRawAction(action) /\ (action.kind = "order" => action.reduceOnly)
  <2>1. reduceOnly
    BY <1>6 DEF placeHyperCoreLimitOrder, requireOrderPlacementAllowed, RiskFree
  <2> DEFINE order == [kind |-> "order", cloid |-> cloid, reduceOnly |-> reduceOnly]
  <2>2. order \in CoreAction
    BY DEF CoreAction
  <2>3. order.reduceOnly
    BY <2>1
  <2>4. sendRawAction(order)
    BY <1>6 DEF placeHyperCoreLimitOrder
  <2> HIDE DEF order
  <2> QED
    BY <2>2, <2>3, <2>4
<1>7. ASSUME NEW cloid \in Cloids, cancelHyperCoreOrder(sender, cloid)
      PROVE  \E action \in CoreAction :
                sendRawAction(action) /\ (action.kind = "order" => action.reduceOnly)
  BY <1>7 DEF cancelHyperCoreOrder, CoreAction
<1> QED
  BY <1>2, <1>3, <1>4, <1>5, <1>6, <1>7 DEF tradeNext

\* HyperCore executes what was forwarded: only reduce-only orders come to rest.
LEMMA ExecuteRiskFree ==
    ASSUME IInv, RiskFree, hyperCoreExecute
    PROVE  core'.exposure <= core.exposure /\ ~RiskInFlight'
<1> DEFINE action == Head(coreQueue)
<1>1. /\ coreQueue \in Seq(CoreAction) /\ coreQueue # <<>>
      /\ core \in [spot : Nat, perp : Nat, exposure : Nat]
  BY DEF IInv, TypeOK, hyperCoreExecute
<1>2. /\ core' = CoreMove(action)
      /\ coreQueue' = Tail(coreQueue)
  BY DEF hyperCoreExecute
<1>3. Len(coreQueue) \in Nat /\ 1 \in 1..Len(coreQueue) /\ action = coreQueue[1]
  BY <1>1
<1>4. ~(action.kind = "order" /\ ~action.reduceOnly)
  BY <1>3 DEF RiskFree, RiskInFlight
<1>5. \A o \in openOrders' : o.reduceOnly
  BY <1>4 DEF hyperCoreExecute, RiskFree, RiskInFlight
<1>6. ASSUME NEW i \in 1..Len(coreQueue')
      PROVE  ~(coreQueue'[i].kind = "order" /\ ~coreQueue'[i].reduceOnly)
  <2>1. i + 1 \in 1..Len(coreQueue) /\ coreQueue'[i] = coreQueue[i + 1]
    BY <1>1, <1>2, <1>6
  <2> QED
    BY <2>1 DEF RiskFree, RiskInFlight
<1>7. core'.exposure = core.exposure
  BY <1>1, <1>2 DEF CoreMove
<1>8. core'.exposure <= core.exposure
  BY <1>1, <1>7, SMT
<1> QED
  BY <1>5, <1>6, <1>8 DEF RiskInFlight

\* A fill of a reduce-only order lowers the exposure or leaves it.
LEMMA FillRiskFree ==
    ASSUME IInv, RiskFree, NEW order \in openOrders, hyperCoreFill(order)
    PROVE  core'.exposure <= core.exposure /\ ~RiskInFlight'
<1>1. order.reduceOnly
  BY DEF RiskFree, RiskInFlight
<1>2. core \in [spot : Nat, perp : Nat, exposure : Nat]
  BY DEF IInv, TypeOK
<1>3. PICK delta \in {-1, 0} : core' = [core EXCEPT !.exposure = @ + delta]
  BY <1>1 DEF hyperCoreFill
<1>4. core'.exposure <= core.exposure
  BY <1>2, <1>3, SMT
<1>5. coreQueue' = coreQueue /\ openOrders' \subseteq openOrders
  BY DEF hyperCoreFill
<1>6. ~RiskInFlight'
  BY <1>5 DEF RiskFree, RiskInFlight
<1> QED
  BY <1>4, <1>6

\* No step leads out of the risk-free states except activate().
LEMMA NextRiskFree ==
    ASSUME IInv, RiskFree, [Next]_botVaultVars
    PROVE  core'.exposure <= core.exposure /\ ~RiskInFlight'
<1>1. CASE \E from \in {"beneficiary", "public"} : \E amount \in 1..usdc[from] : fund(from, amount)
  BY <1>1, QuietStep DEF fund, coreVars
<1>2. ASSUME NEW sender \in Addresses, controlNext(sender) \/ payoutNext(sender)
      PROVE  UNCHANGED coreVars
  BY <1>2 DEF controlNext, setController, setAgentWallet, activate, pause, setCloseOnly,
              changeStatus, payoutNext, claimProfit, closeVault, recoverClosedFunds, payout
<1>3. CASE \E sender \in Addresses : senderNext(sender)
  BY <1>2, <1>3, QuietStep, TradeRiskFree DEF senderNext, coreVars
<1>4. CASE \E delta \in {-1, 1} : hyperCorePnl(delta)
  <2>1. UNCHANGED <<coreQueue, openOrders, core.exposure>>
    BY <1>4 DEF hyperCorePnl, IInv, TypeOK
  <2> QED
    BY <2>1, QuietStep
<1>5. CASE hyperCoreNext
  BY <1>4, <1>5, ExecuteRiskFree, FillRiskFree DEF hyperCoreNext
<1>6. CASE UNCHANGED botVaultVars
  BY <1>6, QuietStep DEF botVaultVars, coreVars
<1> QED
  BY <1>1, <1>3, <1>5, <1>6 DEF Next

-----------------------------------------------------------------------------
(* Theorems *)

\* In every state the vault reaches, all parts of the invariant hold.
THEOREM Invariance == Spec => []IInv
BY InitIInv, NextIInv, PTL DEF Spec

\* The vault's state has its type in every reachable state: in particular no
\* sequence of payouts and transfers drives a balance below zero, and CLOSED
\* is never entered.
THEOREM TypeCorrect == Spec => []TypeOK
<1>1. IInv => TypeOK
  BY DEF IInv
<1> QED
  BY <1>1, Invariance, PTL

\* For any fee rates and any mix of claimProfit, closeVault and
\* recoverClosedFunds, principal booked as returned was deposited before and
\* reached the beneficiary undiminished by fees.
THEOREM PrincipalSafe == Spec => []PrincipalReachesBeneficiary
<1>1. IInv => PrincipalReachesBeneficiary
  BY DEF IInv
<1> QED
  BY <1>1, Invariance, PTL

\* For any fee rates and any sequence of reported PnL, no profit pays the
\* profit share twice and rounding never favours the platform.
THEOREM FeesBounded == Spec => []FeesWithinHighWaterMark
<1>1. IInv => FeesWithinHighWaterMark
  BY DEF IInv
<1> QED
  BY <1>1, Invariance, PTL

\* For any fee rates the split between treasury, affiliate and beneficiary is
\* exact and conserves USDC.
THEOREM PayoutsExact == Spec => []PayoutsBalance
<1>1. IInv => PayoutsBalance
  BY DEF IInv
<1> QED
  BY <1>1, Invariance, PTL

\* For any queue length, any order ids and any interleaving of the controller,
\* the agent and HyperCore: without activate(), a vault whose risk-adding orders
\* are gone never takes on exposure again.
THEOREM ExposureSafe == Spec => RiskOnlyFromActive
<1>1. IInv /\ [Next]_botVaultVars
        => [(status # "ACTIVE" /\ ~RiskInFlight)
              => (core'.exposure <= core.exposure /\ ~RiskInFlight')]_botVaultVars
  BY NextRiskFree DEF RiskFree
<1> QED
  BY <1>1, Invariance, PTL DEF Spec, RiskOnlyFromActive
=============================================================================
