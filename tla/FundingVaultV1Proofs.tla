------------------------ MODULE FundingVaultV1Proofs ------------------------
(***************************************************************************)
(* Proofs about FundingVaultV1: the invariant of the bot vault survives    *)
(* the composition with the funding vault, and with it the funding vault's *)
(* outflow rule holds for all constants.                                   *)
(***************************************************************************)
EXTENDS FundingVaultV1, BotVaultV4Proofs

allVars == <<botVaultVars, fundingVaultVars>>

\* What OutflowsStayWithOwner asks of one step.
OutflowAccounted ==
    usdc'["beneficiary"] < usdc["beneficiary"]
        => usdc["beneficiary"] - usdc'["beneficiary"]
             = (usdc'["owner"] - usdc["owner"])
               + (principalDeposited' - principalDeposited)

\* The types of the balances, of the books and of the HyperCore account.
LEMMA Balances ==
    ASSUME IInv
    PROVE  /\ usdc \in [Accounts -> Nat]
           /\ principalDeposited \in Nat
           /\ core.spot + core.perp \in Nat
BY BoundAssumption, SMT DEF IInv, TypeOK

\* A step that leaves the funding vault's balance alone, or adds to it.
LEMMA NoOutflow ==
    ASSUME IInv, usdc'["beneficiary"] \in Nat, usdc'["beneficiary"] >= usdc["beneficiary"]
    PROVE  OutflowAccounted
<1>1. usdc["beneficiary"] \in Nat
  BY Balances DEF Accounts
<1> QED
  BY <1>1, SMT DEF OutflowAccounted

\* deposit, ownerWithdraw and operatorWithdrawToOwner.
LEMMA MoveStep ==
    ASSUME IInv, NEW from \in {"owner", "public", "beneficiary"},
           NEW to \in {"owner", "beneficiary"}, from # to,
           NEW amount \in 1..usdc[from], move(from, to, amount)
    PROVE  IInv' /\ OutflowAccounted
<1>1. /\ usdc \in [Accounts -> Nat]
      /\ amount \in Nat
      /\ amount <= usdc[from]
      /\ from \in Accounts /\ to \in Accounts
  BY Balances DEF Accounts
<1>2. /\ usdc' = [usdc EXCEPT ![from] = @ - amount, ![to] = @ + amount]
      /\ UNCHANGED <<status, roleVars, accountVars, coreVars>>
  BY DEF move, transfer
<1>3. /\ usdc' \in [Accounts -> Nat]
      /\ usdc'["coreDepositWallet"] = usdc["coreDepositWallet"]
      /\ usdc'["treasury"] = usdc["treasury"]
      /\ usdc'["affiliate"] = usdc["affiliate"]
      /\ usdc'["vault"] = usdc["vault"]
      /\ usdc'["beneficiary"] + usdc'["owner"] + usdc'["public"]
           = usdc["beneficiary"] + usdc["owner"] + usdc["public"]
  BY <1>1, <1>2, SMT DEF Accounts
<1>4. TypeOK'
  BY <1>2, <1>3 DEF IInv, TypeOK, roleVars, accountVars, coreVars
<1>5. CoreSolvent'
  BY <1>2, <1>3 DEF IInv, CoreSolvent, coreVars
<1>6. PrincipalReachesBeneficiary' /\ FeesWithinHighWaterMark'
  BY <1>2 DEF IInv, PrincipalReachesBeneficiary, FeesWithinHighWaterMark, accountVars
<1>7. PayoutsBalance'
  BY <1>1, <1>2, <1>3, SMT DEF IInv, PayoutsBalance, accountVars, Accounts
<1>8. OutflowAccounted
  <2>1. principalDeposited' - principalDeposited = 0
    BY <1>2, Balances, SMT DEF accountVars
  <2> QED
    BY <1>1, <1>2, <2>1, SMT DEF OutflowAccounted, Accounts
<1> QED
  BY <1>4, <1>5, <1>6, <1>7, <1>8 DEF IInv

\* launchBotVault and fundExistingBotVault book what leaves as principal; what
\* anyone else funds does not touch the funding vault.
LEMMA FundOutflow ==
    ASSUME IInv, NEW from \in {"beneficiary", "public"}, NEW amount \in 1..usdc[from],
           fund(from, amount)
    PROVE  OutflowAccounted
<1>1. /\ usdc \in [Accounts -> Nat]
      /\ principalDeposited \in Nat
      /\ amount \in Nat
  BY Balances DEF Accounts
<1>2. /\ usdc' = [usdc EXCEPT ![from] = @ - amount, !["vault"] = @ + amount]
      /\ principalDeposited' = principalDeposited + amount
  BY DEF fund, transfer
<1> QED
  BY <1>1, <1>2, SMT DEF OutflowAccounted, Accounts

\* A payout of the bot vault pays the funding vault and never draws on it.
LEMMA PayoutOutflow ==
    ASSUME IInv, NEW sender \in Addresses, payoutNext(sender)
    PROVE  OutflowAccounted
<1>1. usdc \in [Accounts -> Nat] /\ usdc["vault"] \in Nat
  BY Balances DEF Accounts
<1>2. PICK gross \in 0..usdc["vault"], pnl \in PnlValues :
        \E fee \in 0..gross, principal \in 0..gross : payout(principal, gross, fee, pnl)
  BY DEF payoutNext, claimProfit, closeVault, recoverClosedFunds
<1>3. PICK fee \in 0..gross, principal \in 0..gross : payout(principal, gross, fee, pnl)
  BY <1>2
<1>4. gross \in Nat /\ fee \in Nat /\ gross - fee \in Nat
  BY <1>1, SMT
<1>5. usdc' = [usdc EXCEPT !["vault"] = @ - gross,
                           !["treasury"] = @ + platformFee(fee),
                           !["affiliate"] = @ + (fee - platformFee(fee)),
                           !["beneficiary"] = @ + (gross - fee)]
  BY <1>3 DEF payout, payoutProfitShare
<1>6. usdc'["beneficiary"] = usdc["beneficiary"] + (gross - fee)
  BY <1>1, <1>5 DEF Accounts
<1>7. usdc["beneficiary"] \in Nat
  BY <1>1 DEF Accounts
<1>8. usdc'["beneficiary"] \in Nat /\ usdc'["beneficiary"] >= usdc["beneficiary"]
  BY <1>4, <1>6, <1>7, SMT
<1> QED
  BY <1>8, NoOutflow

\* Control, trading and HyperCore steps do not touch the funding vault.
LEMMA VaultOutflow ==
    ASSUME IInv,
           \/ \E sender \in Addresses : controlNext(sender) \/ tradeNext(sender)
           \/ hyperCoreNext
    PROVE  OutflowAccounted
<1>1. usdc \in [Accounts -> Nat] /\ usdc["beneficiary"] \in Nat
  BY Balances DEF Accounts
<1>2. ASSUME NEW sender \in Addresses, controlNext(sender)
      PROVE  usdc' = usdc
  BY <1>2 DEF controlNext, setController, setAgentWallet, activate, pause, setCloseOnly, changeStatus
<1>3. ASSUME NEW sender \in Addresses, tradeNext(sender)
      PROVE  usdc'["beneficiary"] = usdc["beneficiary"]
  BY <1>1, <1>3 DEF tradeNext, sendUsdClassTransfer, sendHyperCoreSpot, depositUsdcToHyperCore,
         placeHyperCoreLimitOrder, cancelHyperCoreOrder, sendRawAction, transfer, Accounts
<1>4. ASSUME hyperCoreNext
      PROVE  usdc'["beneficiary"] = usdc["beneficiary"]
  BY <1>1, <1>4 DEF hyperCoreNext, hyperCoreExecute, hyperCoreFill, hyperCorePnl, transfer, Accounts
<1>5. usdc'["beneficiary"] = usdc["beneficiary"]
  BY <1>2, <1>3, <1>4
<1> QED
  BY <1>1, <1>5, NoOutflow, SMT

\* A step that changes neither the bot vault's state nor a balance.
LEMMA UntouchedStep ==
    ASSUME IInv, UNCHANGED botVaultVars
    PROVE  IInv' /\ OutflowAccounted
<1>1. IInv'
  BY NextIInv
<1>2. usdc' = usdc /\ usdc["beneficiary"] \in Nat
  BY Balances DEF botVaultVars, Accounts
<1> QED
  BY <1>1, <1>2, NoOutflow, SMT

\* Steps of the owner, the public, the bot vault and HyperCore.
LEMMA EnvironmentStep ==
    ASSUME IInv, environmentNext
    PROVE  IInv' /\ OutflowAccounted
<1>1. ASSUME NEW from \in {"owner", "public"}, NEW amount \in 1..usdc[from],
             deposit(from, amount)
      PROVE  IInv' /\ OutflowAccounted
  BY <1>1, MoveStep DEF deposit
<1>2. ASSUME NEW amount \in 1..usdc["beneficiary"], ownerWithdraw(amount)
      PROVE  IInv' /\ OutflowAccounted
  BY <1>2, MoveStep DEF ownerWithdraw
<1>3. CASE \/ \E next \in Operators : setOperator(next)
           \/ \E paused \in BOOLEAN : setOperatorPaused(paused)
           \/ createBotVault
  BY <1>3, UntouchedStep DEF setOperator, setOperatorPaused, createBotVault
<1>4. ASSUME NEW amount \in 1..usdc["public"], fund("public", amount)
      PROVE  IInv' /\ OutflowAccounted
  BY <1>4, FundStep, FundOutflow
<1>5. ASSUME NEW sender \in Addresses, senderNext(sender)
      PROVE  IInv' /\ OutflowAccounted
  BY <1>5, NextIInv, PayoutOutflow, VaultOutflow DEF Next, senderNext
<1>6. CASE hyperCoreNext
  BY <1>6, NextIInv, VaultOutflow DEF Next
<1> QED
  BY <1>1, <1>2, <1>3, <1>4, <1>5, <1>6 DEF environmentNext

\* Steps of the operator.
LEMMA OperatorStep ==
    ASSUME IInv, operatorNext
    PROVE  IInv' /\ OutflowAccounted
<1>1. PICK sender \in Operators, actionId \in ActionIds, amount \in 1..usdc["beneficiary"] :
        \/ operatorWithdrawToOwner(sender, amount, actionId)
        \/ launchBotVault(sender, amount, actionId)
        \/ fundExistingBotVault(sender, amount, actionId)
  BY DEF operatorNext
<1>2. CASE operatorWithdrawToOwner(sender, amount, actionId)
  BY <1>2, MoveStep DEF operatorWithdrawToOwner, withdrawToOwner
<1>3. CASE \/ launchBotVault(sender, amount, actionId)
           \/ fundExistingBotVault(sender, amount, actionId)
  <2>1. fund("beneficiary", amount)
    BY <1>3 DEF launchBotVault, fundExistingBotVault, fundBotVault
  <2> QED
    BY <2>1, FundStep, FundOutflow
<1> QED
  BY <1>1, <1>2, <1>3

-----------------------------------------------------------------------------
\* The bot vault keeps its invariant under the funding vault, the owner and the
\* operator: balances stay natural numbers, principal and fees stay exact.
THEOREM ComposedInvariance == FundingVaultSpec => []IInv
<1>1. FundingVaultInit => IInv
  BY InitIInv DEF FundingVaultInit
<1>2. IInv /\ [FundingVaultNext]_allVars => IInv'
  BY EnvironmentStep, OperatorStep, UntouchedStep DEF FundingVaultNext, allVars
<1> QED
  BY <1>1, <1>2, PTL DEF FundingVaultSpec, allVars

\* For any number of operators, action ids and addresses, and any interleaving:
\* what leaves the funding vault is with the owner or booked as principal.
THEOREM OutflowsSafe == FundingVaultSpec => OutflowsStayWithOwner
<1>1. IInv /\ [FundingVaultNext]_allVars => [OutflowAccounted]_allVars
  BY EnvironmentStep, OperatorStep DEF FundingVaultNext
<1> QED
  BY <1>1, ComposedInvariance, PTL
     DEF FundingVaultSpec, OutflowsStayWithOwner, OutflowAccounted, allVars
=============================================================================
