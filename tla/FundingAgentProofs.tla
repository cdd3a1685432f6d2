------------------------- MODULE FundingAgentProofs -------------------------
(***************************************************************************)
(* Proofs about FundingAgent, for any number of calls, requests and        *)
(* repeated sends: the backend and the chain together implement the        *)
(* specification of the funding vault, a request moves money at most once, *)
(* and a confirmed row is true of the chain.                               *)
(*                                                                         *)
(* Nothing the rows say is needed for the first two: a transaction that    *)
(* takes effect consumes its action id on chain, so an action id that was  *)
(* executed is used and the next transaction under it reverts.  The third  *)
(* rests on where a hash comes from: whatever row holds it, and whichever  *)
(* job read it, it is a transaction of that row's own request or, for a    *)
(* refill of a funded vault, one that is not a withdrawal.                 *)
(***************************************************************************)
EXTENDS FundingAgent, FundingVaultV1Proofs

ActionStatus == {"none", "prepared", "submitted", "failed", "confirmed"}

SeenRow == [id : ActionIds, txHash : Nat]

AgentTypeOK ==
    /\ request \in [ActionIds -> Requests]
    /\ action \in [ActionIds -> [status : ActionStatus, txHash : Nat]]
    /\ pc \in [Calls -> {"start", "send", "sent", "failing"}]
    /\ submittedTxHash \in [Calls -> Nat]
    /\ sent \in Seq(ActionIds)
    /\ Len(sent) <= MaxSends
    /\ mempool \subseteq 1..Len(sent)
    /\ executed \subseteq 1..Len(sent)
    /\ indexed \subseteq SeenRow
    /\ reconciling \subseteq SeenRow

ExecutedIsUsed == \A hash \in executed : sent[hash] \in usedActionIds

ExecutedReached == \A hash \in executed : Reached(sent[hash])

\* A transaction sent for the request.
Own(a, hash) == hash \in 1..Len(sent) /\ sent[hash] = a

\* A transaction the reconciliation may have linked to a refill.
Linked(a, hash) ==
    /\ request[a].op = "fund" /\ deployed /\ fundingConfirmed
    /\ \/ hash = ForeignTx
       \/ hash \in 1..Len(sent) /\ request[sent[hash]].op # "withdraw"

Holds(a, hash) == Own(a, hash) \/ Linked(a, hash)

RowsHold == \A a \in ActionIds : action[a].txHash # 0 => Holds(a, action[a].txHash)

CallsHold == \A c \in Calls : submittedTxHash[c] # 0 => Own(CallKey[c], submittedTxHash[c])

IndexedHold == \A row \in indexed : row.txHash # 0 /\ Holds(row.id, row.txHash)

ReconcilingHold ==
    \A row \in reconciling :
        /\ row.txHash # 0 => Holds(row.id, row.txHash)
        /\ \/ request[row.id].op = "launch" /\ deployed /\ row.txHash # 0
           \/ request[row.id].op = "fund" /\ deployed /\ fundingConfirmed

HashInv == RowsHold /\ CallsHold /\ IndexedHold /\ ReconcilingHold

AgentInv ==
    /\ AgentTypeOK
    /\ ExecutedIsUsed
    /\ MovedAtMostOnce
    /\ ExecutedReached
    /\ HashInv
    /\ ConfirmedMatchesChain

-----------------------------------------------------------------------------
(* Steps of the funding vault. *)

\* A transaction of the operator that takes effect is a step of the vault and
\* consumes its action id.
LEMMA PerformIsOperatorStep ==
    ASSUME AgentTypeOK, IInv, NEW a \in ActionIds, perform(a, InitOperator)
    PROVE  operatorNext /\ a \notin usedActionIds /\ usedActionIds' = usedActionIds \cup {a}
<1> DEFINE amount == request[a].amount
<1>1. amount \in Nat \ {0} /\ usdc["beneficiary"] \in Nat
  BY RequestAssumption, Balances DEF AgentTypeOK, Accounts
<1> HIDE DEF amount
<1>2. CASE launchBotVault(InitOperator, amount, a)
  <2>1. amount <= usdc["beneficiary"]
    BY <1>2 DEF launchBotVault, fundBotVault, fund
  <2> QED
    BY <1>1, <1>2, <2>1, OperatorAssumption DEF operatorNext, launchBotVault, consumeActionId
<1>3. CASE fundExistingBotVault(InitOperator, amount, a)
  <2>1. amount <= usdc["beneficiary"]
    BY <1>3 DEF fundExistingBotVault, fundBotVault, fund
  <2> QED
    BY <1>1, <1>3, <2>1, OperatorAssumption
    DEF operatorNext, fundExistingBotVault, consumeActionId
<1>4. CASE operatorWithdrawToOwner(InitOperator, amount, a)
  <2>1. amount <= usdc["beneficiary"]
    BY <1>4 DEF operatorWithdrawToOwner, withdrawToOwner, move
  <2> QED
    BY <1>1, <1>4, <2>1, OperatorAssumption
    DEF operatorNext, operatorWithdrawToOwner, consumeActionId
<1> QED
  BY <1>2, <1>3, <1>4 DEF perform, amount

\* Owner, public, bot vault and HyperCore use no action ids.
LEMMA EnvironmentKeepsIds ==
    ASSUME environmentNext
    PROVE  usedActionIds' = usedActionIds
BY DEF environmentNext, deposit, ownerWithdraw, setOperator, setOperatorPaused, createBotVault,
   fundingVaultVars

\* The steps of the service and of the jobs: everything but the blocks and the
\* environment.
serviceNext == (\E c \in Calls : callNext(c)) \/ indexerNext \/ reconciliationNext

\* Service and jobs only talk to the chain through transactions, and a request
\* is fixed.
LEMMA ServiceLeavesVaultAlone ==
    ASSUME serviceNext
    PROVE  UNCHANGED <<botVaultVars, fundingVaultVars>> /\ executed' = executed
BY DEF serviceNext, callNext, buildAction, sendTransaction, sendTransactionFails,
   recordSubmitted, recordFailed, crash, indexerNext, pollSubmitted, confirmFromFactory,
   followReceipt, skipRow, indexerHandles, reconciliationNext, readUnconfirmed,
   expireFundingIntent, confirmReconciled, skipReconciled, recoverFundingTxHash,
   confirmUnhashed, jobStep, networkUnchanged, broadcast

\* What a step does to the vault.
LEMMA VaultStep ==
    ASSUME AgentTypeOK, IInv, [AgentNext]_systemVars
    PROVE  [FundingVaultNext]_<<botVaultVars, fundingVaultVars>>
<1>1. CASE serviceNext
  BY <1>1, ServiceLeavesVaultAlone
<1>2. ASSUME NEW hash \in mempool, mine(hash)
      PROVE  [FundingVaultNext]_<<botVaultVars, fundingVaultVars>>
  <2>1. sent[hash] \in ActionIds
    BY DEF AgentTypeOK
  <2> QED
    BY <1>2, <2>1, PerformIsOperatorStep DEF mine, FundingVaultNext
<1>3. CASE environmentNext
  BY <1>3 DEF FundingVaultNext
<1>4. CASE UNCHANGED systemVars
  BY <1>4 DEF systemVars
<1> QED
  BY <1>1, <1>2, <1>3, <1>4 DEF AgentNext, serviceNext

LEMMA VaultInvStep ==
    ASSUME AgentTypeOK, IInv, [AgentNext]_systemVars
    PROVE  IInv'
BY VaultStep, EnvironmentStep, OperatorStep, UntouchedStep DEF FundingVaultNext

-----------------------------------------------------------------------------
(* What only grows: the transactions sent and executed, and what the vault *)
(* and the factory show. *)

Grows ==
    /\ request' = request
    /\ Len(sent) <= Len(sent')
    /\ \A i \in 1..Len(sent) : sent'[i] = sent[i]
    /\ executed \subseteq executed'
    /\ deployed => deployed'
    /\ fundingConfirmed => fundingConfirmed'

\* A vault is never undeployed, its status never returns to DEPLOYED, and its
\* principal never shrinks.
LEMMA VaultGrows ==
    ASSUME IInv, [FundingVaultNext]_<<botVaultVars, fundingVaultVars>>
    PROVE  (deployed => deployed') /\ (fundingConfirmed => fundingConfirmed')
<1> USE DEF fundingConfirmed
<1>1. principalDeposited \in Nat /\ status \in Status
  BY Balances DEF IInv, TypeOK
<1>2. ASSUME NEW from, NEW amount, fund(from, amount)
      PROVE  fundingConfirmed'
  BY <1>2 DEF fund, Status
<1>3. ASSUME NEW from, NEW to, NEW amount, move(from, to, amount)
      PROVE  deployed' = deployed /\ (fundingConfirmed => fundingConfirmed')
  BY <1>3 DEF move, accountVars
<1>4. ASSUME NEW sender \in Addresses, controlNext(sender)
      PROVE  fundingConfirmed => fundingConfirmed'
  BY <1>4 DEF controlNext, setController, setAgentWallet, activate, pause, setCloseOnly,
         changeStatus, accountVars
<1>5. ASSUME NEW sender \in Addresses, payoutNext(sender)
      PROVE  fundingConfirmed => fundingConfirmed'
  BY <1>5 DEF payoutNext, claimProfit, closeVault, recoverClosedFunds, payout
<1>6. ASSUME NEW sender \in Addresses, tradeNext(sender)
      PROVE  fundingConfirmed => fundingConfirmed'
  BY <1>6 DEF tradeNext, sendUsdClassTransfer, sendHyperCoreSpot, depositUsdcToHyperCore,
         placeHyperCoreLimitOrder, cancelHyperCoreOrder, sendRawAction, accountVars
<1>7. ASSUME hyperCoreNext
      PROVE  fundingConfirmed => fundingConfirmed'
  BY <1>7 DEF hyperCoreNext, hyperCoreExecute, hyperCoreFill, hyperCorePnl, accountVars
<1>8. CASE environmentNext
  <2>1. CASE \/ \E from \in {"owner", "public"} : \E amount \in 1..usdc[from] : deposit(from, amount)
             \/ \E amount \in 1..usdc["beneficiary"] : ownerWithdraw(amount)
    BY <1>3, <2>1 DEF deposit, ownerWithdraw
  <2>2. CASE \/ \E next \in Operators : setOperator(next)
             \/ \E paused \in BOOLEAN : setOperatorPaused(paused)
             \/ createBotVault
    BY <2>2 DEF setOperator, setOperatorPaused, createBotVault, botVaultVars, accountVars
  <2>3. CASE /\ \/ \E amount \in 1..usdc["public"] : fund("public", amount)
                \/ \E sender \in Addresses : senderNext(sender)
                \/ hyperCoreNext
             /\ UNCHANGED fundingVaultVars
    <3>1. deployed' = deployed
      BY <2>3 DEF fundingVaultVars
    <3>2. fundingConfirmed => fundingConfirmed'
      BY <1>2, <1>4, <1>5, <1>6, <1>7, <2>3 DEF senderNext
    <3> QED
      BY <3>1, <3>2
  <2> QED
    BY <1>8, <2>1, <2>2, <2>3 DEF environmentNext
<1>9. CASE operatorNext
  <2>1. PICK sender \in Operators, actionId \in ActionIds, amount \in 1..usdc["beneficiary"] :
          \/ operatorWithdrawToOwner(sender, amount, actionId)
          \/ launchBotVault(sender, amount, actionId)
          \/ fundExistingBotVault(sender, amount, actionId)
    BY <1>9 DEF operatorNext
  <2>2. CASE operatorWithdrawToOwner(sender, amount, actionId)
    BY <1>3, <2>2 DEF operatorWithdrawToOwner, withdrawToOwner
  <2>3. CASE launchBotVault(sender, amount, actionId) \/ fundExistingBotVault(sender, amount, actionId)
    <3>1. fund("beneficiary", amount) /\ (deployed => deployed')
      BY <2>3 DEF launchBotVault, fundExistingBotVault, fundBotVault
    <3> QED
      BY <1>2, <3>1
  <2> QED
    BY <2>1, <2>2, <2>3
<1>10. CASE UNCHANGED <<botVaultVars, fundingVaultVars>>
  BY <1>10 DEF botVaultVars, fundingVaultVars, accountVars
<1> QED
  BY <1>8, <1>9, <1>10 DEF FundingVaultNext

LEMMA GrowsStep ==
    ASSUME AgentTypeOK, IInv, [AgentNext]_systemVars
    PROVE  Grows
<1>1. (deployed => deployed') /\ (fundingConfirmed => fundingConfirmed')
  BY VaultStep, VaultGrows
<1>2. CASE UNCHANGED <<request, sent, executed>>
  BY <1>1, <1>2 DEF Grows, AgentTypeOK
<1>3. ASSUME NEW a \in ActionIds, broadcast(a)
      PROVE  Grows
  BY <1>1, <1>3 DEF Grows, AgentTypeOK, broadcast
<1>4. ASSUME NEW c \in Calls, callNext(c)
      PROVE  Grows
  BY <1>2, <1>3, <1>4, RequestAssumption DEF callNext, buildAction, sendTransaction,
     sendTransactionFails, recordSubmitted, recordFailed, crash, networkUnchanged
<1>5. CASE indexerNext \/ reconciliationNext
  BY <1>2, <1>5 DEF indexerNext, pollSubmitted, confirmFromFactory, followReceipt, skipRow,
     indexerHandles, reconciliationNext, readUnconfirmed, expireFundingIntent,
     confirmReconciled, skipReconciled, recoverFundingTxHash, confirmUnhashed, jobStep,
     networkUnchanged
<1>6. ASSUME NEW hash \in mempool, mine(hash)
      PROVE  Grows
  BY <1>1, <1>6 DEF mine, Grows, AgentTypeOK
<1>7. CASE UNCHANGED agentVars
  BY <1>2, <1>7 DEF agentVars
<1> QED
  BY <1>4, <1>5, <1>6, <1>7 DEF AgentNext, systemVars

\* What a request reached stays reached, and a hash keeps its standing.
LEMMA Stable ==
    ASSUME AgentTypeOK, Grows, NEW a \in ActionIds, NEW hash \in Nat
    PROVE  /\ Reached(a) => Reached(a)'
           /\ Own(a, hash) => Own(a, hash)'
           /\ Holds(a, hash) => Holds(a, hash)'
<1> USE DEF AgentTypeOK, Grows
<1>1. Reached(a) => Reached(a)'
  BY DEF Reached
<1>2. Own(a, hash) => Own(a, hash)'
  BY DEF Own
<1>3. Linked(a, hash) => Linked(a, hash)'
  BY DEF Linked, ForeignTx
<1> QED
  BY <1>1, <1>2, <1>3 DEF Holds

-----------------------------------------------------------------------------
(* The types. *)

LEMMA AgentInit_Inv == AgentInit => AgentInv /\ IInv
<1> SUFFICES ASSUME AgentInit PROVE AgentInv /\ IInv
  OBVIOUS
<1>1. AgentTypeOK
  BY RequestAssumption DEF AgentInit, AgentTypeOK, ActionStatus
<1>2. ExecutedIsUsed /\ MovedAtMostOnce /\ ExecutedReached /\ ConfirmedMatchesChain
  BY DEF AgentInit, ExecutedIsUsed, MovedAtMostOnce, ExecutedReached, ConfirmedMatchesChain
<1>3. HashInv
  BY DEF AgentInit, HashInv, RowsHold, CallsHold, IndexedHold, ReconcilingHold
<1>4. IInv
  BY InitIInv DEF AgentInit, FundingVaultInit
<1> QED
  BY <1>1, <1>2, <1>3, <1>4 DEF AgentInv

LEMMA ConfirmType ==
    ASSUME AgentTypeOK, NEW hash, markActionConfirmedByTxHash(hash)
    PROVE  action' \in [ActionIds -> [status : ActionStatus, txHash : Nat]]
BY DEF AgentTypeOK, ActionStatus, markActionConfirmedByTxHash

LEMMA CallTypeStep ==
    ASSUME AgentTypeOK, NEW c \in Calls, callNext(c)
    PROVE  AgentTypeOK'
<1> USE RequestAssumption DEF AgentTypeOK, ActionStatus, step, finish, networkUnchanged, jobVars
<1> DEFINE a == CallKey[c]
<1>0. a \in ActionIds
  OBVIOUS
<1> HIDE DEF a
<1>1. CASE buildAction(c)
  <2>1. PICK s \in ActionStatus : action' = [action EXCEPT ![a].status = s]
    BY <1>1 DEF buildAction, a
  <2>2. action' \in [ActionIds -> [status : ActionStatus, txHash : Nat]]
    BY <1>0, <2>1
  <2> QED
    BY <1>1, <2>2 DEF buildAction
<1>2. CASE sendTransaction(c) \/ sendTransactionFails(c)
  <2>1. /\ action' = action /\ indexed' = indexed /\ reconciling' = reconciling
        /\ pc' \in [Calls -> {"start", "send", "sent", "failing"}]
        /\ submittedTxHash' \in [Calls -> Nat]
    <3>1. CASE sendTransaction(c)
      <4>1. Len(sent) + 1 \in Nat
        OBVIOUS
      <4> QED
        BY <3>1, <4>1 DEF sendTransaction
    <3>2. CASE sendTransactionFails(c)
      BY <3>2 DEF sendTransactionFails
    <3> QED
      BY <1>2, <3>1, <3>2
  <2>2. CASE broadcast(a)
    <3>1. sent' = Append(sent, a) /\ Len(sent) < MaxSends
      BY <2>2 DEF broadcast
    <3>2. sent' \in Seq(ActionIds) /\ Len(sent') = Len(sent) + 1 /\ Len(sent) \in Nat
      BY <1>0, <3>1
    <3>3. Len(sent') <= MaxSends
      BY <3>1, <3>2
    <3>4. mempool' \subseteq 1..Len(sent') /\ executed' \subseteq 1..Len(sent')
      <4>1. mempool' = mempool \cup {Len(sent) + 1} /\ executed' = executed
        BY <2>2 DEF broadcast
      <4>2. \A i \in 1..Len(sent) : i \in 1..Len(sent')
        BY <3>2
      <4>3. Len(sent) + 1 \in 1..Len(sent')
        BY <3>2
      <4>4. mempool \subseteq 1..Len(sent) /\ executed \subseteq 1..Len(sent)
        OBVIOUS
      <4> HIDE DEF AgentTypeOK
      <4> QED
        BY <4>1, <4>2, <4>3, <4>4, Zenon
    <3>5. request' = request
      BY <2>2 DEF broadcast
    <3> QED
      BY <2>1, <3>2, <3>3, <3>4, <3>5
  <2>3. CASE networkUnchanged
    BY <2>1, <2>3
  <2> QED
    BY <1>2, <2>2, <2>3 DEF sendTransaction, sendTransactionFails, a
<1>3. CASE recordSubmitted(c)
  <2>1. action' \in [ActionIds -> [status : ActionStatus, txHash : Nat]]
    BY <1>0, <1>3 DEF recordSubmitted, a
  <2> QED
    BY <1>3, <2>1 DEF recordSubmitted
<1>4. CASE recordFailed(c)
  <2>1. action' \in [ActionIds -> [status : ActionStatus, txHash : Nat]]
    BY <1>0, <1>4 DEF recordFailed, a
  <2> QED
    BY <1>4, <2>1 DEF recordFailed
<1>5. CASE crash(c)
  BY <1>5 DEF crash
<1> QED
  BY <1>1, <1>2, <1>3, <1>4, <1>5 DEF callNext

LEMMA JobTypeStep ==
    ASSUME AgentTypeOK, indexerNext \/ reconciliationNext
    PROVE  AgentTypeOK'
<1> DEFINE Rows == [ActionIds -> [status : ActionStatus, txHash : Nat]]
<1>1. CASE jobStep /\ action' \in Rows /\ indexed' \subseteq SeenRow /\ reconciling' \subseteq SeenRow
  BY <1>1 DEF AgentTypeOK, jobStep, callVars, networkUnchanged
<1>2. action \in Rows /\ indexed \subseteq SeenRow /\ reconciling \subseteq SeenRow
  BY DEF AgentTypeOK
<1>3. \A a \in ActionIds : rowOf(a) \in SeenRow
  BY <1>2 DEF rowOf, SeenRow
<1>4. CASE pollSubmitted
  BY <1>1, <1>2, <1>3, <1>4 DEF pollSubmitted
<1>5. ASSUME NEW row \in indexed, confirmFromFactory(row) \/ followReceipt(row) \/ skipRow(row)
      PROVE  AgentTypeOK'
  <2>1. row.id \in ActionIds /\ row.txHash \in Nat
    BY <1>2 DEF SeenRow
  <2>2. ASSUME markActionFailed(row.id, row.txHash)
        PROVE  action' \in Rows
    BY <1>2, <2>1, <2>2 DEF markActionFailed, ActionStatus
  <2>3. action' \in Rows
    BY <1>2, <1>5, <2>2, ConfirmType DEF confirmFromFactory, followReceipt, skipRow
  <2>4. jobStep /\ indexed' \subseteq SeenRow /\ reconciling' \subseteq SeenRow
    BY <1>2, <1>5 DEF confirmFromFactory, followReceipt, skipRow, indexerHandles
  <2> QED
    BY <1>1, <2>3, <2>4
<1>6. ASSUME NEW a \in ActionIds, readUnconfirmed(a)
      PROVE  AgentTypeOK'
  BY <1>1, <1>2, <1>3, <1>6 DEF readUnconfirmed
<1>7. ASSUME NEW a \in ActionIds, expireFundingIntent(a)
      PROVE  AgentTypeOK'
  <2>1. action' \in Rows
    BY <1>2, <1>7 DEF expireFundingIntent, ActionStatus
  <2> QED
    BY <1>1, <1>2, <1>7, <2>1 DEF expireFundingIntent, jobVars
<1>8. ASSUME NEW row \in reconciling, confirmReconciled(row) \/ skipReconciled(row)
      PROVE  AgentTypeOK'
  BY <1>1, <1>2, <1>8, ConfirmType DEF confirmReconciled, skipReconciled
<1>9. ASSUME NEW row \in reconciling, NEW hash \in fundingTransactions(row.id),
             recoverFundingTxHash(row, hash)
      PROVE  AgentTypeOK'
  <2>1. row.id \in ActionIds
    BY <1>2 DEF SeenRow
  <2>2. hash \in Nat
    BY RequestAssumption DEF fundingTransactions, AgentTypeOK, ForeignTx
  <2>3. action' \in Rows
    BY <1>2, <1>9, <2>1, <2>2 DEF recoverFundingTxHash, ActionStatus
  <2>4. jobStep /\ indexed' \subseteq SeenRow /\ reconciling' \subseteq SeenRow
    BY <1>2, <1>9, <2>1, <2>2 DEF recoverFundingTxHash, SeenRow
  <2> QED
    BY <1>1, <2>3, <2>4
<1>10. CASE confirmUnhashed
  <2>1. action' \in Rows
    BY <1>2, <1>10 DEF confirmUnhashed, ActionStatus
  <2> QED
    BY <1>1, <1>2, <1>10, <2>1 DEF confirmUnhashed, jobVars
<1> QED
  BY <1>4, <1>5, <1>6, <1>7, <1>8, <1>9, <1>10 DEF indexerNext, reconciliationNext

LEMMA AgentTypeStep ==
    ASSUME AgentTypeOK, [AgentNext]_systemVars
    PROVE  AgentTypeOK'
<1>1. ASSUME NEW hash \in mempool, mine(hash)
      PROVE  AgentTypeOK'
  BY <1>1 DEF mine, AgentTypeOK, callVars, jobVars
<1>2. CASE UNCHANGED agentVars
  BY <1>2 DEF agentVars, AgentTypeOK, callVars, jobVars
<1> QED
  BY <1>1, <1>2, CallTypeStep, JobTypeStep DEF AgentNext, systemVars

-----------------------------------------------------------------------------
(* The transactions. *)

LEMMA UsedStep ==
    ASSUME AgentTypeOK, IInv, ExecutedIsUsed, MovedAtMostOnce, [AgentNext]_systemVars
    PROVE  ExecutedIsUsed' /\ MovedAtMostOnce'
<1>0. Grows
  BY GrowsStep
<1>1. CASE executed' = executed /\ usedActionIds \subseteq usedActionIds'
  BY <1>0, <1>1 DEF ExecutedIsUsed, MovedAtMostOnce, Grows, AgentTypeOK
<1>2. CASE serviceNext
  BY <1>1, <1>2, ServiceLeavesVaultAlone DEF fundingVaultVars
<1>3. ASSUME NEW hash \in mempool, mine(hash)
      PROVE  ExecutedIsUsed' /\ MovedAtMostOnce'
  <2>0. sent[hash] \in ActionIds /\ sent' = sent
    BY <1>3 DEF AgentTypeOK, mine
  <2>1. CASE perform(sent[hash], InitOperator) /\ executed' = executed \cup {hash}
    <3>1. sent[hash] \notin usedActionIds /\ usedActionIds' = usedActionIds \cup {sent[hash]}
      BY <2>0, <2>1, PerformIsOperatorStep
    <3>2. \A h \in executed : sent[h] # sent[hash]
      BY <3>1 DEF ExecutedIsUsed
    <3> QED
      BY <2>0, <2>1, <3>1, <3>2 DEF ExecutedIsUsed, MovedAtMostOnce
  <2>2. CASE UNCHANGED <<botVaultVars, fundingVaultVars, executed>>
    BY <1>1, <2>2 DEF fundingVaultVars
  <2> QED
    BY <1>3, <2>1, <2>2 DEF mine
<1>4. CASE environmentNext /\ UNCHANGED agentVars
  BY <1>1, <1>4, EnvironmentKeepsIds DEF agentVars
<1>5. CASE UNCHANGED systemVars
  BY <1>1, <1>5 DEF systemVars, agentVars, fundingVaultVars
<1> QED
  BY <1>2, <1>3, <1>4, <1>5 DEF AgentNext, serviceNext

\* A transaction that takes effect brings about what its request asked for.
LEMMA ReachedStep ==
    ASSUME AgentTypeOK, IInv, ExecutedReached, [AgentNext]_systemVars
    PROVE  ExecutedReached'
<1>0. Grows
  BY GrowsStep
<1>1. \A hash \in executed : sent'[hash] = sent[hash] /\ Reached(sent[hash])'
  <2> SUFFICES ASSUME NEW hash \in executed
               PROVE  sent'[hash] = sent[hash] /\ Reached(sent[hash])'
    OBVIOUS
  <2>1. sent[hash] \in ActionIds /\ sent'[hash] = sent[hash]
    BY <1>0 DEF AgentTypeOK, Grows
  <2> QED
    BY <1>0, <2>1, Stable DEF ExecutedReached
<1>2. CASE executed' = executed
  BY <1>1, <1>2 DEF ExecutedReached, Reached
<1>3. ASSUME NEW hash \in mempool, mine(hash), executed' # executed
      PROVE  ExecutedReached'
  <2>1. /\ perform(sent[hash], InitOperator)
        /\ executed' = executed \cup {hash} /\ sent' = sent /\ request' = request
    BY <1>3 DEF mine
  <2>2. sent[hash] \in ActionIds
    BY DEF AgentTypeOK
  <2>3. request[sent[hash]].amount \in Nat \ {0} /\ principalDeposited \in Nat
    BY <2>2, RequestAssumption, Balances DEF AgentTypeOK
  <2>4. request[sent[hash]].op \in {"launch", "fund"} => deployed' /\ fundingConfirmed'
    BY <2>1, <2>3 DEF perform, launchBotVault, fundExistingBotVault, fundBotVault, fund,
       fundingConfirmed
  <2>5. Reached(sent[hash])'
    BY <2>1, <2>4 DEF Reached
  <2> QED
    BY <1>1, <2>1, <2>5 DEF ExecutedReached, Reached
<1>4. CASE serviceNext
  BY <1>2, <1>4, ServiceLeavesVaultAlone
<1>5. CASE UNCHANGED agentVars
  BY <1>2, <1>5 DEF agentVars
<1> QED
  BY <1>2, <1>3, <1>4, <1>5 DEF AgentNext, serviceNext, systemVars

-----------------------------------------------------------------------------
(* The rows.  Whoever writes one, the hash it gets is one it may hold, and it *)
(* is confirmed only when its request has been reached. *)

RowWrite ==
    \A a \in ActionIds :
        /\ action'[a].txHash # 0 => Holds(a, action'[a].txHash)
        /\ action'[a].status = "confirmed" => Reached(a)

\* Whoever holds the hash of a successful transaction has reached its request.
LEMMA SuccessReached ==
    ASSUME AgentTypeOK, ExecutedReached, NEW a \in ActionIds, NEW hash,
           Holds(a, hash), isReceiptSuccessful(hash)
    PROVE  Reached(a)
<1>1. CASE Own(a, hash)
  <2>1. hash # ForeignTx
    BY <1>1, RequestAssumption DEF Own, AgentTypeOK, ForeignTx
  <2> QED
    BY <1>1, <2>1 DEF Own, isReceiptSuccessful, ExecutedReached
<1>2. CASE Linked(a, hash)
  BY <1>2 DEF Linked, Reached
<1> QED
  BY <1>1, <1>2 DEF Holds

\* A launch of a bot that has a vault: nobody else holds its hash but a refill
\* of the funded vault.
LEMMA LaunchReached ==
    ASSUME AgentTypeOK, NEW a \in ActionIds, NEW b \in ActionIds, NEW hash,
           Holds(a, hash), Holds(b, hash), request[b].op = "launch", deployed
    PROVE  Reached(a)
<1>1. Own(b, hash)
  BY DEF Holds, Linked
<1>2. CASE Own(a, hash)
  BY <1>1, <1>2 DEF Own, Reached
<1>3. CASE Linked(a, hash)
  BY <1>3 DEF Linked, Reached
<1> QED
  BY <1>2, <1>3 DEF Holds

\* A refill of a funded vault: no withdrawal holds the hash it holds.
LEMMA RefillReached ==
    ASSUME AgentTypeOK, NEW a \in ActionIds, NEW b \in ActionIds, NEW hash,
           Holds(a, hash), Holds(b, hash), request[b].op = "fund", deployed, fundingConfirmed
    PROVE  Reached(a)
<1>1. CASE Linked(a, hash)
  BY <1>1 DEF Linked, Reached
<1>2. CASE Own(a, hash) /\ Own(b, hash)
  BY <1>2 DEF Own, Reached
<1>3. CASE Own(a, hash) /\ Linked(b, hash)
  <2>1. hash # ForeignTx
    BY <1>3, RequestAssumption DEF Own, AgentTypeOK, ForeignTx
  <2>2. request[a].op # "withdraw"
    BY <1>3, <2>1 DEF Own, Linked
  <2> QED
    BY <2>2 DEF Reached
<1> QED
  BY <1>1, <1>2, <1>3 DEF Holds

\* Rows that are left alone.
LEMMA KeepRow ==
    ASSUME RowsHold, ConfirmedMatchesChain, NEW a \in ActionIds, action'[a] = action[a]
    PROVE  /\ action'[a].txHash # 0 => Holds(a, action'[a].txHash)
           /\ action'[a].status = "confirmed" => Reached(a)
BY DEF RowsHold, ConfirmedMatchesChain

LEMMA ConfirmWrites ==
    ASSUME AgentTypeOK, RowsHold, ConfirmedMatchesChain, NEW hash,
           markActionConfirmedByTxHash(hash), hash # 0,
           \A a \in ActionIds : Holds(a, hash) => Reached(a)
    PROVE  RowWrite
<1> SUFFICES ASSUME NEW a \in ActionIds
             PROVE  /\ action'[a].txHash # 0 => Holds(a, action'[a].txHash)
                    /\ action'[a].status = "confirmed" => Reached(a)
  BY DEF RowWrite
<1>1. CASE action[a].txHash # hash
  BY <1>1, KeepRow DEF markActionConfirmedByTxHash
<1>2. CASE action[a].txHash = hash
  <2>1. action'[a].txHash = hash
    BY <1>2 DEF markActionConfirmedByTxHash, AgentTypeOK
  <2> QED
    BY <1>2, <2>1 DEF RowsHold
<1> QED
  BY <1>1, <1>2

LEMMA CallWrites ==
    ASSUME AgentTypeOK, RowsHold, CallsHold, ConfirmedMatchesChain, NEW c \in Calls, callNext(c)
    PROVE  RowWrite
<1>0. CallKey[c] \in ActionIds
  BY RequestAssumption
<1>1. CASE buildAction(c) \/ recordFailed(c)
  <2>1. \A a \in ActionIds : /\ action'[a].txHash = action[a].txHash
                             /\ action'[a].status = "confirmed" => action[a].status = "confirmed"
    <3>1. CASE buildAction(c)
      BY <1>0, <3>1 DEF buildAction, AgentTypeOK
    <3>2. CASE recordFailed(c)
      BY <1>0, <3>2 DEF recordFailed, AgentTypeOK
    <3> QED
      BY <1>1, <3>1, <3>2
  <2> QED
    BY <2>1 DEF RowWrite, RowsHold, ConfirmedMatchesChain
<1>2. CASE recordSubmitted(c)
  <2>1. \A a \in ActionIds : action'[a] = IF a = CallKey[c]
          THEN [status |-> "submitted", txHash |-> submittedTxHash[c]] ELSE action[a]
    BY <1>0, <1>2 DEF recordSubmitted, AgentTypeOK
  <2> QED
    BY <2>1 DEF RowWrite, RowsHold, CallsHold, Holds, ConfirmedMatchesChain
<1>3. CASE action' = action
  BY <1>3 DEF RowWrite, RowsHold, ConfirmedMatchesChain
<1> QED
  BY <1>1, <1>2, <1>3 DEF callNext, sendTransaction, sendTransactionFails, crash

LEMMA IndexerWrites ==
    ASSUME AgentTypeOK, ExecutedReached, HashInv, ConfirmedMatchesChain, indexerNext
    PROVE  RowWrite
<1> USE DEF HashInv
<1>1. CASE action' = action
  BY <1>1 DEF RowWrite, RowsHold, ConfirmedMatchesChain
<1>2. ASSUME NEW row \in indexed, confirmFromFactory(row) \/ followReceipt(row)
      PROVE  RowWrite
  <2>1. /\ row.id \in ActionIds /\ row.txHash \in Nat /\ row.txHash # 0
        /\ Holds(row.id, row.txHash)
    BY DEF AgentTypeOK, SeenRow, IndexedHold
  <2>2. CASE confirmFromFactory(row)
    <3>1. \A a \in ActionIds : Holds(a, row.txHash) => Reached(a)
      BY <2>1, <2>2, LaunchReached DEF confirmFromFactory
    <3> QED
      BY <2>1, <2>2, <3>1, ConfirmWrites DEF confirmFromFactory
  <2>3. CASE isReceiptSuccessful(row.txHash) /\ markActionConfirmedByTxHash(row.txHash)
    <3>1. \A a \in ActionIds : Holds(a, row.txHash) => Reached(a)
      BY <2>3, SuccessReached
    <3> QED
      BY <2>1, <2>3, <3>1, ConfirmWrites
  <2>4. CASE markActionFailed(row.id, row.txHash)
    <3>1. \A a \in ActionIds : a # row.id => action'[a] = action[a]
      BY <2>1, <2>4 DEF markActionFailed, AgentTypeOK
    <3>2. /\ action'[row.id].txHash = row.txHash
          /\ action'[row.id].status = "confirmed" => action[row.id].status = "confirmed"
      BY <2>1, <2>4 DEF markActionFailed, AgentTypeOK
    <3> QED
      BY <2>1, <3>1, <3>2 DEF RowWrite, RowsHold, ConfirmedMatchesChain
  <2> QED
    BY <1>2, <2>2, <2>3, <2>4 DEF followReceipt
<1> QED
  BY <1>1, <1>2 DEF indexerNext, pollSubmitted, skipRow

LEMMA ReconciliationWrites ==
    ASSUME AgentTypeOK, ExecutedReached, HashInv, ConfirmedMatchesChain, reconciliationNext
    PROVE  RowWrite
<1> USE DEF HashInv
<1>1. CASE action' = action
  BY <1>1 DEF RowWrite, RowsHold, ConfirmedMatchesChain
<1>2. ASSUME NEW row \in reconciling, confirmReconciled(row)
      PROVE  RowWrite
  <2>1. row.id \in ActionIds /\ row.txHash # 0 /\ Holds(row.id, row.txHash)
    BY <1>2 DEF AgentTypeOK, SeenRow, ReconcilingHold, confirmReconciled
  <2>2. \A a \in ActionIds : Holds(a, row.txHash) => Reached(a)
    BY <2>1, LaunchReached, RefillReached DEF ReconcilingHold
  <2> QED
    BY <1>2, <2>1, <2>2, ConfirmWrites DEF confirmReconciled
<1>3. ASSUME NEW row \in reconciling, NEW hash \in fundingTransactions(row.id),
             recoverFundingTxHash(row, hash), action' # action
      PROVE  RowWrite
  <2>1. row.id \in ActionIds /\ Linked(row.id, hash)
    BY <1>3 DEF AgentTypeOK, SeenRow, ReconcilingHold, recoverFundingTxHash, fundingTransactions,
       Linked
  <2>2. \A a \in ActionIds : a # row.id => action'[a] = action[a]
    BY <1>3, <2>1 DEF recoverFundingTxHash, AgentTypeOK
  <2>3. /\ action'[row.id].txHash = hash
        /\ action'[row.id].status = "confirmed" => action[row.id].status = "confirmed"
    BY <1>3, <2>1 DEF recoverFundingTxHash, AgentTypeOK
  <2> QED
    BY <2>1, <2>2, <2>3 DEF RowWrite, RowsHold, ConfirmedMatchesChain, Holds
<1>4. CASE confirmUnhashed
  <2> SUFFICES ASSUME NEW a \in ActionIds
               PROVE  /\ action'[a].txHash # 0 => Holds(a, action'[a].txHash)
                      /\ action'[a].status = "confirmed" => Reached(a)
    BY DEF RowWrite
  <2>1. CASE request[a].op = "fund" /\ action[a].txHash = 0 /\ action'[a].txHash = action[a].txHash
    BY <1>4, <2>1 DEF confirmUnhashed, Reached
  <2>2. CASE action'[a] = action[a]
    BY <2>2, KeepRow
  <2> QED
    BY <1>4, <2>1, <2>2 DEF confirmUnhashed, AgentTypeOK
<1>5. ASSUME NEW b \in ActionIds, expireFundingIntent(b)
      PROVE  RowWrite
  <2>1. \A a \in ActionIds : /\ action'[a].txHash = action[a].txHash
                             /\ action'[a].status = "confirmed" => action[a].status = "confirmed"
    BY <1>5 DEF expireFundingIntent, AgentTypeOK
  <2> QED
    BY <2>1 DEF RowWrite, RowsHold, ConfirmedMatchesChain
<1> QED
  BY <1>1, <1>2, <1>3, <1>4, <1>5 DEF reconciliationNext, readUnconfirmed, skipReconciled

LEMMA RowsStep ==
    ASSUME AgentInv, IInv, [AgentNext]_systemVars
    PROVE  RowsHold' /\ ConfirmedMatchesChain'
<1> USE DEF AgentInv, HashInv
<1>1. RowWrite
  <2>1. CASE action' = action
    BY <2>1 DEF RowWrite, RowsHold, ConfirmedMatchesChain
  <2> QED
    BY <2>1, CallWrites, IndexerWrites, ReconciliationWrites
    DEF AgentNext, mine, agentVars, systemVars
<1>2. Grows /\ AgentTypeOK'
  BY GrowsStep, AgentTypeStep
<1>3. \A a \in ActionIds : action'[a].txHash \in Nat
  BY <1>2 DEF AgentTypeOK
<1> QED
  BY <1>1, <1>2, <1>3, Stable DEF RowWrite, RowsHold, ConfirmedMatchesChain

\* The hashes calls and jobs carry between their steps.
LEMMA CarriedStep ==
    ASSUME AgentInv, IInv, [AgentNext]_systemVars
    PROVE  CallsHold' /\ IndexedHold' /\ ReconcilingHold'
<1> USE DEF AgentInv, HashInv
<1>1. Grows
  BY GrowsStep
<1> DEFINE OwnNext(c, hash) == hash # 0 => hash \in 1..Len(sent') /\ sent'[hash] = CallKey[c]
<1>2. \A c \in Calls : OwnNext(c, submittedTxHash[c])
  BY <1>1 DEF CallsHold, Own, AgentTypeOK, Grows
<1>2a. ASSUME \A c \in Calls : OwnNext(c, submittedTxHash'[c])
       PROVE  CallsHold'
  BY <1>2a DEF CallsHold, Own
<1> HIDE DEF OwnNext
<1>3. ASSUME NEW row \in SeenRow, Holds(row.id, row.txHash)
      PROVE  Holds(row.id, row.txHash)'
  BY <1>1, <1>3, Stable DEF SeenRow
<1>4. ASSUME indexed' \subseteq indexed
      PROVE  IndexedHold'
  BY <1>3, <1>4 DEF IndexedHold, AgentTypeOK
<1>5. ASSUME NEW row \in SeenRow,
             row.txHash # 0 => Holds(row.id, row.txHash),
             \/ request[row.id].op = "launch" /\ deployed /\ row.txHash # 0
             \/ request[row.id].op = "fund" /\ deployed /\ fundingConfirmed,
             reconciling' = {row}
      PROVE  ReconcilingHold'
  BY <1>1, <1>3, <1>5 DEF ReconcilingHold, Grows
<1>6. ASSUME reconciling' \subseteq reconciling
      PROVE  ReconcilingHold'
  BY <1>1, <1>3, <1>6 DEF ReconcilingHold, Grows, AgentTypeOK
<1>7. ASSUME submittedTxHash' = submittedTxHash
      PROVE  CallsHold'
  BY <1>2, <1>2a, <1>7
<1>8. ASSUME NEW c \in Calls, callNext(c)
      PROVE  CallsHold' /\ IndexedHold' /\ ReconcilingHold'
  <2>1. indexed' = indexed /\ reconciling' = reconciling
    BY <1>8 DEF callNext, buildAction, sendTransaction, sendTransactionFails, recordSubmitted,
       recordFailed, crash, jobVars
  <2>2. CASE sendTransaction(c)
    <3>1. /\ \A d \in Calls : d # c => submittedTxHash'[d] = submittedTxHash[d]
          /\ submittedTxHash'[c] = Len(sent) + 1
      BY <2>2 DEF sendTransaction, AgentTypeOK
    <3>2. sent' = Append(sent, CallKey[c]) /\ CallKey[c] \in ActionIds
      BY <2>2, RequestAssumption DEF sendTransaction, broadcast
    <3>3. OwnNext(c, Len(sent) + 1)
      BY <3>2 DEF OwnNext, AgentTypeOK
    <3>4. \A d \in Calls : OwnNext(d, submittedTxHash'[d])
      BY <1>2, <3>1, <3>3
    <3> QED
      BY <1>2a, <1>4, <1>6, <2>1, <3>4
  <2>3. CASE finish(c)
    <3>1. \A d \in Calls : submittedTxHash'[d] = IF d = c THEN 0 ELSE submittedTxHash[d]
      BY <2>3 DEF finish, AgentTypeOK
    <3>2. OwnNext(c, 0)
      BY DEF OwnNext
    <3>3. \A d \in Calls : OwnNext(d, submittedTxHash'[d])
      BY <1>2, <3>1, <3>2
    <3> QED
      BY <1>2a, <1>4, <1>6, <2>1, <3>3
  <2> QED
    BY <1>4, <1>6, <1>7, <1>8, <2>1, <2>2, <2>3
    DEF callNext, buildAction, sendTransactionFails, recordSubmitted, recordFailed, crash
<1>9. CASE indexerNext
  <2>1. submittedTxHash' = submittedTxHash /\ reconciling' = reconciling
    BY <1>9 DEF indexerNext, pollSubmitted, confirmFromFactory, followReceipt, skipRow,
       indexerHandles, jobStep, callVars
  <2>2. CASE pollSubmitted
    <3>1. \A row \in indexed' : row \in SeenRow /\ row.txHash # 0 /\ Holds(row.id, row.txHash)
      BY <2>2 DEF pollSubmitted, rowOf, SeenRow, RowsHold, AgentTypeOK
    <3> QED
      BY <1>3, <1>6, <1>7, <2>1, <3>1 DEF IndexedHold
  <2>3. CASE indexed' \subseteq indexed
    BY <1>4, <1>6, <1>7, <2>1, <2>3
  <2> QED
    BY <1>9, <2>2, <2>3 DEF indexerNext, confirmFromFactory, followReceipt, skipRow, indexerHandles
<1>10. CASE reconciliationNext
  <2>1. submittedTxHash' = submittedTxHash /\ indexed' = indexed
    BY <1>10 DEF reconciliationNext, readUnconfirmed, expireFundingIntent, confirmReconciled,
       skipReconciled, recoverFundingTxHash, confirmUnhashed, jobStep, callVars, jobVars
  <2>2. ASSUME NEW a \in ActionIds, readUnconfirmed(a)
        PROVE  ReconcilingHold'
    <3>1. rowOf(a) \in SeenRow /\ rowOf(a).id = a /\ rowOf(a).txHash = action[a].txHash
      BY DEF rowOf, SeenRow, AgentTypeOK
    <3> QED
      BY <1>5, <2>2, <3>1 DEF readUnconfirmed, RowsHold
  <2>3. ASSUME NEW row \in reconciling, NEW hash \in fundingTransactions(row.id),
               recoverFundingTxHash(row, hash)
        PROVE  ReconcilingHold'
    <3>1. /\ row.id \in ActionIds /\ Linked(row.id, hash) /\ request[row.id].op = "fund"
          /\ deployed /\ fundingConfirmed
      BY <2>3 DEF AgentTypeOK, SeenRow, ReconcilingHold, recoverFundingTxHash,
         fundingTransactions, Linked
    <3>2. hash \in Nat
      BY RequestAssumption DEF fundingTransactions, AgentTypeOK, ForeignTx
    <3>3. [id |-> row.id, txHash |-> hash] \in SeenRow
      BY <3>1, <3>2 DEF SeenRow
    <3> QED
      BY <1>5, <2>3, <3>1, <3>3 DEF recoverFundingTxHash, Holds
  <2>4. ReconcilingHold'
    BY <1>6, <1>10, <2>2, <2>3 DEF reconciliationNext, expireFundingIntent,
       confirmReconciled, skipReconciled, confirmUnhashed, jobVars
  <2> QED
    BY <1>4, <1>7, <2>1, <2>4
<1>11. CASE UNCHANGED <<callVars, jobVars>>
  BY <1>4, <1>6, <1>7, <1>11 DEF callVars, jobVars
<1> QED
  BY <1>8, <1>9, <1>10, <1>11 DEF AgentNext, mine, agentVars, systemVars

-----------------------------------------------------------------------------
\* The inductive invariant of backend, jobs and chain holds in every reachable
\* state.
THEOREM AgentInvariance == AgentSpec => [](AgentInv /\ IInv)
<1>1. AgentInit => AgentInv /\ IInv
  BY AgentInit_Inv
<1>2. (AgentInv /\ IInv) /\ [AgentNext]_systemVars => (AgentInv /\ IInv)'
  BY AgentTypeStep, UsedStep, ReachedStep, RowsStep, CarriedStep, VaultInvStep
  DEF AgentInv, HashInv
<1> QED
  BY <1>1, <1>2, PTL DEF AgentSpec

\* However the backend sends, loses, repeats and records, the chain only makes
\* steps the funding vault specification allows.
THEOREM AgentImplementsVault == AgentSpec => FundingVaultSpec
<1>1. AgentInit => FundingVaultInit
  BY DEF AgentInit
<1>2. AgentInv /\ IInv /\ [AgentNext]_systemVars
        => [FundingVaultNext]_<<botVaultVars, fundingVaultVars>>
  BY VaultStep DEF AgentInv
<1> QED
  BY <1>1, <1>2, AgentInvariance, PTL DEF AgentSpec, FundingVaultSpec

\* With the backend in place as well, what leaves the funding vault is with the
\* owner or booked as principal.
THEOREM AgentOutflowsSafe == AgentSpec => OutflowsStayWithOwner
BY AgentImplementsVault, OutflowsSafe, PTL

\* The money of a request moves at most once, for any number of concurrent
\* calls, lost answers, crashes and retries.
THEOREM MovesOnce == AgentSpec => []MovedAtMostOnce
<1>1. AgentInv => MovedAtMostOnce
  BY DEF AgentInv
<1> QED
  BY <1>1, AgentInvariance, PTL

\* Whatever the jobs read before rows changed, a confirmed withdrawal was paid
\* by its own transaction, a confirmed launch has its vault, and a confirmed
\* refill a funded one.
THEOREM ConfirmedTrue == AgentSpec => []ConfirmedMatchesChain
<1>1. AgentInv => ConfirmedMatchesChain
  BY DEF AgentInv
<1> QED
  BY <1>1, AgentInvariance, PTL
=============================================================================
