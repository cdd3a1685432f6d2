---------------------------- MODULE FundingAgent ----------------------------
(***************************************************************************)
(* The backend that signs for the operator (sendAgentAction of             *)
(* fundingVault.service.ts) on top of the FundingVaultV1 contract, and the *)
(* two jobs that follow its transactions: the indexer and the              *)
(* reconciliation of the bot vault.                                        *)
(*                                                                         *)
(* A request is identified by its action key: the row of OnchainAction is  *)
(* unique by it and the on-chain action id is derived from it.  Calls of   *)
(* the service for one key may run concurrently (a double click, a retry   *)
(* while the first is still waiting), the RPC may lose its answer after    *)
(* broadcasting, and the process may die between broadcast and update.     *)
(* Both jobs read rows first and write later, by the hash they read.       *)
(*                                                                         *)
(* A transaction hash is its place in the order of broadcasts; 0 is null.  *)
(* Only the service reports hashes for these rows: submit-tx and fail-tx   *)
(* serve the transactions a user signs with a wallet of their own.         *)
(***************************************************************************)
EXTENDS FundingVaultV1

CONSTANTS
    Calls,              \* invocations of the service
    CallKey,            \* the action id each invocation asks for
    Requests,           \* what may be asked for: operation and amount
    MaxSends            \* bound: transactions broadcast

ASSUME RequestAssumption ==
    /\ CallKey \in [Calls -> ActionIds]
    /\ Requests \subseteq [op : {"launch", "fund", "withdraw"}, amount : Nat \ {0}]
    /\ MaxSends \in Nat

VARIABLES
    request,            \* what each action id stands for, fixed by its first call
    action,             \* row of OnchainAction per action id: status and txHash
    pc,                 \* where each invocation is
    submittedTxHash,    \* the hash each invocation got back, 0 for null
    sent,               \* the action id of every transaction broadcast
    mempool,            \* hashes not mined yet
    executed,           \* hashes mined with effect
    indexed,            \* rows the indexer read and has not handled yet
    reconciling         \* the row the reconciliation read, if any

callVars == <<pc, submittedTxHash>>
jobVars == <<indexed, reconciling>>
agentVars == <<request, action, callVars, sent, mempool, executed, jobVars>>
systemVars == <<botVaultVars, fundingVaultVars, agentVars>>

\* A stranger's transaction that funded the bot vault.
ForeignTx == MaxSends + 1

\* What the jobs keep of a row.
rowOf(a) == [id |-> a, txHash |-> action[a].txHash]

AgentInit ==
    /\ FundingVaultInit
    /\ request \in [ActionIds -> Requests]
    /\ action = [a \in ActionIds |-> [status |-> "none", txHash |-> 0]]
    /\ pc = [c \in Calls |-> "start"]
    /\ submittedTxHash = [c \in Calls |-> 0]
    /\ sent = <<>>
    /\ mempool = {}
    /\ executed = {}
    /\ indexed = {}
    /\ reconciling = {}

step(c, to) == pc' = [pc EXCEPT ![c] = to]

\* The invocation returns or throws; the key may be asked for again.
finish(c) ==
    /\ step(c, "start")
    /\ submittedTxHash' = [submittedTxHash EXCEPT ![c] = 0]

networkUnchanged == UNCHANGED <<botVaultVars, fundingVaultVars, request, sent, mempool, executed>>

broadcast(a) ==
    /\ Len(sent) < MaxSends
    /\ sent' = Append(sent, a)
    /\ mempool' = mempool \cup {Len(sent) + 1}
    /\ UNCHANGED <<botVaultVars, fundingVaultVars, request, executed>>

-----------------------------------------------------------------------------
\* buildAction: find the row or create it "prepared"; a submitted row answers
\* the call without sending.
buildAction(c) ==
    LET a == CallKey[c] IN
    /\ pc[c] = "start"
    /\ action' = [action EXCEPT ![a].status = IF @ = "none" THEN "prepared" ELSE @]
    /\ step(c, IF action[a].status = "submitted" /\ action[a].txHash # 0
               THEN "start" ELSE "send")
    /\ UNCHANGED <<submittedTxHash, jobVars>>
    /\ networkUnchanged

\* walletClient.sendTransaction reached a node and returned the hash.
sendTransaction(c) ==
    /\ pc[c] = "send"
    /\ broadcast(CallKey[c])
    /\ submittedTxHash' = [submittedTxHash EXCEPT ![c] = Len(sent) + 1]
    /\ step(c, "sent")
    /\ UNCHANGED <<action, jobVars>>

\* requireAgentExecutionContext or sendTransaction threw: in the second case
\* the node may have accepted the transaction and only its answer was lost.
sendTransactionFails(c) ==
    /\ pc[c] = "send"
    /\ networkUnchanged \/ broadcast(CallKey[c])
    /\ step(c, "failing")
    /\ UNCHANGED <<action, submittedTxHash, jobVars>>

\* txHash is unique: the update throws when another row holds the hash.
recordSubmitted(c) ==
    /\ pc[c] = "sent"
    /\ \A a \in ActionIds \ {CallKey[c]} : action[a].txHash # submittedTxHash[c]
    /\ action' = [action EXCEPT ![CallKey[c]] =
                    [status |-> "submitted", txHash |-> submittedTxHash[c]]]
    /\ finish(c)
    /\ UNCHANGED jobVars
    /\ networkUnchanged

\* The catch block leaves the hash of an earlier transaction in the row.
recordFailed(c) ==
    /\ pc[c] = "failing"
    /\ action' = [action EXCEPT ![CallKey[c]].status = "failed"]
    /\ finish(c)
    /\ UNCHANGED jobVars
    /\ networkUnchanged

\* The process dies, or the update of the row throws.
crash(c) ==
    /\ pc[c] \in {"send", "sent", "failing"}
    /\ finish(c)
    /\ UNCHANGED <<action, jobVars>>
    /\ networkUnchanged

-----------------------------------------------------------------------------
(* The jobs *)

jobStep == UNCHANGED callVars /\ networkUnchanged

\* One updateMany: every row that still holds the hash.
markActionConfirmedByTxHash(hash) ==
    action' = [a \in ActionIds |->
                 IF action[a].txHash = hash THEN [action[a] EXCEPT !.status = "confirmed"]
                 ELSE action[a]]

\* By row id; the hash that was read replaces the one the row holds by now.
markActionFailed(a, hash) ==
    action' = [action EXCEPT ![a] =
                 [status |-> IF action[a].status = "confirmed" THEN "confirmed" ELSE "failed",
                  txHash |-> hash]]

\* A cycle of the indexer reads the submitted rows and handles them one by one.
pollSubmitted ==
    /\ indexed = {}
    /\ indexed' = {rowOf(a) : a \in {b \in ActionIds : action[b].status = "submitted"
                                                         /\ action[b].txHash # 0}}
    /\ UNCHANGED <<action, reconciling>>
    /\ jobStep

indexerHandles(row) ==
    /\ row \in indexed
    /\ indexed' = indexed \ {row}
    /\ UNCHANGED reconciling
    /\ jobStep

\* The factory knows a vault for the bot: a launch row is confirmed without a
\* look at the receipt of its transaction.
confirmFromFactory(row) ==
    /\ indexerHandles(row)
    /\ request[row.id].op = "launch"
    /\ deployed
    /\ markActionConfirmedByTxHash(row.txHash)

isReceiptSuccessful(hash) == hash \in executed \/ hash = ForeignTx

\* Mutant: every receipt counts as a success.
followReceipt_anyStatus(row) ==
    /\ indexerHandles(row)
    /\ row.txHash \notin mempool
    /\ markActionConfirmedByTxHash(row.txHash)

\* The receipt is there.  Also for a launch whose factory read failed.
followReceipt(row) ==
    /\ indexerHandles(row)
    /\ row.txHash \notin mempool
    /\ \/ isReceiptSuccessful(row.txHash) /\ markActionConfirmedByTxHash(row.txHash)
       \/ ~isReceiptSuccessful(row.txHash) /\ markActionFailed(row.id, row.txHash)

\* The receipt is pending, an RPC call or the database failed, or the rest of
\* the cycle is given up because of a rate limit.
skipRow(row) ==
    /\ indexerHandles(row)
    /\ UNCHANGED action

-----------------------------------------------------------------------------
\* v3FundingConfirmed: the vault's status or its principal.
fundingConfirmed == status # "DEPLOYED" \/ principalDeposited > 0

\* Mutant: an open refill is taken up whatever the vault's state.
readUnconfirmed_unfunded(a) ==
    /\ reconciling = {}
    /\ deployed
    /\ request[a].op \in {"launch", "fund"}
    /\ action[a].status \in {"prepared", "submitted", "failed"}
    /\ reconciling' = {rowOf(a)}
    /\ UNCHANGED <<action, indexed>>
    /\ jobStep

\* The reconciliation reads the state of the deployed vault and then a row of
\* it: a submitted launch, or, once the vault is funded, an open refill.
readUnconfirmed(a) ==
    /\ reconciling = {}
    /\ deployed
    /\ \/ request[a].op = "launch" /\ action[a].status = "submitted" /\ action[a].txHash # 0
       \/ /\ request[a].op = "fund" /\ fundingConfirmed
          /\ action[a].status \in {"prepared", "submitted", "failed"}
    /\ reconciling' = {rowOf(a)}
    /\ UNCHANGED <<action, indexed>>
    /\ jobStep

confirmReconciled(row) ==
    /\ row \in reconciling
    /\ row.txHash # 0
    /\ markActionConfirmedByTxHash(row.txHash)
    /\ reconciling' = {}
    /\ UNCHANGED indexed
    /\ jobStep

\* Transactions with a Funded event of the amount a refill asks for: the
\* operator's, or a stranger's.
fundingTransactions(a) ==
    {hash \in executed : /\ request[sent[hash]].op \in {"launch", "fund"}
                         /\ request[sent[hash]].amount = request[a].amount}
      \cup {ForeignTx}

\* The refill has no hash: recoverBotVaultV3FundingTxHash picks one from the
\* vault's events and submitActionTxHash links it, unless another row holds it.
recoverFundingTxHash(row, hash) ==
    /\ row \in reconciling
    /\ row.txHash = 0
    /\ hash \in fundingTransactions(row.id)
    /\ IF \E b \in ActionIds \ {row.id} : action[b].txHash = hash
       THEN UNCHANGED action
       ELSE action' = [action EXCEPT ![row.id] =
              [status |-> IF action[row.id].status = "confirmed" THEN "confirmed" ELSE "submitted",
               txHash |-> hash]]
    /\ reconciling' = {[id |-> row.id, txHash |-> hash]}
    /\ UNCHANGED indexed
    /\ jobStep

\* Nothing was found, or a call failed.
skipReconciled(row) ==
    /\ row \in reconciling
    /\ reconciling' = {}
    /\ UNCHANGED <<action, indexed>>
    /\ jobStep

\* A funded vault confirms every refill without a hash.
confirmUnhashed ==
    /\ deployed /\ fundingConfirmed
    /\ action' = [a \in ActionIds |->
                    IF /\ request[a].op = "fund" /\ action[a].txHash = 0
                       /\ action[a].status \in {"prepared", "submitted", "failed"}
                    THEN [action[a] EXCEPT !.status = "confirmed"] ELSE action[a]]
    /\ UNCHANGED jobVars
    /\ jobStep

\* The intent to fund timed out; that the vault is unfunded was read before, it
\* may be funded by now.
expireFundingIntent(a) ==
    /\ deployed
    /\ request[a].op = "fund"
    /\ action[a].status \in {"prepared", "submitted"}
    /\ action' = [action EXCEPT ![a].status = "failed"]
    /\ UNCHANGED jobVars
    /\ jobStep

-----------------------------------------------------------------------------
perform(a, sender) ==
    LET r == request[a] IN
    \/ r.op = "launch" /\ launchBotVault(sender, r.amount, a)
    \/ r.op = "fund" /\ fundExistingBotVault(sender, r.amount, a)
    \/ r.op = "withdraw" /\ operatorWithdrawToOwner(sender, r.amount, a)

\* Some require of the call fails.
reverts(a) == ~ENABLED perform(a, InitOperator)

\* A block includes a transaction: it takes effect, or reverts and changes
\* nothing.
mine(hash) ==
    /\ hash \in mempool
    /\ mempool' = mempool \ {hash}
    /\ \/ /\ perform(sent[hash], InitOperator)
          /\ executed' = executed \cup {hash}
       \/ /\ reverts(sent[hash])
          /\ UNCHANGED <<botVaultVars, fundingVaultVars, executed>>
    /\ UNCHANGED <<request, action, callVars, sent, jobVars>>

callNext(c) ==
    \/ buildAction(c) \/ sendTransaction(c) \/ sendTransactionFails(c)
    \/ recordSubmitted(c) \/ recordFailed(c) \/ crash(c)

indexerNext ==
    \/ pollSubmitted
    \/ \E row \in indexed : confirmFromFactory(row) \/ followReceipt(row) \/ skipRow(row)

reconciliationNext ==
    \/ \E a \in ActionIds : readUnconfirmed(a) \/ expireFundingIntent(a)
    \/ \E row \in reconciling :
        \/ confirmReconciled(row) \/ skipReconciled(row)
        \/ \E hash \in fundingTransactions(row.id) : recoverFundingTxHash(row, hash)
    \/ confirmUnhashed

AgentNext ==
    \/ \E c \in Calls : callNext(c)
    \/ indexerNext
    \/ reconciliationNext
    \/ \E hash \in mempool : mine(hash)
    \/ environmentNext /\ UNCHANGED agentVars

AgentSpec == AgentInit /\ [][AgentNext]_systemVars

-----------------------------------------------------------------------------
\* However often a request is sent, lost, repeated or mined, its money moves at
\* most once: at most one of the transactions sent under an action id takes
\* effect, whatever the rows say in the meantime.
MovedAtMostOnce ==
    \A h1, h2 \in executed : sent[h1] = sent[h2] => h1 = h2

\* What the request asked for is so on the chain: the withdrawal was paid by
\* one of its own transactions, the bot to launch has a vault, the vault to
\* refill holds principal.
Reached(a) ==
    /\ request[a].op = "withdraw" => \E hash \in executed : sent[hash] = a
    /\ request[a].op = "launch" => deployed
    /\ request[a].op = "fund" => deployed /\ fundingConfirmed

\* A confirmed row is true of the chain, although the jobs confirm by hashes
\* read earlier, by the factory's state and by the vault's, and rows change
\* their hash meanwhile.  A launch or a refill need not have moved its own
\* money: another transaction may have created or funded the vault.
ConfirmedMatchesChain ==
    \A a \in ActionIds : action[a].status = "confirmed" => Reached(a)
=============================================================================
