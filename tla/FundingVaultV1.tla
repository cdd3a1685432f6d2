--------------------------- MODULE FundingVaultV1 ---------------------------
(***************************************************************************)
(* One FundingVaultV1 contract, the factory that creates its bot vault,    *)
(* and that bot vault.  The funding vault is the beneficiary of the bot    *)
(* vault, so the account "beneficiary" of BotVaultV4 is the funding        *)
(* vault's balance: principal leaves it through launchBotVault and         *)
(* fundExistingBotVault and comes back through the vault's payouts.        *)
(*                                                                         *)
(* The operator names the bot vault to refill: here it is always the one   *)
(* the factory made for this owner, the only one the backend passes.       *)
(*                                                                         *)
(* The vault variables of BotVaultV4 keep their constructor values until   *)
(* deployed becomes TRUE.  Allowances are not state here: every function   *)
(* that grants one consumes it and resets it in the same transaction.      *)
(***************************************************************************)
EXTENDS BotVaultV4

CONSTANTS
    Operators,          \* agent wallets that may become the operator
    InitOperator,       \* operator_ of the constructor
    ActionIds           \* bytes32 action ids other than bytes32(0)

ASSUME OperatorAssumption == InitOperator \in Operators

VARIABLES
    deployed,           \* vaultOfBot[botId] # address(0)
    operator,
    operatorPaused,
    usedActionIds

fundingVars == <<operator, operatorPaused>>
fundingVaultVars == <<deployed, fundingVars, usedActionIds>>

FundingVaultInit ==
    /\ Init
    /\ deployed = FALSE
    /\ operator = InitOperator
    /\ operatorPaused = FALSE
    /\ usedActionIds = {}

-----------------------------------------------------------------------------
(* USDC moves of the funding vault that leave the bot vault alone *)

move(from, to, amount) ==
    /\ amount > 0
    /\ amount <= usdc[from]
    /\ usdc' = transfer(from, to, amount)
    /\ UNCHANGED <<status, roleVars, accountVars, coreVars, deployed>>

deposit(from, amount) ==
    /\ move(from, "beneficiary", amount)
    /\ UNCHANGED <<fundingVars, usedActionIds>>

\* onlyOwner, lines 74-77.
ownerWithdraw(amount) ==
    /\ move("beneficiary", "owner", amount)
    /\ UNCHANGED <<fundingVars, usedActionIds>>

setOperator(nextOperator) ==
    /\ operator' = nextOperator
    /\ UNCHANGED <<botVaultVars, deployed, operatorPaused, usedActionIds>>

setOperatorPaused(paused) ==
    /\ operatorPaused' = paused
    /\ UNCHANGED <<botVaultVars, deployed, operator, usedActionIds>>

-----------------------------------------------------------------------------
(* Operator calls, each bound to an action id *)

onlyOperatorActive(sender) == sender = operator /\ ~operatorPaused

\* Mutant: the action id is recorded but never checked.
consumeActionId_unchecked(actionId) ==
    /\ usedActionIds' = usedActionIds \cup {actionId}
    /\ UNCHANGED fundingVars

consumeActionId(actionId) ==
    /\ actionId \notin usedActionIds
    /\ usedActionIds' = usedActionIds \cup {actionId}
    /\ UNCHANGED fundingVars

\* Mutant: the operator withdraws to an address of its own.
withdrawToOwner_toSender(amount) == move("beneficiary", "public", amount)

withdrawToOwner(amount) == move("beneficiary", "owner", amount)

operatorWithdrawToOwner(sender, amount, actionId) ==
    /\ onlyOperatorActive(sender)
    /\ consumeActionId(actionId)
    /\ withdrawToOwner(amount)

fundBotVault(amount) == fund("beneficiary", amount)

launchBotVault(sender, amount, actionId) ==
    /\ onlyOperatorActive(sender)
    /\ consumeActionId(actionId)
    /\ InitAgentWallet # NoAddress
    /\ ~deployed
    /\ deployed' = TRUE
    /\ fundBotVault(amount)

fundExistingBotVault(sender, amount, actionId) ==
    /\ onlyOperatorActive(sender)
    /\ consumeActionId(actionId)
    /\ deployed
    /\ fundBotVault(amount)
    /\ UNCHANGED deployed

\* BotVaultFactoryV4.createBotVault called by the owner of the factory.
createBotVault ==
    /\ ~deployed
    /\ deployed' = TRUE
    /\ UNCHANGED <<botVaultVars, fundingVars, usedActionIds>>

-----------------------------------------------------------------------------
\* Steps of the owner, of the public, of the bot vault and of HyperCore.
environmentNext ==
    \/ \E from \in {"owner", "public"} : \E amount \in 1..usdc[from] : deposit(from, amount)
    \/ \E amount \in 1..usdc["beneficiary"] : ownerWithdraw(amount)
    \/ \E next \in Operators : setOperator(next)
    \/ \E paused \in BOOLEAN : setOperatorPaused(paused)
    \/ createBotVault
    \/ /\ deployed
       /\ \/ \E amount \in 1..usdc["public"] : fund("public", amount)
          \/ \E sender \in Addresses : senderNext(sender)
          \/ hyperCoreNext
       /\ UNCHANGED fundingVaultVars

operatorNext ==
    \E sender \in Operators, actionId \in ActionIds, amount \in 1..usdc["beneficiary"] :
        \/ operatorWithdrawToOwner(sender, amount, actionId)
        \/ launchBotVault(sender, amount, actionId)
        \/ fundExistingBotVault(sender, amount, actionId)

FundingVaultNext == environmentNext \/ operatorNext

FundingVaultSpec ==
    FundingVaultInit /\ [][FundingVaultNext]_<<botVaultVars, fundingVaultVars>>

-----------------------------------------------------------------------------
\* Every USDC that leaves the funding vault, whoever triggers it and however
\* owner, operator and bot vault calls interleave, is in the same transaction
\* with the owner or booked as principal that the bot vault owes back.
OutflowsStayWithOwner ==
    [][usdc'["beneficiary"] < usdc["beneficiary"]
        => usdc["beneficiary"] - usdc'["beneficiary"]
             = (usdc'["owner"] - usdc["owner"])
               + (principalDeposited' - principalDeposited)]_<<botVaultVars, fundingVaultVars>>
=============================================================================
