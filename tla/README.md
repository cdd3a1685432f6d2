# TLA+ specifications of uLiquid Desk

uLiquid Desk is a multi-tenant platform for futures trading: users fund on-chain
vaults, bots trade that capital on HyperCore, an AI assistant is billed in credits,
and a two-round presale sells the platform's token. This directory holds TLA+
specifications of the parts where money changes hands and of the life of a bot, their
TLC models, and TLAPS proofs. `PROJECT.json` maps every definition to the source lines it models.

## 1. Inventory

| Component | Where | State | Operations | Interacts with | Hard behaviour |
|---|---|---|---|---|---|
| Bot vault contract | `packages/contracts/src/BotVaultV4.sol` | status, roles, principal in and out, fees, high-water mark | fund, activate, pause, setCloseOnly, claimProfit, closeVault, recoverClosedFunds, HyperCore forwarding | USDC, factory, HyperCore | partial payouts in any order; orders executed after the call; rounding |
| Funding vault contract | `FundingVaultV1.sol`, `BotVaultFactoryV4.sol` | balance, operator, pause flag, used action ids | deposit, withdraw, launchBotVault, fundExistingBotVault | bot vault, factory, backend | two key holders on one balance; replay |
| Funding backend | `apps/api/src/vaults/fundingVault.service.ts` | `OnchainAction` rows, reserved balance | launch, fund, withdraw through `sendAgentAction` | RPC node, indexer, funding vault | lost answers, crash between broadcast and update, double calls |
| Presale contracts | `packages/contracts/src/uliq/presale-v2/` | rounds, purchases, payments, vesting pools, listing time | buy, withdraw, finalize, end, list, claim | four contracts calling each other, auto-finalizer | deadlines, order of the rounds, sealing at the listing, capacity freed again |
| AI credit billing | `apps/api/src/ai/credits`, `ai/provider.ts`, `ai/agent-chat/runtime.ts` | balance, reserved counter, reservations, usage, ledger keys | reserve, record, settle, release, expire, mark, adjust | agent chats, standalone calls, administrator, expiry job | parallel runs, interrupted runs, failing settlements |
| Billing orders and discounts | `apps/api/src/billing`, `uliq/benefitReservation.service.ts` | orders, payments, reservations, scan cursor | checkout, submit, cancel, verify, finalize, discover, expire | Arbitrum RPC, browser, jobs, wallet linking | stale verifications, reorganisations, late payments, caps under concurrency |
| Bot requests and quota | `apps/api/src/bots/routes.ts`, `admission`, `orchestration.ts`, `bot-run-recovery.ts` | bot status, advisory lock, queue jobs | start, stop, delete, enqueue, cancel, recover | queue, runner, chain jobs | parallel starts, a start that meets an old job |
| Vault lifecycle and jobs | `apps/api/src/vaults`, `apps/api/src/jobs` | operation states, ledgers, cursors | indexer, reconciliation, fee settlement | contracts, runner | stale reads, reorganisations, repeated events |
| Runner | `apps/runner/src`, `packages/orchestrator` | bot status, circuit breaker, job locks | tick, trip, heartbeat, queue events | exchanges, queue, database | crashes, stalled jobs run twice, lost writes |
| Trading adapters | `packages/futures-*`, `exchange`, `risk`, `strategies` | none shared | requests to exchanges | runner, API | not protocol-like |
| Request handlers and UI | `apps/api/src/auth`, `admin`, `mobile`, ..., `apps/web` | database rows | create, read, update, delete | users | none beyond the database's |

What makes each modelled component correct is listed with its runs in section 4;
`hazards` in `PROJECT.json` names the lines where it can go wrong.

## 2. Modules

```
BotVaultV4 <- FundingVaultV1 <- FundingAgent        (EXTENDS, right uses left)
ULIQGlobalListing <- ULIQPaymentCustody, ULIQPresaleRoundVesting <- ULIQPresaleRound
AiCredits
OrderDecisions  <- implemented by -  BillingOrders <- BillingDiscovery
BotRuns

BotVaultV4 <- BotVaultV4Proofs <- FundingVaultV1Proofs <- FundingAgentProofs
BotRuns <- BotRunsProofs
SumTheorems <- AiCreditsProofs, ULIQPresaleProofs   (with AiCredits, ULIQPresaleRound)
BillingDiscovery <- BillingProofs
```

`MCx` modules give the constants of `x` that a `.cfg` cannot express.

**BotVaultV4.** One vault. Every external function is one transaction and so one
action, enabled exactly when the call would not revert. Payout functions share
`payout`, because their checks, accounting and transfers are line by line the same;
only the guards differ. `Accounts` are the USDC holders the properties tell apart.
HyperCore is external: it takes the forwarded raw actions from a queue, later and in
order, drops what it cannot honour, and fills orders one unit of exposure at a time.
`bestPnl` and `netPaid` are history variables that no action reads. `CLOSED` is in
the code's enumeration but no function enters it; `TypeOK` says so.

**FundingVaultV1.** The funding vault with the factory and its bot vault: the account
`beneficiary` of `BotVaultV4` is the balance of the funding vault. `launchBotVault`
and `fundExistingBotVault` contain the whole `fund` of the bot vault.
`fundExistingBotVault` takes the address of the bot vault as an argument; the model
always passes the vault the factory created for this owner, as the backend does.

**FundingAgent.** `sendAgentAction` on top of it. An invocation looks up or creates
its row, broadcasts, and records the hash; each `await` is a step. The node may lose
its answer, the process may die, calls with one action key may overlap and be
repeated, and transactions may be mined in any order and much later. Two jobs write
the same rows. The indexer reads the submitted rows, then handles one after another: a
launch is confirmed as soon as the factory knows a vault for the bot, without a look at
its receipt; any row is confirmed or failed by the receipt of the hash that was read
(`markActionFailed` puts that hash back). The reconciliation confirms a submitted launch
when the vault is deployed, and an open refill when the vault is funded, by the row's
hash or by one it finds among the vault's events, and all refills without a hash at
once; refills that wait too long are failed. A hash belongs to at most one row
(`txHash` is unique). `submit-tx` and `fail-tx` are left out: they serve transactions
that users sign with their own wallets.

**ULIQGlobalListing, ULIQPaymentCustody, ULIQPresaleRoundVesting, ULIQPresaleRound.**
One module per contract; the last composes two rounds with their custody and vesting
pools and the shared listing, and adds block time. `buy`, `withdrawPurchase` and
`finalizePurchase` contain the calls into custody and vesting. The version counter of
the sale window is left out: it only refuses calls prepared against an older window.
Ownership is left to the library: administrative functions are called by anyone at any
time the contract accepts them, which is more than the owner does.

**AiCredits.** The billing of one subscription by several runs. `reserve` is atomic
(the code compares and swaps the subscription row it read). `settleAiRun` and
`releaseAiReservation` read the reservation first and commit later. An exception rolls
the transaction back, including the write of `RECONCILIATION_REQUIRED` that precedes
the throw, and goes to the catch block of the caller: `runAgentChat` for a chat,
`callAiChat` for a standalone call. Usage is kept in micro-USD and rounded up to
credits once per run, as in `creditsForRetailMicrousd`. Monthly and per-run limits have
the form of the daily limit and are left out. One assumption: a run ends (90 second
budget) before its reservation expires (15 minutes).

**OrderDecisions.** What billing promises, in four actions: an order is placed while
no other is open and within the discount cap, lapses, is paid (its purchase handed out
in the same step, its discount used) or goes to review; nothing ever leaves review.

**BillingOrders.** Orders, payments and discount reservations of one user. Each
database transaction is one step; a verification reads the row, waits for the RPC and
writes its verdict later under a compare-and-swap. `verificationAttempts`, the counter
that is swapped, only grows, so a process keeps a flag that says whether it still has
the value it read. The transaction that finalizes an order re-reads it under a lock.
The chain mines a transfer at any time and may drop it again until it is final; one
unit of time is one block. Reservation expiry is a process of its own that selects rows
and writes them in a second step. What a purchase grants is counted, not modelled,
except for the Pro term that an immediate upgrade to Premium is quoted for
(`sourceTerm`): it ends with time, the lifecycle job moves it to grace or replaces it,
and another purchase may schedule a second term. An upgrade whose term is not as it was
quoted throws `premium_upgrade_source_term_changed`, and a discounted order whose
reservation is gone throws `uliq_reservation_not_consumable`; neither is a review
error, so both are rolled back and retried. The checks of the upgrade's metadata
(`confirmed_order_upgrade_metadata_invalid`) compare parts of the order that checkout
wrote together and that nothing changes; they cannot fail and are left out.
`Decisions` instantiates `OrderDecisions` with the tables (`decisionOf`, `discountOf`).

**BillingDiscovery.** The job that looks for transfers whose hash nobody submitted,
on top of `BillingOrders`: finalized head, then the scope, then the logs of a chunk,
then one candidate after another, the stability check and the cursor, with a failure
possible before each. All transfers go from the user's wallet to one treasury. Chunks
are longer than the overlap, as they are in the code (2000 and 32 blocks).

**BotRuns.** Start, stop and delete requests, the quota admission under an advisory
lock, the queue with at most one job per bot, worker loops with their circuit breaker,
and the recovery cycle. A worker owns the lock of the job it runs; when the lock
expires the queue hands the job to another worker, and the first loop, if it is alive,
goes on without knowing. Bots whose vault's supervisor runs them (`VaultBots`) are also
set running and stopped by the jobs that watch the chain. The user is one whom the
product gates apply to: an administrator's bypass skips the quota by design.

Definitions with a suffix (`feeBase_ignoresHighWaterMark`, ...), and those a comment
calls a mutant, are deliberately wrong variants of the definition they precede; each
shows that a property notices the bug.

## 3. Bounds

| Bound | Value | Why it is enough |
|---|---|---|
| `Supply`, `CoreReserve`, `MaxPrincipal` | 2, 2, 2 | two fundings, a partial payout, and profit paid from outside the vault |
| `PnlValues` | -1, 1, 3, 4 | loss, repeated report, recovery above the mark, more than the vault can pay |
| fee rates | 30 and 20 percent | neither the fee (base/2) nor its split (3/5) is whole for small amounts |
| `MaxQueue`, `Cloids`, `MaxExposure` | 1, 1, 1 | an action in flight while the status changes; a resting order whose id is used again |
| `Calls`, `MaxSends`, `Requests`, `Operators` | 2, 2, one request of any kind, 2 | two overlapping calls, each may retry for ever; two transactions alive under one id, the second overwriting the first one's hash; the operator replaced while they are. The factory's owner and the public also create and fund the vault, so a row is confirmed with no transaction of its own; two rows that compete for one hash are left to the proof |
| `Buyers`, `MaxPurchases`, `MaxTime` | 2, 2 per round, 6 | a withdrawal that frees capacity for the other buyer; both windows, deadline, listing and the linear part of the schedule |
| prices | 1.5 and 2/3 units of ULIQ per unit of USDC | allocations round to both sides of one unit |
| `Runs`, `Credits`, `Costs` | 2, 2, {1, 3} micro-USD at 2 per credit | runs compete for the last credits; charges below, at and above the reservation |
| `MaxOrders`, `Hashes`, `Procs` | 2, 2, 2 (liveness 1, 2, 1; discovery 2, 1, 1) | two checkouts race, two verifications of one payment race, a payment meets the wrong order. A chunk with several candidates for one order is left to the proof of `NoPaymentOverlooked` |
| `Mismatched` | one of two hashes in `billing_liveness` and `billing_stuck`, none elsewhere | a transfer of the wrong amount is submitted; in `billing` both hashes are needed for two orders that can be paid |
| `Kinds`, `HasProTerm` | plain and AI carts; upgrades where a Pro term exists | discounts of plans differ from those of AI carts only in the cap, and combine with upgrades only in the proofs; one Pro term in the user's life |
| `MaxClock`, `OrderTtl`, `QuoteTtl`, `FinalityLag` | 4 or 5, 1 or 2, 1, 1 | an order expires, is paid late and another is placed and finalized |
| `AiDiscountCap`, `MaxMissingAttempts` | 1, 1 or 2 | the second discount is one too many; a transaction is missing once and found later |
| `RecoveryHorizon`, `Overlap`, `Chunk` | 3, 1, 2 | a payment two chunks after the order it belongs to, which a scan has to reach. No order falls out of the horizon within `MaxClock`; that case is left to the proof of `NoPaymentOverlooked` |
| `Bots`, `Workers`, `Requests` in `bot_runs` | 1, 2, 1 | bots share nothing there but workers; two loops on one bot, and a request against the recovery cycle |
| `Bots`, `Requests`, `MaxRunningBots` in `bot_quota` | 2 and a vault bot, 2, 1 | two starts compete for the last place; no workers, which cannot start a bot (proved in general) |
| `MaxErrors` | 2 | a count that is read by two loops and overwritten |

## 4. Runs

| Run | Question | Answer |
|---|---|---|
| `bot_vault_accounting` | can payouts in any order charge principal, charge a profit twice, or lose a unit? can exposure grow once the vault left ACTIVE and its orders are gone? | no |
| `funding_agent` | can a launch, refill or withdrawal move money twice? can a row be confirmed that is not true of the chain? can USDC leave the funding vault to anywhere but the owner or booked principal? | no: the action id decides, whatever the rows say; no; no |
| `presale` | books, refunds, inventory, limits, round order, listing seal, vesting | all hold |
| `presale_liveness` | is every purchase settled in the end, and refunded or released right while the treasury changes hands? | yes |
| `credits` | are the reserved counter, the charges and the balance exact? can parallel runs reserve more than there is? does every ACTIVE reservation end? | yes; no; yes |
| `credits_unbilled_usage` | is recorded usage always charged? | **no** |
| `billing` | do the billing tables implement `OrderDecisions`? is every verified payment a final transfer to this order? | yes |
| `billing_liveness` | are submitted payments decided, early activations settled, abandoned discounts returned? does a wrong amount ever count? | yes, yes, yes, the first unless the order's discount was released or the term it upgrades has ended or changed; no |
| `billing_stuck` | are submitted payments decided without that exception? | **no** |
| `billing_discovery` | can the scan's cursor pass a payment an order waits for? is a payment found that nobody submitted? | no; yes |
| `bot_runs` | does a running bot tick, a stopped one fall silent, a failing one halt? | yes |
| `bot_quota` | can parallel starts exceed the plan? | no |

Two runs state what the repository's documents ask for and TLC refutes; `findings` in
`PROJECT.json` quotes them.

* `credits_unbilled_usage`: a chat records the usage of a call and its process dies.
  Fifteen minutes later the expiry job releases the whole reservation; nothing settles
  an interrupted run. A standalone call does the same at once when its settlement
  throws.
* `billing_stuck`: a user submits the payment of a discounted order and links another
  wallet, which releases every open reservation. From then on finalization throws
  `uliq_reservation_not_consumable`, an error that is rolled back and not sent to
  review. The order stays CONFIRMING for ever and blocks the next checkout. An expiry
  that selected the reservation just before the hash was claimed has the same effect.
  No discount is needed when the order upgrades a Pro term that ends before the purchase
  is activated: finalization throws `premium_upgrade_source_term_changed` at every
  attempt. That the upgrade is refused is intended; that nobody is asked about the
  payment is not. `PaymentsDecidedUnlessBlocked` shows that these two are all there is.

`ConfirmedMatchesChain` says what a confirmed row is worth, and no more. A withdrawal is
confirmed only when one of its own transactions was executed. A confirmed launch or
refill means that the bot has its vault, or the vault its principal, perhaps through
another request's transaction, while the row's own hash reverted or was never mined. And
a row may say `failed` after its money moved, when an answer was lost or a receipt of
an overwritten hash was read; only `MovedAtMostOnce` makes repeating such a request
safe.

`PaymentsFound` is weaker than one would wish, and for a reason: a checkout that read
the head block early and inserted its order late owns the transfers in between, so a
transfer meant for an older order may send the newer one to review.

Deadlock is checked for the vaults. It is not for the presale, which ends when time is
up and everything is claimed, nor for credits, billing and bots, where a finite set of
runs or orders ends, time is bounded, or every bot is deleted.

## 5. Fairness

`presale_liveness` assumes weak fairness of block time and of `finalizerNext`: anyone
may finalize, so it is enough that somebody who wants the purchase settled does so
eventually. `uliq/autoFinalizer.service.ts` would, in a loop with retries, but it is off
by default and not what the assumption rests on. Nothing else is assumed of buyers or of
the owner.

`credits` assumes weak fairness of every run's next step (an `await` returns or throws;
a crash is a possible step, not a fair one) and of `expire`, which a timer starts every
minute in every API process. Expiry cannot be starved by a failing row: the job stops
at the first error, but its only errors are a counter below the reservation, which
`ReservedMatchesReservations` excludes, and a ledger key that exists, in which case the
row is no longer ACTIVE.

`billing_liveness` and `billing_discovery` assume that time passes and that the jobs of
`billingOnchainJob.ts`, started every 30 seconds, keep running. Reconciliation, its
writes and the steps of a scan are strongly fair: RPC failures, crashes and lost
compare-and-swaps may recur for ever, but not at every attempt. Users, wallets and the
chain may do nothing.

`bot_runs` assumes weak fairness of a loop's next step and of the recovery timer (every
30 seconds and at start-up), that an expired lock is noticed, and strong fairness of
what an outage can only delay: the enqueue of the recovery cycle, the pick-up of a
waiting job, the read of the status, and the circuit breaker's pair of writes. Nothing
is assumed of requests, of ticks succeeding or failing, or of the error window.

## 6. Proofs

Every invariant and every action property that a run checks, and the refinement of
`OrderDecisions`, are proved for all values of the constants; liveness stays with TLC. The proofs
assume what the `ASSUME`s of the modules say: the checks of the constructors, natural
numbers for amounts, prices and bounds, and

* finitely many bots, runs and treasuries (sums and cardinalities range over them);
* bounds on time that admit the initial state (`MaxTime`, `MaxClock` at least 1);
* for the scan, a finality lag of at least one block and chunks longer than the overlap,
  as configured in the code. Without the lag the cursor could reach the current block
  and a payment mined in it afterwards would already be passed.

**BotVaultV4Proofs.** `TypeCorrect`, `PrincipalSafe`, `FeesBounded`, `PayoutsExact`:
`Spec => []P` for `TypeOK`, `PrincipalReachesBeneficiary`, `FeesWithinHighWaterMark`,
`PayoutsBalance`. They follow from one inductive invariant, `IInv`: the four properties
and `CoreSolvent`, which says that the HyperCore account never holds more than the
deposit wallet can pay. Without it `TypeOK` is not inductive, since a spot send back to
the vault would take the wallet below zero. The accounting rests on three lemmas: a fee
rounded down and its split stay within the fee base; fees accumulate within the rate on
the high-water mark because each is rounded down; and the high-water mark grows by at
most the capacity below the reported PnL, so it never passes the best one. Every action
that pays goes through `payout`, so its case is proved once. `ExposureSafe`:
`Spec => RiskOnlyFromActive`. From a state that is not ACTIVE and has no risk-adding
order queued or resting, `requireOrderPlacementAllowed` lets only reduce-only orders
into the queue, so only those come to rest and are filled.

**FundingVaultV1Proofs.** `ComposedInvariance`: `IInv` holds under `FundingVaultSpec`
too. `OutflowsSafe`: `FundingVaultSpec => OutflowsStayWithOwner`. A payout can only add
to the beneficiary (fee at most gross), HyperCore never touches it, and the operator's
three calls end in `move` to the owner or in `fund`.

**FundingAgentProofs.** `AgentImplementsVault`: the system with the backend refines
`FundingVaultSpec`, so the vaults' theorems carry over (`AgentOutflowsSafe`).
`MovesOnce` needs `ExecutedIsUsed`: an action id with an executed transaction is in the
contract's `usedActionIds`, which is what refuses the second transaction; nothing in the
rows of the backend would. `ConfirmedTrue` needs to know what a hash in a row, or one a
call or a job carries, can be (`HashInv`): a transaction of this very request (`Own`), or,
for a refill of a funded vault, one taken from the vault's events (`Linked`). Together
with `ExecutedReached` (an executed transaction brought about what its request asked for)
and `Grows` (a vault once deployed or funded stays so) every write of `confirmed`,
however old the read behind it, finds the request `Reached`. What a transaction that reverts
is (`reverts`, an `ENABLED`) does not matter: it changes nothing on the vault.

**BotRunsProofs.** `TypeCorrect`: `BotRunsSpec => []BotRunsTypeOK`, which includes that a
job's lock is held by a loop of its bot. It needs `BusyWithBot` (a process has a bot
exactly when it is not idle). `QuotaKept`: `BotRunsSpec => []RunningWithinQuota`. Between
the count and the commit of an admitted start its bot is not running yet, so the quota
alone is not inductive; `AdmittedFits` adds that a start about to commit holds the
advisory lock (there is only one) and that the user's bots together with its bot still
fit.

**SumTheorems.** Several books are sums of a function over a finite set
(`SumFunctionOnSet` of the community modules, a recursive function over subsets). That
this function exists, that any index can be taken out first, that changing one value
changes the sum by the difference, and that a sum of ones counts are shown without
induction: a smallest set for which the claim fails exists, since the finite subsets of
a set are well-founded under inclusion, and leads to a contradiction.

**AiCreditsProofs.** `CreditsInv` adds to the four invariants what a run's place in the
code says of its reservation (`RunInv`): before and during a call the reservation is
ACTIVE; a status read by a transaction in flight is still current, because a reservation
changes only through the run's own transactions or the expiry, which waits for the run
to be over; a reservation that was released has its ledger key, so the key makes a second release
fail; a charge is zero unless settled.

**BillingProofs.** `BillingInv` says what a process in flight may rely on when it
commits: a verification that has not gone stale still speaks of the row it read
(`ProcOK`), the transfer of a verified row is final and so cannot be dropped (`Final`),
a paid row is `Backed` by a transfer of the right amount after its creation, at most
one order is open (`OneOpen`), and an order was granted at most once. `RowMove` states
what a step may do to a row, and is proved once per writer. `PaymentsBack` follows from
it; `OrdersDecided` shows that each step of the tables is a step of `OrderDecisions` or
stutters, with the number of used discounts counted as a cardinality. For discovery,
`CursorSees` says that no order waits for a transfer at or below the cursor. It
is kept by `ScanSees`: the chunk in hand starts before every eligible order created
below its end, and each awaited transfer in it is among the candidates not yet written,
so when none is left the cursor may move to its end. Orders and transfers that appear
meanwhile lie above the finalized head the scan started from. `NothingOverlooked` and, for the composition,
`DiscoveryDecided` follow.

**ULIQPresaleProofs.** `PresaleInv` has one part per hazard. The counters of a round are
totals of weights over its purchases (`BooksOK`); since a transaction writes one
purchase, each total changes by the difference of two weights (`TotalChanges`,
`BooksMove`), and `TotalsAreSums` turns the weights into the sums over pending, live and
finalized purchases that the properties state. `LimitsOK` rests on `QuoteFits`: whatever
the price, the partial fill, rounded down to USDC and again to ULIQ, stays within the
remaining allocation. `InventoryOK` adds to `InventoryCoversSales` that returned
inventory means an ended round with nothing pending, or the equation would fail at the
next withdrawal. `SaleOrderOK` (while the second round sells, the first has ended)
strengthens `OneSaleAtATime`, and `ListingOK` (both rounds beyond ENDED and nothing
pending) strengthens `ListingSealsPurchases`: in these states `buy` is refused. For
vesting, `UnlockedGrows` shows that the schedule with its rounding never decreases and
never exceeds the allocation, so no claim is ahead of it later.

**Only model-checked.** Every liveness property: fairness and `ENABLED` are outside the
proof system. The refuted properties are TLC's counterexamples.

## 7. Not modelled

* Of billing: what a purchase grants beyond the Pro term an upgrade starts from (entitlements,
  capacity, AI cycles), the revision of the treasury configuration, the back-off after failed scans, several
  users in one scope, the administrator's handling of reviews.
* Of the bots: the polling mode of the runner, what a tick decides and trades, the
  runtime row that is displayed, the backtest queue, the other two quotas (exchange
  accounts, prediction schedules), which are admitted by the same code.
* Of the vaults: HyperEVM gas and reorganisations, other ERC-20 tokens, the off-chain
  ledgers, the lifecycle states of `apps/api/src/vaults`, and transactions that users
  sign with their own wallets.
* The legacy testnet contracts, exchange adapters, strategies, request handlers without
  a protocol of their own, the user interface. Most of the repository's lines are of
  these kinds: they keep no state that several parties change, and there is nothing a
  state machine would add to reading them.

`PROJECT.json` gives the reason for every component that is not modelled.

## 8. Plan

1. Done: bot vault, funding vault, funding backend, presale, AI credits, billing orders
   with discovery and discounts, bot runs with quota, queue and runner; a refinement
   for billing; proofs of every invariant, action property and refinement the runs check.
2. Funding backend's `freeBalance` / `reservedBalance` against the indexer
   (`vaultOnchainIndexerJob.ts`), where a read-modify-write races an increment.
3. Subscription terms and AI cycles behind `finalizeConfirmedBillingOrder`.
4. The vault lifecycle's operation states; the presale indexer with reorganisations.
5. Proofs of action properties not yet stated: that a settled purchase never changes
   again, and that a listing, once scheduled, is fixed.
