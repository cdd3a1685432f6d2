------------------------------ MODULE AiCredits ------------------------------
(***************************************************************************)
(* AI credit billing of one user: reserve before the model calls, record   *)
(* the usage of each call, settle or release at the end, and the job that  *)
(* expires what is left over.  A run is either an agent chat (runAgentChat *)
(* makes several calls under one reservation and bills in its own catch    *)
(* block) or a standalone call (callAiChat reserves and bills itself).     *)
(*                                                                         *)
(* settleAiRun and releaseAiReservation are database transactions at the   *)
(* default isolation level: they read the reservation, then compare and    *)
(* swap the subscription row, so another transaction may commit in between *)
(* and reading and committing are separate steps.  A commit whose ledger   *)
(* keys exist already violates a unique index and rolls back.              *)
(***************************************************************************)
EXTENDS Integers, FiniteSets, FiniteSetsExt, Functions

CONSTANTS
    Runs,
    Kind,                   \* "chat" or "standalone" per run
    Credits,                \* the worst-case estimate a run reserves
    MicrousdPerCredit,      \* MICROUSD_PER_CREDIT
    Costs,                  \* bound: retail micro-USD one model call may cost
    MaxCalls,               \* maxToolRounds + 1
    InitBalance,
    MaxBalance,             \* bound: grants stop here
    DailyLimit,             \* aiDailyLimitCredits
    Adjustments             \* bound: deltas of the administrator

ASSUME CreditsAssumption ==
    /\ IsFiniteSet(Runs)
    /\ Kind \in [Runs -> {"chat", "standalone"}]
    /\ Credits \in Nat \ {0}
    /\ MicrousdPerCredit \in Nat \ {0}
    /\ Costs \subseteq Nat \ {0}
    /\ MaxCalls \in Nat \ {0}
    /\ MaxBalance \in Nat
    /\ InitBalance \in 0..MaxBalance
    /\ DailyLimit \in Nat
    /\ Adjustments \subseteq Int

VARIABLES
    balance, reserved,      \* aiCreditBalance and aiCreditsReserved
    reservation,            \* status of the reservation of each run
    settledCredits,         \* what each settled reservation was charged
    usage,                  \* retail micro-USD of the usage records of each run
    ledger,                 \* idempotency keys of USAGE_SETTLE and USAGE_RELEASE
    runStatus,              \* aiAgentRun.status
    completedAt,            \* runs whose completedAt is set
    runCharged,             \* aiAgentRun.chargedCredits
    pc, seen,               \* where a run is; the status its transaction read
    calls,                  \* model calls that returned to the run
    granted                 \* history: the sum of all adjustments, and whether one was a debit

subscriptionVars == <<balance, reserved>>
billingVars == <<subscriptionVars, reservation, settledCredits, ledger>>
runVars == <<runStatus, completedAt, runCharged>>
creditVars == <<billingVars, usage, runVars, pc, seen, calls, granted>>

CreditsInit ==
    /\ balance = InitBalance
    /\ reserved = 0
    /\ reservation = [r \in Runs |-> "NONE"]
    /\ settledCredits = [r \in Runs |-> 0]
    /\ usage = [r \in Runs |-> 0]
    /\ ledger = {}
    /\ runStatus = [r \in Runs |-> "none"]
    /\ completedAt = {}
    /\ runCharged = [r \in Runs |-> 0]
    /\ pc = [r \in Runs |-> "idle"]
    /\ seen = [r \in Runs |-> "NONE"]
    /\ calls = [r \in Runs |-> 0]
    /\ granted = [total |-> InitBalance, debited |-> FALSE]

goto(r, label) == pc' = [pc EXCEPT ![r] = label]

-----------------------------------------------------------------------------
(* reserveAiCredits *)

\* getSettledUsage counts a run from the moment its completedAt is set.
settledUsage == SumFunctionOnSet(runCharged, completedAt)

\* Mutant: checks the balance without what other runs have reserved.
canReserve_wholeBalance == balance >= Credits

canReserve ==
    /\ balance - reserved >= Credits
    /\ settledUsage + reserved + Credits <= DailyLimit

reserve(r) ==
    /\ pc[r] = "idle"
    /\ canReserve
    /\ reserved' = reserved + Credits
    /\ reservation' = [reservation EXCEPT ![r] = "ACTIVE"]
    /\ runStatus' = [runStatus EXCEPT ![r] = "running"]
    /\ goto(r, "calling")
    /\ UNCHANGED <<balance, settledCredits, ledger, usage, completedAt, runCharged, seen, calls,
                   granted>>

\* A chat records the refusal in its run; a standalone call leaves it running.
reserveRefused(r) ==
    /\ pc[r] = "idle"
    /\ IF Kind[r] = "chat"
       THEN /\ runStatus' = [runStatus EXCEPT ![r] = "failed"]
            /\ completedAt' = completedAt \cup {r}
       ELSE /\ runStatus' = [runStatus EXCEPT ![r] = "running"]
            /\ UNCHANGED completedAt
    /\ goto(r, "stopped")
    /\ UNCHANGED <<billingVars, usage, runCharged, seen, calls, granted>>

-----------------------------------------------------------------------------
(* Model calls *)

\* The provider answered and recordAiUsage committed.
callSucceeds(r, cost) ==
    /\ pc[r] = "calling"
    /\ usage' = [usage EXCEPT ![r] = @ + cost]
    /\ calls' = [calls EXCEPT ![r] = @ + 1]
    /\ goto(r, "called")
    /\ UNCHANGED <<billingVars, runVars, seen, granted>>

\* An error that carries no usage: the provider failed, the call was aborted,
\* or recordAiUsage threw.
callFails(r) ==
    /\ pc[r] = "calling"
    /\ goto(r, "failing")
    /\ UNCHANGED <<billingVars, usage, runVars, seen, calls, granted>>

\* OpenAiResponsesIncompleteError with usage: settleIncompleteAiFailureUsage
\* records it and settles.
callIncomplete(r, cost) ==
    /\ pc[r] = "calling"
    /\ usage' = [usage EXCEPT ![r] = @ + cost]
    /\ goto(r, "settleIncomplete")
    /\ UNCHANGED <<billingVars, runVars, seen, calls, granted>>

\* An error with a response id or usage: the provider may have billed the call.
callAmbiguous(r) ==
    /\ pc[r] = "calling"
    /\ goto(r, "mark")
    /\ UNCHANGED <<billingVars, usage, runVars, seen, calls, granted>>

\* markAiReservationForReconciliation.  A standalone call closes its run next,
\* a chat enters its catch block.
markForReconciliation(r) ==
    /\ pc[r] = "mark"
    /\ reservation' = [reservation EXCEPT ![r] =
                          IF @ = "ACTIVE" THEN "RECONCILIATION_REQUIRED" ELSE @]
    /\ goto(r, IF Kind[r] = "chat" THEN "failing" ELSE "finishReconciliation")
    /\ UNCHANGED <<subscriptionVars, settledCredits, ledger, usage, runVars, seen, calls, granted>>

\* The mark is lost: a chat ignores it, a standalone call throws.
markThrows(r) ==
    /\ pc[r] = "mark"
    /\ goto(r, IF Kind[r] = "chat" THEN "failing" ELSE "stopped")
    /\ UNCHANGED <<billingVars, usage, runVars, seen, calls, granted>>

callAgain(r) ==
    /\ pc[r] = "called"
    /\ Kind[r] = "chat"
    /\ calls[r] < MaxCalls
    /\ goto(r, "calling")
    /\ UNCHANGED <<billingVars, usage, runVars, seen, calls, granted>>

\* The answer is complete: bill the run.
answer(r) ==
    /\ pc[r] = "called"
    /\ goto(r, "settle")
    /\ UNCHANGED <<billingVars, usage, runVars, seen, calls, granted>>

\* Tool budget exceeded, skill not allowed or an answer that does not parse.
chatError(r) ==
    /\ pc[r] = "called"
    /\ Kind[r] = "chat"
    /\ goto(r, "failing")
    /\ UNCHANGED <<billingVars, usage, runVars, seen, calls, granted>>

\* The catch blocks.  A chat settles when a call returned usage to it; a
\* standalone call releases whatever was recorded.
handleFailure(r) ==
    /\ pc[r] = "failing"
    /\ goto(r, IF Kind[r] = "chat" /\ calls[r] > 0 THEN "settleFailure" ELSE "release")
    /\ UNCHANGED <<billingVars, usage, runVars, seen, calls, granted>>

-----------------------------------------------------------------------------
(* settleAiRun *)

SettleLabels == {"settle", "settleFailure", "settleIncomplete"}

\* Where a settlement goes when it returns, and when it throws.
onSettled(r) == IF pc[r] = "settle" THEN "finishCompleted" ELSE "finishFailed"

onSettleThrows(r) ==
    CASE pc[r] = "settleFailure" -> "finishReconciliation"
      [] pc[r] = "settle" -> "failing"
      [] pc[r] = "settleIncomplete" -> "mark"

settleBegin(r) ==
    /\ pc[r] \in SettleLabels
    /\ seen[r] = "NONE"
    /\ seen' = [seen EXCEPT ![r] = reservation[r]]
    /\ UNCHANGED <<billingVars, usage, runVars, pc, calls, granted>>

endTransaction(r) == seen' = [seen EXCEPT ![r] = "NONE"]

\* Mutant: charges the estimate instead of the recorded usage.
chargedCredits_estimate(r) == Credits

\* creditsForRetailMicrousd of the sum over the run, rounded up once.
chargedCredits(r) == (usage[r] + MicrousdPerCredit - 1) \div MicrousdPerCredit

settleCommit(r) ==
    LET charged == chargedCredits(r) IN
    /\ pc[r] \in SettleLabels
    /\ seen[r] = "ACTIVE"
    /\ charged <= Credits
    /\ balance >= charged
    /\ reserved >= Credits
    /\ <<r, "settle">> \notin ledger
    /\ charged < Credits => <<r, "release">> \notin ledger
    /\ balance' = balance - charged
    /\ reserved' = reserved - Credits
    /\ reservation' = [reservation EXCEPT ![r] = "SETTLED"]
    /\ settledCredits' = [settledCredits EXCEPT ![r] = charged]
    /\ ledger' = ledger \cup {<<r, "settle">>}
                    \cup (IF charged < Credits THEN {<<r, "release">>} ELSE {})
    /\ runCharged' = [runCharged EXCEPT ![r] = charged]
    /\ goto(r, onSettled(r))
    /\ endTransaction(r)
    /\ UNCHANGED <<usage, runStatus, completedAt, calls, granted>>

\* The run was settled before: the same answer again.
settleAgain(r) ==
    /\ pc[r] \in SettleLabels
    /\ seen[r] = "SETTLED"
    /\ goto(r, onSettled(r))
    /\ endTransaction(r)
    /\ UNCHANGED <<billingVars, usage, runVars, calls, granted>>

\* Any exception: the status is not ACTIVE, the usage exceeds the reservation,
\* the compare-and-swap attempts are used up, the database failed.  The
\* transaction rolls back, the write of RECONCILIATION_REQUIRED included.
settleThrows(r) ==
    /\ pc[r] \in SettleLabels
    /\ seen[r] # "NONE"
    /\ goto(r, onSettleThrows(r))
    /\ endTransaction(r)
    /\ UNCHANGED <<billingVars, usage, runVars, calls, granted>>

-----------------------------------------------------------------------------
(* releaseAiReservation *)

releaseBegin(r) ==
    /\ pc[r] = "release"
    /\ seen[r] = "NONE"
    /\ seen' = [seen EXCEPT ![r] = reservation[r]]
    /\ UNCHANGED <<billingVars, usage, runVars, pc, calls, granted>>

\* Mutant: no unique index on the ledger key.
canRelease_noLedgerKey(r, status) ==
    /\ status \in {"ACTIVE", "EXPIRED"}
    /\ reserved >= Credits

\* An EXPIRED reservation passes the status checks; only its ledger key stops
\* a second release.
canRelease(r, status) ==
    /\ status \in {"ACTIVE", "EXPIRED"}
    /\ reserved >= Credits
    /\ <<r, "release">> \notin ledger

releaseReservation(r, finalStatus) ==
    /\ reserved' = reserved - Credits
    /\ reservation' = [reservation EXCEPT ![r] = finalStatus]
    /\ ledger' = ledger \cup {<<r, "release">>}
    /\ UNCHANGED <<balance, settledCredits>>

releaseCommit(r) ==
    /\ pc[r] = "release"
    /\ canRelease(r, seen[r])
    /\ releaseReservation(r, "RELEASED")
    /\ goto(r, "finishReleased")
    /\ endTransaction(r)
    /\ UNCHANGED <<usage, runVars, calls, granted>>

releaseAgain(r) ==
    /\ pc[r] = "release"
    /\ seen[r] \in {"RELEASED", "SETTLED"}
    /\ goto(r, "finishReleased")
    /\ endTransaction(r)
    /\ UNCHANGED <<billingVars, usage, runVars, calls, granted>>

\* A standalone call does not catch this: its run row stays as it is.
releaseThrows(r) ==
    /\ pc[r] = "release"
    /\ seen[r] # "NONE"
    /\ goto(r, IF Kind[r] = "chat" THEN "finishReconciliation" ELSE "stopped")
    /\ endTransaction(r)
    /\ UNCHANGED <<billingVars, usage, runVars, calls, granted>>

-----------------------------------------------------------------------------
finalStatus(r) ==
    CASE pc[r] = "finishCompleted" -> "completed"
      [] pc[r] = "finishReconciliation" -> "reconciliation_required"
      [] OTHER -> "failed"

FinishLabels == {"finishCompleted", "finishFailed", "finishReleased", "finishReconciliation"}

\* The update of aiAgentRun that ends a run; after a release it writes a charge
\* of zero.
finish(r) ==
    /\ pc[r] \in FinishLabels
    /\ runStatus' = [runStatus EXCEPT ![r] = finalStatus(r)]
    /\ completedAt' = completedAt \cup {r}
    /\ runCharged' = [runCharged EXCEPT ![r] = IF pc[r] = "finishReleased" THEN 0 ELSE @]
    /\ goto(r, "stopped")
    /\ UNCHANGED <<billingVars, usage, seen, calls, granted>>

\* The update of a run that succeeded throws: the catch block takes over.
completeThrows(r) ==
    /\ pc[r] = "finishCompleted"
    /\ goto(r, "failing")
    /\ UNCHANGED <<billingVars, usage, runVars, seen, calls, granted>>

\* The API process dies: an open transaction rolls back.
crash(r) ==
    /\ pc[r] \notin {"idle", "stopped"}
    /\ goto(r, "stopped")
    /\ endTransaction(r)
    /\ UNCHANGED <<billingVars, usage, runVars, calls, granted>>

\* Mutant: gives up on reservations whose run never closed.
expire_closedRuns(r) ==
    /\ pc[r] = "stopped"
    /\ r \in completedAt
    /\ canRelease(r, reservation[r])
    /\ releaseReservation(r, "EXPIRED")
    /\ UNCHANGED <<usage, runVars, pc, seen, calls, granted>>

\* releaseExpiredAiReservations.  A reservation lives 15 minutes and a run 90
\* seconds, so the run has ended one way or another.  Every API process runs
\* the job: one may come to a row that another expired since it was listed.
expire(r) ==
    /\ pc[r] = "stopped"
    /\ canRelease(r, reservation[r])
    /\ releaseReservation(r, "EXPIRED")
    /\ UNCHANGED <<usage, runVars, pc, seen, calls, granted>>

adjusted(delta) ==
    [total |-> granted.total + delta, debited |-> granted.debited \/ delta < 0]

\* Mutant: subtracts the whole debit.
adminAdjust_unclamped(delta) ==
    /\ balance + delta <= MaxBalance
    /\ balance' = balance + delta
    /\ granted' = adjusted(delta)
    /\ UNCHANGED <<reserved, reservation, settledCredits, ledger, usage, runVars, pc, seen, calls>>

\* applyAiCreditAdminAdjustmentInTransaction: a debit is clamped at zero.
adminAdjust(delta) ==
    LET next == Max({0, balance + delta}) IN
    /\ next <= MaxBalance
    /\ balance' = next
    /\ granted' = adjusted(next - balance)
    /\ UNCHANGED <<reserved, reservation, settledCredits, ledger, usage, runVars, pc, seen, calls>>

-----------------------------------------------------------------------------
runNext(r) ==
    \/ reserve(r) \/ reserveRefused(r)
    \/ \E cost \in Costs : callSucceeds(r, cost) \/ callIncomplete(r, cost)
    \/ callFails(r) \/ callAmbiguous(r) \/ markForReconciliation(r) \/ markThrows(r)
    \/ callAgain(r) \/ answer(r) \/ chatError(r) \/ handleFailure(r)
    \/ settleBegin(r) \/ settleCommit(r) \/ settleAgain(r) \/ settleThrows(r)
    \/ releaseBegin(r) \/ releaseCommit(r) \/ releaseAgain(r) \/ releaseThrows(r)
    \/ finish(r) \/ completeThrows(r)

CreditsNext ==
    \/ \E r \in Runs : runNext(r) \/ crash(r) \/ expire(r)
    \/ \E delta \in Adjustments : adminAdjust(delta)

CreditsSpec == CreditsInit /\ [][CreditsNext]_creditVars

\* A run keeps going unless its process dies, and the expiry job runs every
\* minute.
FairCreditsSpec ==
    /\ CreditsSpec
    /\ \A r \in Runs : WF_creditVars(runNext(r)) /\ WF_creditVars(expire(r))

-----------------------------------------------------------------------------
(* Properties *)

ReservationStatus == {"NONE", "ACTIVE", "SETTLED", "RELEASED", "EXPIRED",
                      "RECONCILIATION_REQUIRED"}

RunStatus == {"none", "running", "completed", "failed", "reconciliation_required"}

Labels == {"idle", "calling", "called", "failing", "mark", "release", "stopped"}
              \cup SettleLabels \cup FinishLabels

\* Type invariant; a balance below zero is a type error.
CreditsTypeOK ==
    /\ balance \in 0..MaxBalance
    /\ reserved \in Nat
    /\ reservation \in [Runs -> ReservationStatus]
    /\ settledCredits \in [Runs -> Nat]
    /\ runCharged \in [Runs -> Nat]
    /\ usage \in [Runs -> Nat]
    /\ ledger \subseteq Runs \X {"settle", "release"}
    /\ runStatus \in [Runs -> RunStatus]
    /\ completedAt \subseteq Runs
    /\ granted \in [total : Int, debited : BOOLEAN]
    /\ pc \in [Runs -> Labels]
    /\ seen \in [Runs -> ReservationStatus]
    /\ calls \in [Runs -> 0..MaxCalls]

Holding == {r \in Runs : reservation[r] \in {"ACTIVE", "RECONCILIATION_REQUIRED"}}

\* The counter of the subscription is exactly what the open reservations hold:
\* no interleaving of settlements, releases, crashes and expiry gives credits
\* back twice or loses them.
ReservedMatchesReservations ==
    reserved = Credits * Cardinality(Holding)

\* Every credit that left the balance is the charge of a settled run: charged
\* once, within its reservation, and paying for the usage recorded for it with
\* less than one credit to spare, however many calls the run made.
ChargesMatchUsage ==
    /\ balance = granted.total - SumFunctionOnSet(settledCredits, Runs)
    /\ \A r \in Runs : reservation[r] = "SETTLED" =>
         LET paid == settledCredits[r] * MicrousdPerCredit
         IN  /\ usage[r] <= paid /\ paid < usage[r] + MicrousdPerCredit
             /\ settledCredits[r] <= Credits

\* Runs in parallel never reserve more than there is: until an administrator
\* debits the balance every open reservation is covered by the balance, so
\* that a run that stays within its estimate can always be settled.
ReservationsCovered ==
    ~granted.debited => reserved <= balance

\* No reservation stays ACTIVE for ever: the run settles, releases or marks it,
\* or the expiry job takes it.
EveryReservationResolved ==
    \A r \in Runs : reservation[r] = "ACTIVE" ~> reservation[r] # "ACTIVE"

-----------------------------------------------------------------------------
(* What the billing plan says and the code does not do *)

\* "Bei Fehlern werden nur tatsaechlich angefallene Kosten belastet", by the
\* settlement worker for interrupted runs: a reservation is given back without
\* a charge only when no usage was recorded for its run.
NoUsageReleasedFree ==
    \A r \in Runs : reservation[r] \in {"RELEASED", "EXPIRED"} => usage[r] = 0
=============================================================================
