---------------------------- MODULE BillingOrders ----------------------------
(***************************************************************************)
(* Orders paid in USDC on Arbitrum (apps/api/src/billing/service.ts) and   *)
(* the ULIQ discount reservations they hold                                *)
(* (apps/api/src/uliq/benefitReservation.service.ts), for one user.        *)
(*                                                                         *)
(* Every database transaction and every read is one step; what a handler   *)
(* carries from a read across an await to a later transaction is kept in   *)
(* its process record.  verificationAttempts, the compare-and-swap counter *)
(* of a payment, only grows, so "the counter still has the value that was  *)
(* read" is kept as the flag fresh of the process that read it; the        *)
(* counter itself is kept up to the limit the code compares it with.       *)
(*                                                                         *)
(* One unit of clock is also one block: a transaction mined now lies in    *)
(* block clock, and blocks up to clock - FinalityLag are finalized.        *)
(***************************************************************************)
EXTENDS Integers, FiniteSets

CONSTANTS
    MaxOrders,           \* bound: orders the user places
    Hashes, NoHash,      \* transaction hashes
    Mismatched,          \* transfers of the wrong amount
    Kinds,               \* carts the user checks out
    HasProTerm,          \* the user starts with a Pro term
    Procs,               \* requests and jobs in flight
    QuoteTtl, OrderTtl,  \* lifetimes of a discount quote and of an order
    FinalityLag,         \* blocks between the head and the finalized head
    MaxMissingAttempts,  \* BILLING_MAX_MISSING_TRANSACTION_ATTEMPTS
    AiDiscountCap,       \* discounted AI carts per month (all of one size)
    MaxClock             \* bound: time and blocks

(* Carts: without a discount ("plain", perhaps with a plan in it), with a   *)
(* discount on a plan or on AI credits, and the immediate upgrades of a Pro *)
(* term to Premium, which may be discounted as any plan.                    *)
Carts == {"plain", "plan", "ai", "upgrade", "planUpgrade"}

isDiscounted(k) == k \in {"plan", "ai", "planUpgrade"}
isUpgrade(k) == k \in {"upgrade", "planUpgrade"}

ASSUME BillingAssumption ==
    /\ MaxOrders \in Nat \ {0}
    /\ NoHash \notin Hashes /\ Mismatched \subseteq Hashes
    /\ Kinds \subseteq Carts /\ HasProTerm \in BOOLEAN
    /\ QuoteTtl \in Nat /\ OrderTtl \in Nat /\ FinalityLag \in Nat
    /\ MaxMissingAttempts \in Nat \ {0}
    /\ AiDiscountCap \in Nat /\ MaxClock \in Nat \ {0}

Orders == 1..MaxOrders

VARIABLES
    clock,      \* time and head block
    chain,      \* block a transfer is mined in, 0 while it is not
    order,      \* billing_orders joined with their payment and reservation rows
    granted,    \* how often the purchase of an order was applied
    expiring,   \* rows the reservation expiry has selected and not yet written
    proc,       \* requests and jobs in flight
    sourceTerm  \* the user's Pro term, as upgrades find it

billingVars == <<clock, chain, order, granted, expiring, proc, sourceTerm>>

NoOrder ==
    [status |-> "NONE", raw |-> "none", kind |-> "plain", quotedAt |-> 0, createdAt |-> 0,
     txHash |-> NoHash, attempts |-> 0, verified |-> FALSE, resv |-> "none"]

Idle == [pc |-> "idle", ref |-> 0, arg |-> "none", tracking |-> FALSE, fresh |-> FALSE]

BillingInit ==
    /\ clock = 1
    /\ chain = [h \in Hashes |-> 0]
    /\ order = [o \in Orders |-> NoOrder]
    /\ granted = [o \in Orders |-> 0]
    /\ expiring = {}
    /\ proc = [p \in Procs |-> Idle]
    /\ sourceTerm = IF HasProTerm THEN "ACTIVE" ELSE "GONE"

-----------------------------------------------------------------------------
(* The questions the code asks of an order row. *)

isOpen(r) == r.status \in {"PENDING", "CONFIRMING"}
expiresAt(r) == r.quotedAt + OrderTtl
scanFromBlock(r) == r.quotedAt + 1
unclaimed(r) == r.txHash = NoHash

\* shouldTrackActivatedBillingPaymentFinality
shouldTrackFinality(r) ==
    r.status = "PAID" /\ r.raw = "payment_received" /\ ~r.verified /\ ~unclaimed(r)

\* shouldResumeVerifiedBillingPayment
shouldResume(r) == r.status = "CONFIRMING" /\ r.verified

isReceiptAcknowledged(raw) == raw \in {"payment_received", "onchain_confirmed", "resume"}

\* The hash is unique over all payments.
hashInUse(h, o) == \E q \in Orders \ {o} : order[q].txHash = h

\* Every compare-and-swap holder on the payment of o loses.
staleFor(o) ==
    [p \in Procs |-> IF proc[p].pc = "persist" /\ proc[p].ref = o
                     THEN [proc[p] EXCEPT !.fresh = FALSE] ELSE proc[p]]

-----------------------------------------------------------------------------
(* The chain. *)

tick ==
    /\ clock < MaxClock
    /\ clock' = clock + 1
    /\ UNCHANGED <<chain, order, granted, expiring, proc, sourceTerm>>

mine(h) ==
    /\ chain[h] = 0 /\ clock + FinalityLag <= MaxClock
    /\ chain' = [chain EXCEPT ![h] = clock]
    /\ UNCHANGED <<clock, order, granted, expiring, proc, sourceTerm>>

reorg(h) ==
    /\ chain[h] > clock - FinalityLag /\ chain[h] # 0
    /\ chain' = [chain EXCEPT ![h] = 0]
    /\ UNCHANGED <<clock, order, granted, expiring, proc, sourceTerm>>

\* Mutant: transfers mined before the checkout count.
verifyAnyBlock(r) ==
    LET b == chain[r.txHash] IN
    IF b = 0 THEN "missing" ELSE IF b > clock - FinalityLag THEN "confirming" ELSE "confirmed"

\* Mutant: the amount is not compared.
verifyAnyAmount(r) ==
    LET b == chain[r.txHash] IN
    IF b = 0 THEN "missing" ELSE IF b < scanFromBlock(r) THEN "mismatch"
    ELSE IF b > clock - FinalityLag THEN "confirming" ELSE "confirmed"

verifyArbitrumUsdcTransaction(r) ==
    LET b == chain[r.txHash] IN
    CASE b = 0                                             -> "missing"
      [] b # 0 /\ (b < scanFromBlock(r) \/ r.txHash \in Mismatched) -> "mismatch"
      [] b >= scanFromBlock(r) /\ r.txHash \notin Mismatched
            /\ b > clock - FinalityLag                     -> "confirming"
      [] OTHER                                             -> "confirmed"

-----------------------------------------------------------------------------
(* Checkout, cancellation and expiry. *)

withStaleExpired(rows) ==
    [o \in Orders |->
        IF rows[o].status = "PENDING" /\ clock >= expiresAt(rows[o]) /\ unclaimed(rows[o])
        THEN [rows[o] EXCEPT !.status = "EXPIRED"] ELSE rows[o]]

\* Also the whole effect of getBillingOrderForUser.
expireStalePendingBillingOrders ==
    /\ order' = withStaleExpired(order)
    /\ UNCHANGED <<clock, chain, granted, expiring, proc, sourceTerm>>

findOpenArbitrumOrder(rows) == {o \in Orders : isOpen(rows[o])}

unused == {o \in Orders : order[o].status = "NONE"}

\* Up to the quote, the wallet and the head block the new order is made from.
createBillingCheckout(p, k) ==
    /\ proc[p].pc = "idle" /\ unused # {} /\ clock + OrderTtl + FinalityLag <= MaxClock
    /\ isUpgrade(k) => sourceTerm = "ACTIVE"
    /\ order' = withStaleExpired(order)
    /\ proc' = IF findOpenArbitrumOrder(withStaleExpired(order)) # {} THEN proc
               ELSE [proc EXCEPT ![p] = [Idle EXCEPT !.pc = "create", !.ref = clock,
                                                     !.arg = k, !.fresh = TRUE]]
    /\ UNCHANGED <<clock, chain, granted, expiring, sourceTerm>>

aiDiscountsUsed ==
    {o \in Orders : order[o].kind = "ai" /\ order[o].resv \in {"RESERVED", "CONSUMED"}}

\* createUliqBenefitReservationInTransaction: the wallet the quote was made
\* for is still linked, and the month's cap has room.
reservationAllowed(p) ==
    /\ proc[p].fresh
    /\ proc[p].arg = "ai" => Cardinality(aiDiscountsUsed) < AiDiscountCap

createBillingOrderWithTreasurySnapshotCas(p) ==
    /\ proc[p].pc = "create"
    /\ LET k == proc[p].arg
           o == CHOOSE n \in unused : \A m \in unused : n <= m
           refused == unused = {} \/ (isDiscounted(k) /\ ~reservationAllowed(p))
           raced == findOpenArbitrumOrder(order) # {}     \* unique index: one open order
       IN  order' = IF refused THEN order
                    ELSE IF raced THEN withStaleExpired(order)
                    ELSE [order EXCEPT ![o] =
                            [NoOrder EXCEPT !.status = "PENDING", !.kind = k,
                                            !.quotedAt = proc[p].ref, !.createdAt = clock,
                                            !.resv = IF isDiscounted(k) THEN "RESERVED" ELSE "none"]]
    /\ proc' = [proc EXCEPT ![p] = Idle]
    /\ UNCHANGED <<clock, chain, granted, expiring, sourceTerm>>

released(r) == IF r.resv = "RESERVED" THEN [r EXCEPT !.resv = "RELEASED"] ELSE r

\* Its closing getBillingOrderForUser finds no other pending order to expire.
cancelBillingOrder(o) ==
    /\ order[o].status = "PENDING" /\ unclaimed(order[o])
    /\ order' = [order EXCEPT ![o] = released([@ EXCEPT !.status = "EXPIRED"])]
    /\ UNCHANGED <<clock, chain, granted, expiring, proc, sourceTerm>>

releaseOpenUliqReservationsForWalletChange ==
    /\ order' = [o \in Orders |-> released(order[o])]
    /\ proc' = [p \in Procs |-> IF proc[p].pc = "create"
                                THEN [proc[p] EXCEPT !.fresh = FALSE] ELSE proc[p]]
    /\ UNCHANGED <<clock, chain, granted, expiring, sourceTerm>>

\* Mutant: only the reservations of orders that are still open.
findPendingReservations ==
    /\ expiring = {}
    /\ expiring' = {o \in Orders : /\ order[o].resv = "RESERVED"
                                  /\ clock >= order[o].quotedAt + QuoteTtl
                                  /\ order[o].status = "PENDING"
                                  /\ unclaimed(order[o])}
    /\ UNCHANGED <<clock, chain, order, granted, proc, sourceTerm>>

(* expireUliqBenefitReservations selects the rows, then writes them.  It is *)
(* a transaction of its own, run by a job and awaited at the start of       *)
(* checkout, submit, reconciliation and discovery; nothing of it is carried *)
(* into what follows, so here it is a process that may run at any moment.   *)
findExpiredReservations ==
    /\ expiring = {}
    /\ expiring' = {o \in Orders :
                       /\ order[o].resv = "RESERVED"
                       /\ clock >= order[o].quotedAt + QuoteTtl
                       /\ order[o].status \in {"PENDING", "EXPIRED"}
                       /\ unclaimed(order[o])}
    /\ UNCHANGED <<clock, chain, order, granted, proc, sourceTerm>>

quoteExpired(r) ==
    IF r.resv # "RESERVED" THEN r
    ELSE [r EXCEPT !.resv = "RELEASED",
                   !.status = IF @ = "PENDING" /\ unclaimed(r) THEN "EXPIRED" ELSE @]

expireUliqBenefitReservations ==
    /\ expiring # {}
    /\ order' = [o \in Orders |-> IF o \in expiring THEN quoteExpired(order[o]) ELSE order[o]]
    /\ expiring' = {}
    /\ UNCHANGED <<clock, chain, granted, proc, sourceTerm>>

-----------------------------------------------------------------------------
(* The Pro term an upgrade is quoted for (bound: one in the user's life):   *)
(* ENDED once endsAt has passed, GONE once it is not the only ACTIVE Pro    *)
(* term, and that for good.                                                 *)

sourceTermEnds ==
    /\ sourceTerm = "ACTIVE"
    /\ sourceTerm' = "ENDED"
    /\ UNCHANGED <<clock, chain, order, granted, expiring, proc>>

\* The job writes GRACE, or activates a due term and expires this one.
runSubscriptionLifecycle ==
    /\ sourceTerm = "ENDED"
    /\ sourceTerm' = "GONE"
    /\ UNCHANGED <<clock, chain, order, granted, expiring, proc>>

\* What a purchase makes of it: an upgrade turns it into Premium, any other
\* plan schedules a second term, and a plain cart may hold a plan or not.
termAfter(k) ==
    IF isUpgrade(k) \/ k = "plan" THEN {"GONE"}
    ELSE IF k = "plain" THEN {sourceTerm, "GONE"} ELSE {sourceTerm}

-----------------------------------------------------------------------------
(* Submission, verification and finalization of a payment. *)

\* The reads before the claim only reject what the claim rejects too.  The
\* request goes on as reconcileBillingOrderPayment, the job's step as well; it
\* may also die before, so the claim is all that later steps can rely on.
submitBillingTransaction(o, h) ==
    /\ isOpen(order[o])
    /\ IF order[o].status = "PENDING" /\ clock >= expiresAt(order[o]) /\ unclaimed(order[o])
       THEN order' = [order EXCEPT ![o].status = "EXPIRED"]
       ELSE /\ order[o].txHash \in {NoHash, h} /\ ~hashInUse(h, o)
            /\ order' = [order EXCEPT ![o] = [@ EXCEPT !.status = "CONFIRMING",
                                                       !.raw = "submitted", !.txHash = h]]
    /\ UNCHANGED <<clock, chain, granted, expiring, proc, sourceTerm>>

\* Mutant: activated payments are not followed to finality.
reconcilableWhileOpen(p, o) ==
    proc[p].pc = "idle" /\ ~unclaimed(order[o]) /\ isOpen(order[o])

\* The orders reconcilePendingBillingPayments selects, or the one of a request.
reconcilable(p, o) ==
    /\ proc[p].pc = "idle"
    /\ ~unclaimed(order[o])
    /\ isOpen(order[o]) \/ shouldTrackFinality(order[o])

resumeVerifiedPayment(p, o) ==
    /\ reconcilable(p, o) /\ shouldResume(order[o])
    /\ proc' = [proc EXCEPT ![p] = [Idle EXCEPT !.pc = "finalize", !.ref = o, !.arg = "resume"]]
    /\ UNCHANGED <<clock, chain, order, granted, expiring, sourceTerm>>

\* Mutant: the order's deadline is compared the wrong way round.
shouldEscalateEarly(r) == r.attempts + 1 >= MaxMissingAttempts /\ clock < expiresAt(r)

shouldEscalateMissing(r) == r.attempts + 1 >= MaxMissingAttempts /\ clock >= expiresAt(r)

\* What will be written, decided from the row read before the RPC answered.
verdictOn(r, result) ==
    IF result \notin {"missing", "rpc_unavailable"} THEN result
    ELSE IF result = "missing" /\ shouldEscalateMissing(r) THEN "stale_missing"
    ELSE IF isReceiptAcknowledged(r.raw) THEN "receipt_kept"
    ELSE "retry"

reconcileWith(p, o, result) ==
    /\ reconcilable(p, o) /\ ~shouldResume(order[o])
    /\ proc' = [proc EXCEPT ![p] =
                   [pc |-> "persist", ref |-> o, arg |-> verdictOn(order[o], result),
                    tracking |-> shouldTrackFinality(order[o]), fresh |-> TRUE]]
    /\ UNCHANGED <<clock, chain, order, granted, expiring, sourceTerm>>

reconcileBillingOrderPayment(p, o) ==
    reconcileWith(p, o, verifyArbitrumUsdcTransaction(order[o]))

rpcUnavailable(p, o) == reconcileWith(p, o, "rpc_unavailable")

verificationAttempt(r) ==
    [r EXCEPT !.attempts = IF @ < MaxMissingAttempts THEN @ + 1 ELSE @]

\* The order and payment row after a verdict is written.
verificationTransition(r, verdict, tracking) ==
    LET undecided == IF tracking THEN "PAID" ELSE "CONFIRMING" IN
    CASE verdict \in {"stale_missing", "mismatch"} ->
            [r EXCEPT !.status = "REVIEW_REQUIRED", !.raw = "review"]
      [] verdict = "retry" ->
            [r EXCEPT !.status = undecided, !.raw = "rpc_retry"]
      [] verdict \in {"receipt_kept", "confirming"} ->
            [r EXCEPT !.status = undecided, !.raw = "payment_received"]
      [] verdict = "confirmed" ->
            [r EXCEPT !.status = undecided, !.raw = "onchain_confirmed", !.verified = TRUE]

casWon(p) ==
    LET r == order[proc[p].ref] IN
    /\ IF proc[p].tracking THEN r.status = "PAID" ELSE isOpen(r)
    /\ proc[p].fresh /\ ~r.verified

persistBillingVerificationTransition(p) ==
    /\ proc[p].pc = "persist" /\ casWon(p)
    /\ LET o == proc[p].ref
           verdict == proc[p].arg
           finalizes == verdict \in {"confirming", "confirmed"} /\ ~proc[p].tracking
       IN  /\ order' = [order EXCEPT ![o] =
                  verificationAttempt(verificationTransition(@, verdict, proc[p].tracking))]
           /\ proc' = [staleFor(o) EXCEPT ![p] =
                  IF finalizes
                  THEN [Idle EXCEPT !.pc = "finalize", !.ref = o,
                           !.arg = IF verdict = "confirmed" THEN "onchain_confirmed"
                                                           ELSE "payment_received"]
                  ELSE Idle]
    /\ UNCHANGED <<clock, chain, granted, expiring, sourceTerm>>

resolveBillingOrderAfterVerificationCasLoss(p) ==
    /\ proc[p].pc = "persist" /\ ~casWon(p)
    /\ proc' = [proc EXCEPT ![p] =
                   IF shouldResume(order[proc[p].ref])
                   THEN [Idle EXCEPT !.pc = "finalize", !.ref = proc[p].ref, !.arg = "resume"]
                   ELSE Idle]
    /\ UNCHANGED <<clock, chain, order, granted, expiring, sourceTerm>>

\* Mutant: the reservation's status is not looked at again.
consumableAnyway(r) == TRUE

\* consumeUliqBenefitReservationInTransaction throws unless this holds.
consumable(r) == r.resv \in {"none", "RESERVED"}

(* The upgrade finds the term it was quoted for, or throws                 *)
(* premium_upgrade_source_term_changed.  A payment verified before endsAt   *)
(* may still be finalized while the row is ACTIVE, one verified later not:  *)
(* when the term is ENDED both can happen.  The checks of the upgrade's     *)
(* metadata compare what checkout wrote with itself and do not fail.        *)
termAllows(r) == isUpgrade(r.kind) => sourceTerm # "GONE"
termRefuses(r) == isUpgrade(r.kind) /\ sourceTerm # "ACTIVE"

\* Mutant: the order's status is not re-read under the lock.
finalizingUnchecked(p) == proc[p].pc = "finalize"

finalizing(p) == proc[p].pc = "finalize" /\ order[proc[p].ref].status = "CONFIRMING"

\* The row of an order that is paid for, its discount consumed.
paidFor(r, raw) ==
    [r EXCEPT !.status = "PAID", !.raw = raw, !.resv = IF @ = "RESERVED" THEN "CONSUMED" ELSE @]

\* One transaction: the purchase, the reservation and the order together.
finalizeConfirmedBillingOrder(p) ==
    /\ finalizing(p) /\ consumable(order[proc[p].ref]) /\ termAllows(order[proc[p].ref])
    /\ LET o == proc[p].ref IN
       /\ order' = [order EXCEPT ![o] = paidFor(@, proc[p].arg)]
       /\ granted' = [granted EXCEPT ![o] = @ + 1]
       /\ sourceTerm' \in termAfter(order[o].kind)
    /\ proc' = [proc EXCEPT ![p] = Idle]
    /\ UNCHANGED <<clock, chain, expiring>>

\* isBillingFinalizationReviewError: no plan to top up, an invalid cart, lock
\* evidence that no longer holds.
finalizationReview(p) ==
    /\ finalizing(p)
    /\ order' = [order EXCEPT ![proc[p].ref] = [@ EXCEPT !.status = "REVIEW_REQUIRED",
                                                         !.raw = "review"]]
    /\ proc' = [proc EXCEPT ![p] = Idle]
    /\ UNCHANGED <<clock, chain, granted, expiring, sourceTerm>>

\* Already decided, or an error that is not a review error: rolled back.
finalizationEnds(p) ==
    /\ proc[p].pc = "finalize"
    /\ \/ ~finalizing(p)
       \/ ~consumable(order[proc[p].ref])
       \/ termRefuses(order[proc[p].ref])
    /\ proc' = [proc EXCEPT ![p] = Idle]
    /\ UNCHANGED <<clock, chain, order, granted, expiring, sourceTerm>>

\* The process serving a request or running the job dies between two steps.
crash(p) ==
    /\ proc[p].pc # "idle"
    /\ proc' = [proc EXCEPT ![p] = Idle]
    /\ UNCHANGED <<clock, chain, order, granted, expiring, sourceTerm>>

-----------------------------------------------------------------------------
Payment(p) ==
    \/ \E o \in Orders : resumeVerifiedPayment(p, o) \/ reconcileBillingOrderPayment(p, o)
    \/ persistBillingVerificationTransition(p)
    \/ resolveBillingOrderAfterVerificationCasLoss(p)
    \/ finalizeConfirmedBillingOrder(p)
    \/ finalizationReview(p)
    \/ finalizationEnds(p)

BillingNext ==
    \/ tick
    \/ \E h \in Hashes : mine(h) \/ reorg(h)
    \/ expireStalePendingBillingOrders
    \/ \E p \in Procs, k \in Kinds : createBillingCheckout(p, k)
    \/ \E p \in Procs : createBillingOrderWithTreasurySnapshotCas(p)
    \/ \E o \in Orders : cancelBillingOrder(o)
    \/ releaseOpenUliqReservationsForWalletChange
    \/ sourceTermEnds
    \/ runSubscriptionLifecycle
    \/ findExpiredReservations
    \/ expireUliqBenefitReservations
    \/ \E o \in Orders, h \in Hashes : submitBillingTransaction(o, h)
    \/ \E p \in Procs, o \in Orders : rpcUnavailable(p, o)
    \/ \E p \in Procs : Payment(p) \/ crash(p)

BillingSpec == BillingInit /\ [][BillingNext]_billingVars

-----------------------------------------------------------------------------
\* Every row and every request in flight is of its type; PENDING orders have
\* no transaction, CONFIRMING and PAID ones do.
BillingTypeOK ==
    /\ clock \in 1..MaxClock
    /\ chain \in [Hashes -> 0..MaxClock]
    /\ order \in [Orders ->
          [status : {"NONE", "PENDING", "CONFIRMING", "PAID", "EXPIRED", "REVIEW_REQUIRED"},
           raw : {"none", "submitted", "rpc_retry", "payment_received",
                  "onchain_confirmed", "resume", "review"},
           kind : Carts, quotedAt : 0..MaxClock, createdAt : 0..MaxClock,
           txHash : Hashes \cup {NoHash}, attempts : 0..MaxMissingAttempts,
           verified : BOOLEAN, resv : {"none", "RESERVED", "CONSUMED", "RELEASED"}]]
    /\ granted \in [Orders -> 0..1]
    /\ expiring \subseteq Orders
    /\ proc \in [Procs ->
          [pc : {"idle", "create", "persist", "finalize"}, ref : 0..MaxClock + MaxOrders,
           arg : Carts \cup {"none", "stale_missing", "mismatch", "retry",
                             "receipt_kept", "confirming", "confirmed",
                             "payment_received", "onchain_confirmed", "resume"},
           tracking : BOOLEAN, fresh : BOOLEAN]]
    /\ sourceTerm \in {"ACTIVE", "ENDED", "GONE"}
    /\ \A o \in Orders : /\ order[o].status = "PENDING" => unclaimed(order[o])
                         /\ order[o].status \in {"CONFIRMING", "PAID"} => ~unclaimed(order[o])

\* A payment recorded as verified is a transfer of the right amount in a
\* finalized block after the checkout, and an order that is PAID was never
\* paid by a wrong or an earlier transfer, however stale the verification
\* that activated it was when it was written.
PaymentsBackOrders ==
    \A o \in Orders :
        LET h == order[o].txHash IN
        /\ order[o].verified =>
              h \notin Mismatched /\ chain[h] \in scanFromBlock(order[o])..(clock - FinalityLag)
        /\ order[o].status = "PAID" =>
              h \notin Mismatched /\ (chain[h] = 0 \/ chain[h] >= scanFromBlock(order[o]))

(* The promise OrderDecisions states, as kept by the tables. *)

decisionOf(r) ==
    CASE r.status = "NONE" -> "none"
      [] isOpen(r) -> "open"
      [] r.status = "EXPIRED" -> "closed"
      [] r.status = "PAID" -> "paid"
      [] r.status = "REVIEW_REQUIRED" -> "review"

discountOf(r) ==
    CASE r.resv = "none" -> "none"
      [] r.resv = "RESERVED" -> IF r.kind = "ai" THEN "held" ELSE "plan"
      [] r.resv = "CONSUMED" -> IF r.kind = "ai" THEN "used" ELSE "planUsed"
      [] r.resv = "RELEASED" -> "freed"

Decisions == INSTANCE OrderDecisions WITH
    Orders      <- Orders,
    DiscountCap <- AiDiscountCap,
    decision    <- [o \in Orders |-> decisionOf(order[o])],
    discount    <- [o \in Orders |-> discountOf(order[o])],
    handedOut   <- granted

\* Whatever the interleaving of checkouts, submissions, verifications, expiry
\* and wallet changes: one open order, one decision revised only to review,
\* one purchase per paid order, and discounts used only by paid orders and
\* never beyond the cap.
OrdersDecidedOnce == Decisions!Spec

-----------------------------------------------------------------------------
(* Progress.  The reconciliation job runs every few seconds; RPC failures   *)
(* and crashes may recur but not at every attempt.                          *)

\* A verdict other than "ask again later" is written.
persistDecision(p) ==
    proc[p].arg \notin {"retry", "receipt_kept"} /\ persistBillingVerificationTransition(p)

Finalize(p) == finalizeConfirmedBillingOrder(p) \/ finalizationReview(p) \/ finalizationEnds(p)

BillingFairness ==
    /\ WF_billingVars(tick)
    /\ WF_billingVars(\E p \in Procs : createBillingOrderWithTreasurySnapshotCas(p))
    /\ WF_billingVars(findExpiredReservations \/ expireUliqBenefitReservations)
    /\ \A o \in Orders : SF_billingVars(\E p \in Procs : reconcileBillingOrderPayment(p, o)
                                                         \/ resumeVerifiedPayment(p, o))
    /\ SF_billingVars(\E p \in Procs : persistBillingVerificationTransition(p)
                                       \/ resolveBillingOrderAfterVerificationCasLoss(p))
    /\ SF_billingVars(\E p \in Procs : persistDecision(p))
    /\ SF_billingVars(\E p \in Procs : Finalize(p))

BillingFairSpec == BillingSpec /\ BillingFairness

decided(o) == order[o].status \in {"PAID", "REVIEW_REQUIRED"}

\* The two errors of finalization that are not review errors and repeat at
\* every attempt.
blocked(o) == ~consumable(order[o]) \/ termRefuses(order[o])

\* A submitted payment is decided, the purchase activated or an operator
\* asked, unless its reservation has been released or the term it upgrades
\* has ended or changed; nothing else leaves an order CONFIRMING.
PaymentsDecidedUnlessBlocked ==
    \A o \in Orders : (order[o].status = "CONFIRMING") ~> (decided(o) \/ blocked(o))

\* A purchase activated before finality is later verified or reviewed, also
\* when its transaction is reorganised away.
ProvisionalPaymentsSettled ==
    \A o \in Orders :
        (order[o].status = "PAID" /\ ~order[o].verified)
            ~> (order[o].verified \/ order[o].status = "REVIEW_REQUIRED")

\* A discount an abandoned checkout holds against the monthly cap is given
\* back.
AbandonedDiscountsReturned ==
    \A o \in Orders :
        (order[o].status = "EXPIRED" /\ order[o].resv = "RESERVED")
            ~> (order[o].status # "EXPIRED" \/ order[o].resv = "RELEASED")

\* Every submitted payment is decided.
AllPaymentsDecided ==
    \A o \in Orders : (order[o].status = "CONFIRMING") ~> decided(o)
=============================================================================
