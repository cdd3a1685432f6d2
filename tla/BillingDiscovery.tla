-------------------------- MODULE BillingDiscovery --------------------------
(***************************************************************************)
(* discoverMissingBillingTransactions: the job that reads the finalized    *)
(* USDC transfers to the treasury, gives each to the order it belongs to   *)
(* and moves a cursor, so that a payment whose hash the browser never      *)
(* submitted is still found.  It runs beside everything in BillingOrders.  *)
(*                                                                         *)
(* Every transfer in Hashes goes from the user's wallet to the treasury,   *)
(* so all belong to one scope.  The job's back-off after a failure only    *)
(* delays the next scan and is left out; a cursor of 0 is no cursor row.   *)
(***************************************************************************)
EXTENDS BillingOrders

CONSTANTS
    RecoveryHorizon,   \* BILLING_LATE_PAYMENT_RECOVERY_MS
    Overlap,           \* BILLING_DISCOVERY_REORG_OVERLAP_BLOCKS
    Chunk              \* BILLING_DISCOVERY_SCAN_CHUNK_BLOCKS

\* The block being made is not final.
ASSUME DiscoveryAssumption ==
    /\ FinalityLag > 0
    /\ RecoveryHorizon \in Nat /\ Overlap \in Nat \ {0} /\ Chunk \in Nat /\ Chunk > Overlap

VARIABLES
    cursor,   \* lastScannedBlock
    scan      \* the scan in flight

discoveryVars == <<billingVars, cursor, scan>>

NoScan ==
    [pc |-> "idle", now |-> 0, head |-> 0, scope |-> {}, hint |-> 0, to |-> 0,
     todo |-> {}, found |-> [o \in Orders |-> {}]]

DiscoveryInit == BillingInit /\ cursor = 0 /\ scan = NoScan

-----------------------------------------------------------------------------
\* Payments without a hash whose order is not older than the recovery horizon.
eligible(o, now) ==
    /\ order[o].status \in {"PENDING", "EXPIRED"} /\ unclaimed(order[o])
    /\ expiresAt(order[o]) >= now - RecoveryHorizon

\* The order of a scope: by first block, then by age.
notAfter(o, q) ==
    \/ scanFromBlock(order[o]) < scanFromBlock(order[q])
    \/ /\ scanFromBlock(order[o]) = scanFromBlock(order[q])
       /\ o <= q

\* assignBillingDiscoveryTransactionHashes: the last order that could be paid
\* in this block owns its transfers.
assigned(o, block, payments) ==
    /\ o \in payments /\ scanFromBlock(order[o]) <= block
    /\ \A q \in payments : scanFromBlock(order[q]) <= block => notAfter(q, o)

\* Mutant: every scan starts at the first order's block.
scanStartAtHint(hint) == hint

\* getBillingDiscoveryScanRange
scanStart(hint) ==
    LET back == cursor + 1 - Overlap IN
    IF cursor > 0 /\ back > hint THEN back ELSE hint

scanEnd(hint, head) ==
    LET chunkEnd == scanStart(hint) + Chunk - 1 IN
    IF chunkEnd < head THEN chunkEnd ELSE head

-----------------------------------------------------------------------------
\* The finalized head is read before the payments of the scope.
readFinalizedHead ==
    /\ scan.pc = "idle" /\ \E o \in Orders : eligible(o, clock)
    /\ scan' = [NoScan EXCEPT !.pc = "capture", !.now = clock, !.head = clock - FinalityLag]
    /\ UNCHANGED <<billingVars, cursor>>

captureBillingDiscoveryScopeAfterHead ==
    /\ scan.pc = "capture"
    /\ LET scope == {o \in Orders : eligible(o, scan.now)}
           hint == CHOOSE b \in {scanFromBlock(order[o]) : o \in scope} :
                       \A o \in scope : b <= scanFromBlock(order[o])
           to == scanEnd(hint, scan.head)
       IN  scan' = IF scope = {} THEN NoScan
                   ELSE IF hint > scan.head \/ cursor >= scan.head THEN NoScan
                   ELSE [scan EXCEPT !.pc = "persist", !.scope = scope, !.hint = hint,
                            !.to = to, !.todo = scope,
                            !.found = [o \in Orders |->
                                {h \in Hashes : /\ chain[h] \in scanStart(hint)..to
                                                /\ assigned(o, chain[h], scope)}]]
    /\ UNCHANGED <<billingVars, cursor>>

\* Mutant: the hash is not written with the status.
discoveredWithoutHash(r, hashes) ==
    [r EXCEPT !.status = IF @ = "EXPIRED" THEN "REVIEW_REQUIRED" ELSE "CONFIRMING"]

\* Mutant: a payment found late reopens its order.
discoveredReopens(r, hashes) ==
    [r EXCEPT !.status = "CONFIRMING", !.raw = "submitted", !.txHash = CHOOSE x \in hashes : TRUE]

\* persistBillingDiscoveryTransition, for an order that still has no hash.
discovered(r, hashes) ==
    LET late == r.status = "EXPIRED" \/ expiresAt(r) <= scan.now
        h == CHOOSE x \in hashes : TRUE
    IN  IF Cardinality(hashes) > 1 \/ \E q \in Orders : order[q].txHash = h
        THEN [r EXCEPT !.status = "REVIEW_REQUIRED", !.raw = "review"]
        ELSE [r EXCEPT !.status = IF late THEN "REVIEW_REQUIRED" ELSE "CONFIRMING",
                       !.raw = IF late THEN "review" ELSE "submitted",
                       !.txHash = h]

\* With its one retry the write uses the status the order has by then; an
\* order that got a hash meanwhile is left alone.
persistBillingDiscoveryCandidate ==
    /\ scan.pc = "persist" /\ scan.todo # {}
    /\ LET o == CHOOSE q \in scan.todo : \A r \in scan.todo : notAfter(q, r)
       IN  /\ order' = IF scan.found[o] # {} /\ unclaimed(order[o])
                       THEN [order EXCEPT ![o] = discovered(@, scan.found[o])] ELSE order
           /\ scan' = [scan EXCEPT !.todo = @ \ {o}]
    /\ UNCHANGED <<clock, chain, granted, expiring, proc, sourceTerm, cursor>>

\* Mutant: the cursor moves past a range whose scan failed.
scanFailedAdvances ==
    /\ scan' = NoScan
    /\ cursor' = IF scan.to > cursor THEN scan.to ELSE cursor
    /\ UNCHANGED billingVars

\* markFailed: a cursor is created where there is none, and never moved.
scanFailed ==
    /\ scan' = NoScan
    /\ cursor' = IF cursor = 0 /\ scan.hint > 0 THEN scan.hint - 1 ELSE cursor
    /\ UNCHANGED billingVars

assertBillingDiscoveryScopeStableBeforeCursor ==
    /\ scan.pc = "persist" /\ scan.todo = {}
    /\ IF \E o \in Orders \ scan.scope : eligible(o, scan.now) /\ scanFromBlock(order[o]) <= scan.to
       THEN scanFailed
       ELSE /\ scan' = [scan EXCEPT !.pc = "advance"]
            /\ UNCHANGED <<billingVars, cursor>>

advanceCursor ==
    /\ scan.pc = "advance"
    /\ cursor' = scan.to
    /\ scan' = NoScan
    /\ UNCHANGED billingVars

\* An RPC or database error, at any point of the scan.
discoveryFails == scan.pc # "idle" /\ scanFailed

Discover ==
    \/ readFinalizedHead
    \/ captureBillingDiscoveryScopeAfterHead
    \/ persistBillingDiscoveryCandidate
    \/ assertBillingDiscoveryScopeStableBeforeCursor
    \/ advanceCursor

DiscoveryNext ==
    \/ BillingNext /\ UNCHANGED <<cursor, scan>>
    \/ Discover
    \/ discoveryFails

DiscoverySpec == DiscoveryInit /\ [][DiscoveryNext]_discoveryVars

-----------------------------------------------------------------------------
\* The scan in flight and the cursor are of their types.
DiscoveryTypeOK ==
    /\ BillingTypeOK
    /\ cursor \in 0..MaxClock
    /\ scan.pc \in {"idle", "capture", "persist", "advance"}
    /\ scan.todo \subseteq scan.scope /\ scan.scope \subseteq Orders
    /\ scan.found \in [Orders -> SUBSET Hashes]

claimed(h) == \E o \in Orders : order[o].txHash = h

\* The newest order the user had placed before a transfer never goes on
\* waiting for a payment the cursor has passed, whatever was created,
\* expired, cancelled or submitted while the scan ran and wherever it failed.
NoPaymentOverlooked ==
    \A h \in Hashes, o \in Orders :
        LET placed == {q \in Orders : order[q].status # "NONE"} IN
        ~ /\ chain[h] # 0 /\ chain[h] <= cursor /\ ~claimed(h)
          /\ eligible(o, clock) /\ order[o].createdAt < chain[h]
          /\ assigned(o, chain[h], placed)

-----------------------------------------------------------------------------
\* The discovery job runs every thirty seconds and does not fail every time.
DiscoveryFairSpec ==
    /\ DiscoverySpec
    /\ WF_discoveryVars(tick /\ UNCHANGED <<cursor, scan>>)
    /\ SF_discoveryVars(readFinalizedHead)
    /\ SF_discoveryVars(captureBillingDiscoveryScopeAfterHead)
    /\ \A o \in Orders : SF_discoveryVars(/\ persistBillingDiscoveryCandidate
                                          /\ o \in scan.todo \ scan'.todo)
    /\ SF_discoveryVars(assertBillingDiscoveryScopeStableBeforeCursor)
    /\ SF_discoveryVars(advanceCursor)

\* A final transfer to the newest order placed before it is attached to an
\* order, or the order it would be attached to asks for review, even if
\* nobody ever submits its hash (unless the order falls out of the recovery
\* horizon first).
PaymentsFound ==
    LET placed == {q \in Orders : order[q].status # "NONE"} IN
    \A h \in Hashes, o \in Orders :
        (/\ chain[h] # 0 /\ chain[h] <= clock - FinalityLag
         /\ order[o].status \in {"PENDING", "EXPIRED"} /\ order[o].createdAt < chain[h]
         /\ assigned(o, chain[h], placed))
        ~> \/ claimed(h) \/ ~eligible(o, clock)
           \/ \E q \in Orders : /\ assigned(q, chain[h], placed)
                                /\ order[q].status = "REVIEW_REQUIRED"
=============================================================================
