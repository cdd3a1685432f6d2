---------------------------- MODULE BillingProofs ----------------------------
(***************************************************************************)
(* Proofs about BillingOrders and BillingDiscovery.                        *)
(*                                                                         *)
(* RowStep says what one step, of whatever request or job, may do to one   *)
(* order row; every action but the creation of an order is shown to change *)
(* every row by a RowStep, and the invariants are then shown to survive    *)
(* any RowStep.                                                            *)
(*                                                                         *)
(* That no payment is overlooked is not inductive by itself: DiscoveryInv  *)
(* adds what a scan in flight has seen, so that the cursor may pass its    *)
(* range when it ends.                                                     *)
(***************************************************************************)
EXTENDS BillingDiscovery, SumTheorems

Row ==
    [status : {"NONE", "PENDING", "CONFIRMING", "PAID", "EXPIRED", "REVIEW_REQUIRED"},
     raw : {"none", "submitted", "rpc_retry", "payment_received",
            "onchain_confirmed", "resume", "review"},
     kind : Carts, quotedAt : 0..MaxClock, createdAt : 0..MaxClock,
     txHash : Hashes \cup {NoHash}, attempts : 0..MaxMissingAttempts,
     verified : BOOLEAN, resv : {"none", "RESERVED", "CONSUMED", "RELEASED"}]

Verdicts == {"stale_missing", "mismatch", "retry", "receipt_kept", "confirming", "confirmed"}
Receipts == {"payment_received", "onchain_confirmed", "resume"}

ProcRow ==
    [pc : {"idle", "create", "persist", "finalize"}, ref : 0..MaxClock + MaxOrders,
     arg : {"none"} \cup Carts \cup Verdicts \cup Receipts,
     tracking : BOOLEAN, fresh : BOOLEAN]

waiting(r) == r.status \in {"PENDING", "EXPIRED"}

RowOK(r) ==
    /\ r \in Row
    /\ r.status \in {"NONE", "PENDING"} => unclaimed(r)
    /\ r.status = "NONE" => r.resv = "none"
    /\ r.status \in {"CONFIRMING", "PAID"} => ~unclaimed(r)
    /\ r.verified => ~unclaimed(r)

\* The transfer of a row, while it is on chain, is one that pays for it.
Backed(r) ==
    /\ r.txHash \notin Mismatched
    /\ chain[r.txHash] = 0 \/ chain[r.txHash] >= scanFromBlock(r)
    /\ clock >= scanFromBlock(r)

\* The transfer of a row pays for it and is final.
Final(r) ==
    /\ r.txHash \notin Mismatched
    /\ chain[r.txHash] \in scanFromBlock(r)..(clock - FinalityLag)

\* What a process carries across its awaits.
ProcOK(p) ==
    LET d == proc[p]
        r == order[d.ref]
    IN  /\ d \in ProcRow
        /\ d.pc = "create" => d.arg \in Carts /\ d.ref \in 1..clock
        /\ d.pc \in {"persist", "finalize"} => d.ref \in Orders /\ ~unclaimed(r)
        /\ d.pc = "persist" => /\ d.arg \in Verdicts
                               /\ d.arg = "confirming" => Backed(r)
                               /\ d.arg = "confirmed" => Final(r)
        /\ d.pc = "finalize" => d.arg \in Receipts /\ Backed(r)

ChainOK ==
    /\ clock \in 1..MaxClock
    /\ chain \in [Hashes -> 0..MaxClock]
    /\ \A h \in Hashes : chain[h] <= clock

RowsOK ==
    /\ order \in [Orders -> Row]
    /\ \A o \in Orders : /\ RowOK(order[o])
                         /\ order[o].verified => Final(order[o])
                         /\ order[o].status = "PAID" => Backed(order[o])

OneOpen == \A o, q \in Orders : isOpen(order[o]) /\ isOpen(order[q]) => o = q

GrantsOK ==
    /\ granted \in [Orders -> 0..1]
    /\ \A o \in Orders : granted[o] = 1 => order[o].status \in {"PAID", "REVIEW_REQUIRED"}

ProcsOK ==
    /\ proc \in [Procs -> ProcRow]
    /\ \A p \in Procs : ProcOK(p)

BillingInv ==
    /\ ChainOK /\ RowsOK /\ OneOpen /\ GrantsOK /\ ProcsOK
    /\ expiring \subseteq Orders

\* The Pro term; kept apart, since no step reads it but the upgrade's.
TermOK == sourceTerm \in {"ACTIVE", "ENDED", "GONE"}

-----------------------------------------------------------------------------
\* What a step may do to an order row.
RowMove(r, s) ==
    /\ RowOK(s)
    /\ r.status = "NONE" => s = r
    /\ r.status # "NONE" => /\ s.status # "NONE"
                            /\ s.quotedAt = r.quotedAt /\ s.createdAt = r.createdAt
    /\ ~unclaimed(r) => s.txHash = r.txHash
    /\ isOpen(s) => isOpen(r)
    /\ waiting(s) => waiting(r)
    /\ s.verified => r.verified \/ Final(s)
    /\ s.status = "PAID" => r.status = "PAID" \/ Backed(s)

\* Steps other than the discovery job's send no unpaid order to review.
RowStep(r, s) ==
    /\ RowMove(r, s)
    /\ waiting(r) /\ unclaimed(s) => waiting(s)

Moving == order' \in [Orders -> Row] /\ \A o \in Orders : RowMove(order[o], order'[o])
Orderly == order' \in [Orders -> Row] /\ \A o \in Orders : RowStep(order[o], order'[o])

LEMMA OrderlyMoves == Orderly => Moving
BY DEF Orderly, Moving, RowStep

LEMMA RowStays ==
    ASSUME NEW r, RowOK(r)
    PROVE  RowStep(r, r)
BY DEF RowStep, RowMove

\* Lapsing, release and expiry of a discount.
LEMMA RowRetires ==
    ASSUME NEW r, RowOK(r), NEW status \in {"EXPIRED", r.status},
           NEW resv \in {"none", "RESERVED", "CONSUMED", "RELEASED"},
           status # r.status => r.status = "PENDING" /\ unclaimed(r),
           r.status = "NONE" => resv = "none"
    PROVE  RowStep(r, [r EXCEPT !.status = status, !.resv = resv])
<1> DEFINE s == [r EXCEPT !.status = status, !.resv = resv]
<1>1. /\ s \in Row /\ s.status = status /\ s.resv = resv
      /\ s.raw = r.raw /\ s.kind = r.kind /\ s.quotedAt = r.quotedAt /\ s.createdAt = r.createdAt
      /\ s.txHash = r.txHash /\ s.attempts = r.attempts /\ s.verified = r.verified
  BY DEF RowOK, Row
<1>2. r.status = "NONE" => s = r
  BY DEF RowOK, Row
<1> HIDE DEF s
<1>3. RowOK(s)
  BY <1>1 DEF RowOK, unclaimed
<1> QED
  BY <1>1, <1>2, <1>3 DEF RowStep, RowMove, isOpen, waiting, RowOK, unclaimed, s

\* A submitted hash.
LEMMA RowSubmitted ==
    ASSUME NEW r, RowOK(r), isOpen(r), NEW h \in Hashes, r.txHash \in {NoHash, h}
    PROVE  RowStep(r, [r EXCEPT !.status = "CONFIRMING", !.raw = "submitted", !.txHash = h])
<1> DEFINE s == [r EXCEPT !.status = "CONFIRMING", !.raw = "submitted", !.txHash = h]
<1>1. /\ s \in Row /\ s.status = "CONFIRMING" /\ s.txHash = h /\ s.verified = r.verified
      /\ s.quotedAt = r.quotedAt /\ s.createdAt = r.createdAt
  BY DEF RowOK, Row
<1> HIDE DEF s
<1>2. RowOK(s) /\ ~unclaimed(s)
  BY <1>1, BillingAssumption DEF RowOK, unclaimed
<1>3. r.verified => r.txHash = h
  BY DEF RowOK, unclaimed
<1> QED
  BY <1>1, <1>2, <1>3 DEF RowStep, RowMove, isOpen, waiting, RowOK, unclaimed, s

\* Handed over to an operator.
LEMMA RowReviewed ==
    ASSUME NEW r, RowOK(r), ~unclaimed(r)
    PROVE  RowStep(r, [r EXCEPT !.status = "REVIEW_REQUIRED", !.raw = "review"])
<1> DEFINE s == [r EXCEPT !.status = "REVIEW_REQUIRED", !.raw = "review"]
<1>1. /\ s \in Row /\ s.status = "REVIEW_REQUIRED" /\ s.txHash = r.txHash
      /\ s.verified = r.verified /\ s.quotedAt = r.quotedAt /\ s.createdAt = r.createdAt
  BY DEF RowOK, Row
<1> HIDE DEF s
<1> QED
  BY <1>1 DEF RowStep, RowMove, isOpen, waiting, RowOK, unclaimed, s

\* The purchase is applied.
paidRow(r, raw, resv) == [r EXCEPT !.status = "PAID", !.raw = raw, !.resv = resv]

LEMMA PaidRow ==
    ASSUME NEW r \in Row, NEW raw \in Receipts,
           NEW resv \in {"none", "RESERVED", "CONSUMED", "RELEASED"}
    PROVE  LET t == paidRow(r, raw, resv)
           IN  /\ t \in Row /\ t.status = "PAID" /\ t.kind = r.kind /\ t.resv = resv
               /\ t.txHash = r.txHash /\ t.verified = r.verified
               /\ t.quotedAt = r.quotedAt /\ t.createdAt = r.createdAt
BY DEF paidRow, Row, Receipts

LEMMA RowPaid ==
    ASSUME NEW r, RowOK(r), r.status = "CONFIRMING", Backed(r), NEW raw \in Receipts,
           NEW resv \in {"none", "RESERVED", "CONSUMED", "RELEASED"}
    PROVE  RowStep(r, paidRow(r, raw, resv))
<1> DEFINE s == paidRow(r, raw, resv)
<1>0. r \in Row
  BY DEF RowOK
<1>1. /\ s \in Row /\ s.status = "PAID" /\ s.txHash = r.txHash /\ s.resv = resv
      /\ s.verified = r.verified /\ s.quotedAt = r.quotedAt /\ s.createdAt = r.createdAt
  BY <1>0 DEF paidRow, Row, Receipts
<1> HIDE DEF s
<1>2. Backed(s)
  BY <1>1 DEF Backed, scanFromBlock
<1> QED
  BY <1>1, <1>2 DEF RowStep, RowMove, isOpen, waiting, RowOK, unclaimed, s

\* A verdict is written.
LEMMA RowVerified ==
    ASSUME NEW r, RowOK(r), ~unclaimed(r), NEW tracking \in BOOLEAN,
           IF tracking THEN r.status = "PAID" ELSE isOpen(r),
           NEW verdict \in Verdicts, verdict = "confirmed" => Final(r)
    PROVE  RowStep(r, verificationAttempt(verificationTransition(r, verdict, tracking)))
<1> DEFINE t == verificationTransition(r, verdict, tracking)
           s == verificationAttempt(t)
<1>1. /\ t \in Row /\ t.txHash = r.txHash /\ t.quotedAt = r.quotedAt /\ t.createdAt = r.createdAt
      /\ t.status \in {"REVIEW_REQUIRED", IF tracking THEN "PAID" ELSE "CONFIRMING"}
      /\ t.verified => r.verified \/ verdict = "confirmed"
  BY DEF verificationTransition, Verdicts, RowOK, Row
<1> HIDE DEF t
<1>2. /\ s \in Row /\ s.txHash = r.txHash /\ s.quotedAt = r.quotedAt /\ s.createdAt = r.createdAt
      /\ s.status = t.status /\ s.verified = t.verified
  BY <1>1, BillingAssumption DEF verificationAttempt, Row
<1> HIDE DEF s
<1>3. verdict = "confirmed" => Final(s)
  BY <1>2 DEF Final, scanFromBlock
<1>4. RowOK(s)
  BY <1>1, <1>2 DEF RowOK, unclaimed
<1> QED
  BY <1>1, <1>2, <1>3, <1>4 DEF RowStep, RowMove, isOpen, waiting, RowOK, unclaimed, s, t

-----------------------------------------------------------------------------
(* The invariants survive such steps. *)

LEMMA MovingRows ==
    ASSUME ChainOK, RowsOK, OneOpen, Moving, UNCHANGED <<clock, chain>>
    PROVE  ChainOK' /\ RowsOK' /\ OneOpen'
<1>1. ChainOK'
  BY DEF ChainOK
<1>2. ASSUME NEW o \in Orders
      PROVE  /\ RowOK(order'[o])
             /\ order'[o].verified => Final(order[o])'
             /\ order'[o].status = "PAID" => Backed(order[o])'
  <2> DEFINE r == order[o]
             s == order'[o]
  <2>1. RowMove(r, s) /\ RowOK(r) /\ (r.verified => Final(r)) /\ (r.status = "PAID" => Backed(r))
    BY DEF Moving, RowsOK
  <2>2. /\ Final(order[o])' = Final(s)
        /\ Backed(order[o])' = Backed(s)
    BY DEF Final, Backed, scanFromBlock
  <2> HIDE DEF r, s
  <2>3. r.verified \/ r.status = "PAID" => s.txHash = r.txHash /\ s.quotedAt = r.quotedAt
    BY <2>1 DEF RowMove, RowOK
  <2>4. (r.verified => Final(s)) /\ (r.status = "PAID" => Backed(s))
    BY <2>1, <2>3 DEF Final, Backed, scanFromBlock
  <2>5. RowOK(s) /\ (s.verified => Final(s)) /\ (s.status = "PAID" => Backed(s))
    BY <2>1, <2>4 DEF RowMove
  <2> QED
    BY <2>2, <2>5 DEF s
<1>3. RowsOK'
  BY <1>2 DEF RowsOK, Moving, RowOK, unclaimed
<1>4. OneOpen'
  BY DEF OneOpen, Moving, RowMove, isOpen
<1> QED
  BY <1>1, <1>3, <1>4

LEMMA MovingGrants ==
    ASSUME RowsOK, GrantsOK, Moving, granted' = granted
    PROVE  GrantsOK'
<1>1. ASSUME NEW o \in Orders, granted[o] = 1
      PROVE  order'[o].status \in {"PAID", "REVIEW_REQUIRED"}
  <2>1. order[o].status \in {"PAID", "REVIEW_REQUIRED"}
    BY <1>1 DEF GrantsOK
  <2>2. RowMove(order[o], order'[o]) /\ order'[o] \in Row
    BY DEF Moving
  <2> QED
    BY <2>1, <2>2 DEF RowMove, isOpen, waiting, Row
<1> QED
  BY <1>1 DEF GrantsOK

\* A process that carries on, or whose compare-and-swap will fail.
LEMMA MovingProc ==
    ASSUME ChainOK, RowsOK, Moving, UNCHANGED <<clock, chain>>,
           NEW p \in Procs, ProcOK(p), NEW fresh \in BOOLEAN,
           proc'[p] = [proc[p] EXCEPT !.fresh = fresh]
    PROVE  ProcOK(p)'
<1>0. PICK d, e : d = proc[p] /\ e = proc'[p]
  OBVIOUS
<1>1. /\ e \in ProcRow /\ d \in ProcRow
      /\ e.pc = d.pc /\ e.arg = d.arg /\ e.ref = d.ref
  BY <1>0 DEF ProcOK, ProcRow
<1>2. ASSUME d.pc \in {"persist", "finalize"}
      PROVE  /\ d.ref \in Orders /\ ~unclaimed(order'[d.ref])
             /\ Backed(order[d.ref]) => Backed(order[d.ref])'
             /\ Final(order[d.ref]) => Final(order[d.ref])'
  <2>1. d.ref \in Orders /\ ~unclaimed(order[d.ref])
    BY <1>0, <1>2 DEF ProcOK
  <2>2. RowMove(order[d.ref], order'[d.ref]) /\ RowOK(order[d.ref])
    BY <2>1 DEF Moving, RowsOK
  <2>3. /\ order'[d.ref].txHash = order[d.ref].txHash
        /\ order'[d.ref].quotedAt = order[d.ref].quotedAt
    BY <2>1, <2>2 DEF RowMove, RowOK
  <2> QED
    BY <1>1, <2>1, <2>3 DEF Final, Backed, scanFromBlock, unclaimed
<1>3. /\ d.pc \in {"persist", "finalize"} => d.ref \in Orders /\ ~unclaimed(order'[d.ref])
      /\ d.pc = "create" => d.arg \in Carts /\ d.ref \in 1..clock'
      /\ d.pc = "persist" => /\ d.arg \in Verdicts
                             /\ d.arg = "confirming" => Backed(order[d.ref])'
                             /\ d.arg = "confirmed" => Final(order[d.ref])'
      /\ d.pc = "finalize" => d.arg \in Receipts /\ Backed(order[d.ref])'
  BY <1>0, <1>2 DEF ProcOK
<1> QED
  BY <1>0, <1>1, <1>3 DEF ProcOK, unclaimed, Backed, Final, scanFromBlock

LEMMA IdleProc ==
    ASSUME ChainOK', NEW p \in Procs, proc'[p] = Idle
    PROVE  ProcOK(p)'
BY BillingAssumption DEF ProcOK, Idle, ProcRow

\* A step of the tables in which each process carries on, loses its
\* compare-and-swap or ends.
LEMMA MovingStep ==
    ASSUME BillingInv, Moving, UNCHANGED <<clock, chain, granted>>, expiring' \subseteq Orders,
           proc' \in [Procs -> ProcRow],
           \A p \in Procs : \/ proc'[p] = Idle
                            \/ \E fresh \in BOOLEAN : proc'[p] = [proc[p] EXCEPT !.fresh = fresh]
                            \/ ProcOK(p)'
    PROVE  BillingInv'
<1>1. ChainOK' /\ RowsOK' /\ OneOpen' /\ GrantsOK'
  BY MovingRows, MovingGrants DEF BillingInv
<1>2. \A p \in Procs : ProcOK(p)'
  BY <1>1, IdleProc, MovingProc DEF BillingInv, ProcsOK
<1> QED
  BY <1>1, <1>2 DEF BillingInv, ProcsOK

LEMMA ProcStays ==
    ASSUME NEW d \in ProcRow
    PROVE  d = [d EXCEPT !.fresh = d.fresh] /\ d.fresh \in BOOLEAN
BY DEF ProcRow

LEMMA ProcsStay ==
    ASSUME BillingInv, Orderly, UNCHANGED <<clock, chain, granted, proc>>, expiring' \subseteq Orders
    PROVE  BillingInv'
BY MovingStep, OrderlyMoves, ProcStays DEF BillingInv, ProcsOK

\* Steps that leave the order table alone.
LEMMA RowsStay ==
    ASSUME BillingInv, order' = order
    PROVE  Orderly
BY RowStays DEF BillingInv, RowsOK, Orderly

-----------------------------------------------------------------------------
(* Initial state and chain. *)

LEMMA BillingInit_Inv == BillingInit => BillingInv
<1> SUFFICES ASSUME BillingInit PROVE BillingInv
  OBVIOUS
<1>1. NoOrder \in Row /\ RowOK(NoOrder) /\ ~NoOrder.verified /\ NoOrder.status = "NONE"
  BY BillingAssumption DEF NoOrder, Row, RowOK, unclaimed, Carts
<1>2. Idle \in ProcRow /\ Idle.pc = "idle"
  BY BillingAssumption DEF Idle, ProcRow, Carts, Verdicts, Receipts
<1>3. ChainOK
  BY BillingAssumption DEF BillingInit, ChainOK
<1>4. RowsOK /\ OneOpen
  BY <1>1 DEF BillingInit, RowsOK, OneOpen, isOpen
<1>5. GrantsOK
  BY DEF BillingInit, GrantsOK
<1>6. ProcsOK
  BY <1>2 DEF BillingInit, ProcsOK, ProcOK
<1> QED
  BY <1>3, <1>4, <1>5, <1>6 DEF BillingInv, BillingInit

\* Time and reorganisations do not undo what was verified: final blocks stay,
\* and a transfer mined again lands in a later block.
LEMMA ChainStable ==
    ASSUME ChainOK, tick \/ \E h \in Hashes : mine(h) \/ reorg(h), NEW r, RowOK(r), ~unclaimed(r)
    PROVE  /\ Final(r) => Final(r)'
           /\ Backed(r) => Backed(r)'
<1>1. r.txHash \in Hashes /\ r.quotedAt \in Nat
  BY DEF RowOK, Row, unclaimed
<1>2. CASE tick
  BY <1>1, <1>2, BillingAssumption DEF tick, Final, Backed, scanFromBlock, ChainOK
<1>3. ASSUME NEW h \in Hashes, mine(h)
      PROVE  (Final(r) => Final(r)') /\ (Backed(r) => Backed(r)')
  BY <1>1, <1>3, BillingAssumption DEF mine, Final, Backed, scanFromBlock, ChainOK
<1>4. ASSUME NEW h \in Hashes, reorg(h)
      PROVE  (Final(r) => Final(r)') /\ (Backed(r) => Backed(r)')
  BY <1>1, <1>4, BillingAssumption DEF reorg, Final, Backed, scanFromBlock, ChainOK
<1> QED
  BY <1>2, <1>3, <1>4

LEMMA ChainStep ==
    ASSUME BillingInv, tick \/ \E h \in Hashes : mine(h) \/ reorg(h)
    PROVE  BillingInv'
<1>1. UNCHANGED <<order, granted, expiring, proc>>
  BY DEF tick, mine, reorg
<1>2. ChainOK' /\ clock <= clock'
  BY BillingAssumption DEF BillingInv, ChainOK, tick, mine, reorg
<1>3. ASSUME NEW r \in Row, RowOK(r), ~unclaimed(r)
      PROVE  (Final(r) => Final(r)') /\ (Backed(r) => Backed(r)')
  BY <1>3, ChainStable DEF BillingInv
<1>4. RowsOK'
  <2>1. ASSUME NEW o \in Orders
        PROVE  /\ RowOK(order[o])'
               /\ order'[o].verified => Final(order[o])'
               /\ order'[o].status = "PAID" => Backed(order[o])'
    <3>1. PICK r \in Row : r = order[o] /\ r = order'[o]
      BY <1>1 DEF BillingInv, RowsOK
    <3>2. RowOK(r) /\ (r.verified => Final(r)) /\ (r.status = "PAID" => Backed(r))
      BY <3>1 DEF BillingInv, RowsOK
    <3>3. r.verified \/ r.status = "PAID" => ~unclaimed(r)
      BY <3>2 DEF RowOK
    <3>4. (r.verified => Final(r)') /\ (r.status = "PAID" => Backed(r)')
      BY <1>3, <3>2, <3>3
    <3> QED
      BY <3>1, <3>2, <3>4 DEF Final, Backed, scanFromBlock, RowOK, unclaimed
  <2> QED
    BY <1>1, <2>1 DEF BillingInv, RowsOK
<1>5. ProcsOK'
  <2>1. ASSUME NEW p \in Procs
        PROVE  ProcOK(p)'
    <3>1. PICK d \in ProcRow : d = proc[p] /\ d = proc'[p]
      BY <1>1 DEF BillingInv, ProcsOK
    <3>2. CASE d.pc \in {"persist", "finalize"}
      <4>1. PICK r \in Row : r = order[d.ref] /\ r = order'[d.ref] /\ RowOK(r) /\ ~unclaimed(r)
        BY <1>1, <3>1, <3>2 DEF BillingInv, ProcsOK, ProcOK, RowsOK
      <4>2. (Final(r) => Final(r)') /\ (Backed(r) => Backed(r)')
        BY <1>3, <4>1
      <4> QED
        BY <3>1, <3>2, <4>1, <4>2 DEF BillingInv, ProcsOK, ProcOK, Final, Backed, scanFromBlock,
           unclaimed
    <3>3. CASE d.pc \notin {"persist", "finalize"}
      <4>1. d.pc = "create" => d.arg \in Carts /\ d.ref \in 1..clock
        BY <3>1 DEF BillingInv, ProcsOK, ProcOK
      <4>2. d.pc = "create" => d.ref \in 1..clock'
        BY <1>2, <4>1 DEF BillingInv, ChainOK
      <4> QED
        BY <3>1, <3>3, <4>1, <4>2 DEF ProcOK
    <3> QED
      BY <3>2, <3>3
  <2> QED
    BY <1>1, <2>1 DEF BillingInv, ProcsOK
<1>6. OneOpen' /\ GrantsOK' /\ expiring' \subseteq Orders
  BY <1>1 DEF BillingInv, OneOpen, GrantsOK, isOpen
<1> QED
  BY <1>2, <1>4, <1>5, <1>6 DEF BillingInv

-----------------------------------------------------------------------------
(* Checkout, cancellation and expiry. *)

LEMMA RowExpires ==
    ASSUME NEW r, RowOK(r), r.status = "PENDING" /\ unclaimed(r)
    PROVE  RowStep(r, [r EXCEPT !.status = "EXPIRED"])
<1>1. r \in Row
  BY DEF RowOK
<1>2. r.resv \in {"none", "RESERVED", "CONSUMED", "RELEASED"}
  BY <1>1, Zenon DEF Row
<1>3. RowStep(r, [r EXCEPT !.status = "EXPIRED", !.resv = r.resv])
  BY <1>2, RowRetires, Zenon
<1>4. [r EXCEPT !.status = "EXPIRED", !.resv = r.resv] = [r EXCEPT !.status = "EXPIRED"]
  BY <1>1 DEF Row
<1> QED
  BY <1>3, <1>4

LEMMA RowReleased ==
    ASSUME NEW r, RowOK(r), r.resv = "RESERVED"
    PROVE  RowStep(r, [r EXCEPT !.resv = "RELEASED"])
<1>1. RowStep(r, [r EXCEPT !.status = r.status, !.resv = "RELEASED"])
  BY RowRetires DEF RowOK
<1>2. [r EXCEPT !.status = r.status, !.resv = "RELEASED"] = [r EXCEPT !.resv = "RELEASED"]
  BY DEF RowOK, Row
<1> QED
  BY <1>1, <1>2

LEMMA RowExpiresReleased ==
    ASSUME NEW r, RowOK(r), r.status = "PENDING" /\ unclaimed(r)
    PROVE  RowStep(r, [r EXCEPT !.status = "EXPIRED", !.resv = "RELEASED"])
BY RowRetires

LEMMA StaleOrderly ==
    ASSUME BillingInv, order' = withStaleExpired(order)
    PROVE  Orderly
<1>1. ASSUME NEW o \in Orders PROVE RowStep(order[o], order'[o])
  BY RowExpires, RowStays DEF withStaleExpired, BillingInv, RowsOK
<1> QED
  BY <1>1 DEF Orderly, RowStep, RowMove, RowOK, withStaleExpired

LEMMA StaleStep ==
    ASSUME BillingInv, expireStalePendingBillingOrders
    PROVE  BillingInv'
BY StaleOrderly, ProcsStay DEF expireStalePendingBillingOrders, BillingInv

LEMMA CheckoutStep ==
    ASSUME BillingInv, NEW p \in Procs, NEW k \in Kinds, createBillingCheckout(p, k)
    PROVE  BillingInv'
<1>1. Orderly /\ UNCHANGED <<clock, chain, granted, expiring>>
  BY StaleOrderly DEF createBillingCheckout
<1>2. CASE proc' = proc
  BY <1>1, <1>2, ProcsStay DEF BillingInv
<1>3. CASE proc' = [proc EXCEPT ![p] = [Idle EXCEPT !.pc = "create", !.ref = clock,
                                                    !.arg = k, !.fresh = TRUE]]
  <2> DEFINE d == [Idle EXCEPT !.pc = "create", !.ref = clock, !.arg = k, !.fresh = TRUE]
  <2>1. d \in ProcRow /\ d.pc = "create" /\ d.ref = clock /\ d.arg \in Carts
    <3>1. clock \in 0..MaxClock + MaxOrders /\ k \in Carts
      BY BillingAssumption DEF BillingInv, ChainOK, Carts
    <3> QED
      BY <3>1 DEF Idle, ProcRow
  <2> HIDE DEF d
  <2>2. proc' \in [Procs -> ProcRow] /\ proc'[p] = d
    BY <1>3, <2>1 DEF BillingInv, ProcsOK, d
  <2>3. clock \in 1..clock'
    BY <1>1 DEF BillingInv, ChainOK
  <2>4. ProcOK(p)'
    BY <1>1, <2>1, <2>2, <2>3 DEF ProcOK
  <2>5. \A q \in Procs \ {p} : proc'[q] = proc[q]
    BY <1>3 DEF BillingInv, ProcsOK
  <2> QED
    BY <1>1, <2>2, <2>4, <2>5, MovingStep, OrderlyMoves, ProcStays DEF BillingInv, ProcsOK
<1> QED
  BY <1>2, <1>3 DEF createBillingCheckout

LEMMA CancelOrderly ==
    ASSUME BillingInv, NEW o \in Orders, cancelBillingOrder(o)
    PROVE  Orderly
<1> DEFINE s == released([order[o] EXCEPT !.status = "EXPIRED"])
<1>1. RowOK(order[o]) /\ order[o] \in Row /\ order \in [Orders -> Row]
  BY DEF BillingInv, RowsOK
<1>2. s = [order[o] EXCEPT !.status = "EXPIRED", !.resv = "RELEASED"]
      \/ s = [order[o] EXCEPT !.status = "EXPIRED"]
  BY <1>1 DEF released, Row
<1>3. RowStep(order[o], s)
  BY <1>1, <1>2, RowExpires, RowExpiresReleased DEF cancelBillingOrder
<1> HIDE DEF s
<1>4. order' = [order EXCEPT ![o] = s]
  BY DEF cancelBillingOrder, s
<1> QED
  BY <1>1, <1>3, <1>4, RowStays DEF Orderly, RowStep, RowMove, RowOK, BillingInv, RowsOK

LEMMA CancelStep ==
    ASSUME BillingInv, NEW o \in Orders, cancelBillingOrder(o)
    PROVE  BillingInv'
BY CancelOrderly, ProcsStay DEF cancelBillingOrder, BillingInv

LEMMA WalletChangeOrderly ==
    ASSUME BillingInv, releaseOpenUliqReservationsForWalletChange
    PROVE  Orderly
<1>1. ASSUME NEW o \in Orders PROVE RowStep(order[o], order'[o])
  BY RowReleased, RowStays
     DEF releaseOpenUliqReservationsForWalletChange, released, BillingInv, RowsOK
<1> QED
  BY <1>1 DEF Orderly, RowStep, RowMove, RowOK, releaseOpenUliqReservationsForWalletChange

LEMMA WalletChangeStep ==
    ASSUME BillingInv, releaseOpenUliqReservationsForWalletChange
    PROVE  BillingInv'
<1>2. Orderly
  BY WalletChangeOrderly
<1>3. ASSUME NEW p \in Procs
      PROVE  /\ proc'[p] \in ProcRow
             /\ \E fresh \in BOOLEAN : proc'[p] = [proc[p] EXCEPT !.fresh = fresh]
  <2>1. proc[p] \in ProcRow
    BY DEF BillingInv, ProcsOK
  <2>2. proc'[p] \in {proc[p], [proc[p] EXCEPT !.fresh = FALSE]}
    BY DEF releaseOpenUliqReservationsForWalletChange
  <2>3. [proc[p] EXCEPT !.fresh = FALSE] \in ProcRow
    BY <2>1 DEF ProcRow
  <2> QED
    BY <2>1, <2>2, <2>3, ProcStays
<1>4. proc' \in [Procs -> ProcRow]
  BY <1>3 DEF releaseOpenUliqReservationsForWalletChange
<1> QED
  BY <1>2, <1>3, <1>4, MovingStep, OrderlyMoves DEF releaseOpenUliqReservationsForWalletChange, BillingInv

LEMMA ReservationExpiryOrderly ==
    ASSUME BillingInv, expireUliqBenefitReservations
    PROVE  Orderly
<1>1. ASSUME NEW o \in Orders PROVE RowStep(order[o], order'[o])
  <2>1. RowOK(order[o]) /\ order[o] \in Row
    BY DEF BillingInv, RowsOK
  <2>2. order'[o] \in {order[o], quoteExpired(order[o])}
    BY DEF expireUliqBenefitReservations
  <2>3. RowStep(order[o], quoteExpired(order[o]))
    <3>1. CASE order[o].resv # "RESERVED"
      BY <2>1, <3>1, RowStays DEF quoteExpired
    <3>2. CASE order[o].resv = "RESERVED" /\ order[o].status = "PENDING" /\ unclaimed(order[o])
      <4>1. quoteExpired(order[o]) = [order[o] EXCEPT !.status = "EXPIRED", !.resv = "RELEASED"]
        BY <2>1, <3>2 DEF quoteExpired, Row
      <4> QED
        BY <2>1, <3>2, <4>1, RowExpiresReleased
    <3>3. CASE order[o].resv = "RESERVED" /\ ~(order[o].status = "PENDING" /\ unclaimed(order[o]))
      <4>1. quoteExpired(order[o]) = [order[o] EXCEPT !.resv = "RELEASED"]
        BY <2>1, <3>3 DEF quoteExpired, Row
      <4> QED
        BY <2>1, <3>3, <4>1, RowReleased
    <3> QED
      BY <3>1, <3>2, <3>3
  <2> QED
    BY <2>1, <2>2, <2>3, RowStays
<1> QED
  BY <1>1 DEF Orderly, RowStep, RowMove, RowOK, expireUliqBenefitReservations

LEMMA ReservationExpiryStep ==
    ASSUME BillingInv, findExpiredReservations \/ expireUliqBenefitReservations
    PROVE  BillingInv'
<1>1. CASE findExpiredReservations
  BY <1>1, RowsStay, ProcsStay DEF findExpiredReservations
<1>2. CASE expireUliqBenefitReservations
  BY <1>2, ReservationExpiryOrderly, ProcsStay DEF expireUliqBenefitReservations
<1> QED
  BY <1>1, <1>2

-----------------------------------------------------------------------------
(* The creation of an order. *)

\* Order ids and blocks have a smallest one.
LEMMA SmallestNumber ==
    ASSUME NEW last \in Nat, NEW S, S \subseteq 1..last, S # {}
    PROVE  \E n \in S : \A m \in S : n <= m
<1> DEFINE below == {1..n : n \in S}
           all == 1..last
<1>1. IsFiniteSet(all)
  BY FS_Interval
<1>2. S \subseteq Nat /\ \A n \in S : 1 <= n /\ n <= last
  OBVIOUS
<1>3. below \subseteq SUBSET all /\ below # {}
  <2>1. \A n \in S : 1..n \subseteq 1..last
    BY <1>2
  <2> QED
    BY <2>1
<1> HIDE DEF below, all
<1>4. PICK T \in below : \A U \in below : U \subseteq T => U = T
  BY <1>1, <1>3, SmallestSet
<1>5. PICK n \in S : T = 1..n
  BY <1>4 DEF below
<1>6. ASSUME NEW m \in S PROVE n <= m
  <2>1. 1..m \in below
    BY DEF below
  <2>2. CASE m < n
    <3>1. 1..m \subseteq 1..n /\ n \in 1..n /\ n \notin 1..m
      BY <1>2, <2>2
    <3> QED
      BY <1>4, <1>5, <2>1, <3>1
  <2> QED
    BY <1>2, <2>2
<1> QED
  BY <1>6

\* The row createBillingOrderWithTreasurySnapshotCas inserts.
newRow(p) ==
    [NoOrder EXCEPT !.status = "PENDING", !.kind = proc[p].arg, !.quotedAt = proc[p].ref,
                    !.createdAt = clock,
                    !.resv = IF isDiscounted(proc[p].arg) THEN "RESERVED" ELSE "none"]

LEMMA NewRow ==
    ASSUME BillingInv, NEW p \in Procs, proc[p].pc = "create"
    PROVE  /\ newRow(p) \in Row /\ RowOK(newRow(p))
           /\ newRow(p).status = "PENDING" /\ newRow(p).kind = proc[p].arg
           /\ newRow(p).createdAt = clock /\ newRow(p).quotedAt = proc[p].ref
           /\ newRow(p).resv = IF isDiscounted(proc[p].arg) THEN "RESERVED" ELSE "none"
           /\ ~newRow(p).verified
<1>1. proc[p].arg \in Carts /\ proc[p].ref \in 0..MaxClock /\ clock \in 0..MaxClock
  BY BillingAssumption DEF BillingInv, ProcsOK, ProcOK, ChainOK
<1> DEFINE resv == IF isDiscounted(proc[p].arg) THEN "RESERVED" ELSE "none"
<1>2. resv \in {"none", "RESERVED"}
  OBVIOUS
<1> HIDE DEF resv
<1>3. NoOrder \in Row /\ NoOrder.txHash = NoHash /\ ~NoOrder.verified
  BY BillingAssumption DEF NoOrder, Row, Carts
<1>4. /\ newRow(p) \in Row
      /\ newRow(p).status = "PENDING" /\ newRow(p).kind = proc[p].arg
      /\ newRow(p).createdAt = clock /\ newRow(p).quotedAt = proc[p].ref
      /\ newRow(p).resv = resv /\ ~newRow(p).verified /\ newRow(p).txHash = NoHash
  <2>1. newRow(p) = [NoOrder EXCEPT !.status = "PENDING", !.kind = proc[p].arg,
                        !.quotedAt = proc[p].ref, !.createdAt = clock, !.resv = resv]
    BY DEF newRow, resv
  <2> QED
    BY <1>1, <1>2, <1>3, <2>1 DEF Row
<1> QED
  BY <1>4 DEF RowOK, unclaimed, resv

\* What it does: nothing, the lapsing of stale orders, or one order more.
LEMMA CreateCases ==
    ASSUME BillingInv, NEW p \in Procs, createBillingOrderWithTreasurySnapshotCas(p)
    PROVE  \/ order' = order
           \/ order' = withStaleExpired(order)
           \/ /\ \A q \in Orders : ~isOpen(order[q])
              /\ isDiscounted(proc[p].arg) => reservationAllowed(p)
              /\ \E o \in Orders : order[o].status = "NONE" /\ order' = [order EXCEPT ![o] = newRow(p)]
<1> DEFINE o == CHOOSE n \in unused : \A m \in unused : n <= m
           refused == unused = {} \/ (isDiscounted(proc[p].arg) /\ ~reservationAllowed(p))
           raced == findOpenArbitrumOrder(order) # {}
<1>1. order' = IF refused THEN order
               ELSE IF raced THEN withStaleExpired(order)
               ELSE [order EXCEPT ![o] = newRow(p)]
  BY DEF createBillingOrderWithTreasurySnapshotCas, newRow
<1>2. CASE ~refused /\ ~raced
  <2>1. o \in unused
    <3>1. unused \subseteq 1..MaxOrders /\ unused # {}
      BY <1>2 DEF unused, Orders
    <3> QED
      BY <3>1, SmallestNumber, BillingAssumption
  <2> HIDE DEF o
  <2>2. order' = [order EXCEPT ![o] = newRow(p)]
    BY <1>1, <1>2
  <2> QED
    BY <1>2, <2>1, <2>2 DEF unused, findOpenArbitrumOrder
<1> QED
  BY <1>1, <1>2

LEMMA CreateStep ==
    ASSUME BillingInv, NEW p \in Procs, createBillingOrderWithTreasurySnapshotCas(p)
    PROVE  BillingInv'
<1>1. /\ proc[p].pc = "create"
      /\ proc' = [proc EXCEPT ![p] = Idle] /\ proc' \in [Procs -> ProcRow]
      /\ UNCHANGED <<clock, chain, granted, expiring>>
  BY BillingAssumption DEF createBillingOrderWithTreasurySnapshotCas, BillingInv, ProcsOK, Idle, ProcRow
<1>2. CASE Orderly
  BY <1>1, <1>2, MovingStep, OrderlyMoves, ProcStays DEF BillingInv, ProcsOK
<1>3. ASSUME \A q \in Orders : ~isOpen(order[q]),
             NEW o \in Orders, order[o].status = "NONE", order' = [order EXCEPT ![o] = newRow(p)]
      PROVE  BillingInv'
  <2>1. PICK n \in Row : n = newRow(p) /\ RowOK(n) /\ n.status = "PENDING" /\ ~n.verified
    BY <1>1, NewRow
  <2>2. \A q \in Orders : order'[q] = IF q = o THEN n ELSE order[q]
    BY <1>3, <2>1 DEF BillingInv, RowsOK
  <2>3. ChainOK'
    BY <1>1 DEF BillingInv, ChainOK
  <2>4. RowsOK'
    <3>1. order' \in [Orders -> Row]
      BY <1>3, <2>1 DEF BillingInv, RowsOK
    <3>2. ASSUME NEW q \in Orders
          PROVE  /\ RowOK(order[q])'
                 /\ order'[q].verified => Final(order[q])'
                 /\ order'[q].status = "PAID" => Backed(order[q])'
      <4>1. CASE q = o
        BY <2>1, <2>2, <4>1 DEF RowOK, unclaimed
      <4>2. CASE q # o
        BY <1>1, <2>2, <4>2 DEF BillingInv, RowsOK, RowOK, unclaimed, Final, Backed, scanFromBlock
      <4> QED
        BY <4>1, <4>2
    <3> QED
      BY <3>1, <3>2 DEF RowsOK
  <2>5. OneOpen'
    BY <1>3, <2>2 DEF OneOpen, isOpen
  <2>6. GrantsOK'
    BY <1>1, <1>3, <2>2 DEF BillingInv, GrantsOK
  <2>7. ASSUME NEW q \in Procs PROVE ProcOK(q)'
    <3>1. CASE q = p
      BY <1>1, <2>3, <3>1, IdleProc DEF BillingInv, ProcsOK
    <3>2. CASE q # p
      <4>1. PICK d \in ProcRow : d = proc[q] /\ d = proc'[q]
        BY <1>1, <3>2 DEF BillingInv, ProcsOK
      <4>2. CASE d.pc \in {"persist", "finalize"}
        <5>1. d.ref \in Orders /\ ~unclaimed(order[d.ref])
          BY <4>1, <4>2 DEF BillingInv, ProcsOK, ProcOK
        <5>2. order'[d.ref] = order[d.ref]
          BY <1>3, <2>2, <5>1 DEF BillingInv, RowsOK, RowOK
        <5> QED
          BY <1>1, <4>1, <4>2, <5>1, <5>2
          DEF BillingInv, ProcsOK, ProcOK, Final, Backed, scanFromBlock, unclaimed
      <4>3. CASE d.pc \notin {"persist", "finalize"}
        BY <1>1, <4>1, <4>3 DEF BillingInv, ProcsOK, ProcOK
      <4> QED
        BY <4>2, <4>3
    <3> QED
      BY <3>1, <3>2
  <2> QED
    BY <1>1, <2>3, <2>4, <2>5, <2>6, <2>7 DEF BillingInv, ProcsOK
<1> QED
  BY <1>2, <1>3, CreateCases, RowsStay, StaleOrderly

-----------------------------------------------------------------------------
(* Submission, verification and finalization. *)

\* One row changes.
LEMMA OneRowOrderly ==
    ASSUME BillingInv, NEW o \in Orders, NEW s, RowStep(order[o], s), order' = [order EXCEPT ![o] = s]
    PROVE  Orderly
BY RowStays DEF Orderly, RowStep, RowMove, RowOK, BillingInv, RowsOK

LEMMA SubmitOrderly ==
    ASSUME BillingInv, NEW o \in Orders, NEW h \in Hashes, submitBillingTransaction(o, h)
    PROVE  Orderly
<1>1. RowOK(order[o])
  BY DEF BillingInv, RowsOK
<1>2. CASE order' = [order EXCEPT ![o].status = "EXPIRED"]
           /\ order[o].status = "PENDING" /\ unclaimed(order[o])
  BY <1>1, <1>2, RowExpires, OneRowOrderly
<1>3. CASE /\ order[o].txHash \in {NoHash, h}
           /\ order' = [order EXCEPT ![o] = [@ EXCEPT !.status = "CONFIRMING",
                                                      !.raw = "submitted", !.txHash = h]]
  BY <1>1, <1>3, RowSubmitted, OneRowOrderly DEF submitBillingTransaction
<1> QED
  BY <1>2, <1>3 DEF submitBillingTransaction

LEMMA SubmitStep ==
    ASSUME BillingInv, NEW o \in Orders, NEW h \in Hashes, submitBillingTransaction(o, h)
    PROVE  BillingInv'
BY SubmitOrderly, ProcsStay DEF submitBillingTransaction, BillingInv

\* One process changes and the tables do not.
LEMMA OneProcStep ==
    ASSUME BillingInv, NEW p \in Procs, NEW d \in ProcRow,
           proc' = [proc EXCEPT ![p] = d], UNCHANGED <<clock, chain, order, granted, expiring>>,
           d = Idle \/ ProcOK(p)'
    PROVE  BillingInv'
<1>1. proc' \in [Procs -> ProcRow] /\ proc'[p] = d /\ \A q \in Procs \ {p} : proc'[q] = proc[q]
  BY DEF BillingInv, ProcsOK
<1>2. \A q \in Procs : proc[q] \in ProcRow
  BY DEF BillingInv, ProcsOK
<1> QED
  BY <1>1, <1>2, RowsStay, MovingStep, OrderlyMoves, ProcStays DEF BillingInv

LEMMA IdleIsProc == Idle \in ProcRow
BY BillingAssumption DEF Idle, ProcRow

\* A process that goes on to finalize an order whose payment backs it.
toFinalize(o, arg) == [Idle EXCEPT !.pc = "finalize", !.ref = o, !.arg = arg]

LEMMA FinalizeProc ==
    ASSUME NEW o \in Orders, NEW arg \in Receipts
    PROVE  LET d == toFinalize(o, arg)
           IN  d \in ProcRow /\ d.pc = "finalize" /\ d.ref = o /\ d.arg = arg
<1>1. o \in 0..MaxClock + MaxOrders
  BY BillingAssumption DEF Orders
<1> QED
  BY <1>1 DEF toFinalize, Idle, ProcRow

\* Such a payment, in the row a resumed finalization has read.
LEMMA VerifiedIsBacked ==
    ASSUME BillingInv, NEW o \in Orders, order[o].verified
    PROVE  Backed(order[o]) /\ ~unclaimed(order[o])
<1>1. Final(order[o]) /\ RowOK(order[o]) /\ ~unclaimed(order[o])
  BY DEF BillingInv, RowsOK, RowOK
<1>2. order[o].quotedAt \in Nat /\ order[o].txHash \in Hashes
  BY <1>1 DEF RowOK, Row, unclaimed
<1> QED
  BY <1>1, <1>2, BillingAssumption DEF Final, Backed, scanFromBlock, BillingInv, ChainOK

LEMMA ResumeStep ==
    ASSUME BillingInv, NEW p \in Procs, NEW o \in Orders, order[o].verified,
           proc' = [proc EXCEPT ![p] = toFinalize(o, "resume")],
           UNCHANGED <<clock, chain, order, granted, expiring>>
    PROVE  BillingInv'
<1>1. PICK d \in ProcRow : d = toFinalize(o, "resume") /\ d.pc = "finalize" /\ d.ref = o /\ d.arg = "resume"
  BY FinalizeProc DEF Receipts
<1>2. proc'[p] = d
  BY <1>1 DEF BillingInv, ProcsOK
<1>3. Backed(order[o])' /\ ~unclaimed(order'[o])
  BY VerifiedIsBacked DEF Backed, scanFromBlock
<1>4. ProcOK(p)'
  BY <1>1, <1>2, <1>3 DEF ProcOK, Receipts, Backed, scanFromBlock, unclaimed
<1> QED
  BY <1>1, <1>4, OneProcStep

\* What the chain says of a payment, when it says it.
LEMMA VerificationSays ==
    ASSUME BillingInv, NEW o \in Orders, ~unclaimed(order[o])
    PROVE  LET v == verifyArbitrumUsdcTransaction(order[o])
           IN  /\ v \in {"missing", "mismatch", "confirming", "confirmed"}
               /\ v = "confirming" => Backed(order[o])
               /\ v = "confirmed" => Final(order[o])
<1>1. order[o].quotedAt \in Nat /\ order[o].txHash \in Hashes
  BY DEF BillingInv, RowsOK, RowOK, Row, unclaimed
<1> QED
  BY <1>1, BillingAssumption
  DEF verifyArbitrumUsdcTransaction, Backed, Final, scanFromBlock, BillingInv, ChainOK

LEMMA ReconcileStep ==
    ASSUME BillingInv, NEW p \in Procs, NEW o \in Orders,
           reconcileBillingOrderPayment(p, o) \/ rpcUnavailable(p, o)
    PROVE  BillingInv'
<1>1. PICK result \in {"missing", "mismatch", "confirming", "confirmed", "rpc_unavailable"} :
        /\ reconcileWith(p, o, result)
        /\ result = "confirming" => Backed(order[o])
        /\ result = "confirmed" => Final(order[o])
  <2>1. CASE rpcUnavailable(p, o)
    BY <2>1 DEF rpcUnavailable
  <2>2. CASE reconcileBillingOrderPayment(p, o)
    BY <2>2, VerificationSays DEF reconcileBillingOrderPayment, reconcileWith, reconcilable
  <2> QED
    BY <2>1, <2>2
<1>2. ~unclaimed(order[o]) /\ UNCHANGED <<clock, chain, order, granted, expiring>>
  BY <1>1 DEF reconcileWith, reconcilable
<1>3. PICK verdict \in Verdicts : /\ verdict = verdictOn(order[o], result)
                                  /\ verdict = "confirming" => result = "confirming"
                                  /\ verdict = "confirmed" => result = "confirmed"
  BY DEF verdictOn, Verdicts
<1>4. PICK tracking \in BOOLEAN : tracking = shouldTrackFinality(order[o])
  BY DEF shouldTrackFinality
<1> DEFINE d == [pc |-> "persist", ref |-> o, arg |-> verdict, tracking |-> tracking, fresh |-> TRUE]
<1>5. d \in ProcRow /\ proc' = [proc EXCEPT ![p] = d]
  <2>1. o \in 0..MaxClock + MaxOrders
    BY BillingAssumption DEF Orders
  <2> QED
    BY <1>1, <1>3, <1>4, <2>1 DEF ProcRow, reconcileWith
<1>6. proc'[p] = d /\ d.pc = "persist" /\ d.ref = o /\ d.arg = verdict
  BY <1>5 DEF BillingInv, ProcsOK
<1> HIDE DEF d
<1>7. /\ verdict = "confirming" => Backed(order[o])'
      /\ verdict = "confirmed" => Final(order[o])'
  BY <1>1, <1>2, <1>3 DEF Backed, Final, scanFromBlock
<1>8. ProcOK(p)'
  BY <1>2, <1>5, <1>6, <1>7 DEF ProcOK, Backed, Final, scanFromBlock, unclaimed
<1> QED
  BY <1>2, <1>5, <1>8, OneProcStep

LEMMA PersistStep ==
    ASSUME BillingInv, NEW p \in Procs, persistBillingVerificationTransition(p)
    PROVE  BillingInv' /\ Orderly
<1>1. PICK d \in ProcRow : d = proc[p] /\ d.pc = "persist"
  BY DEF persistBillingVerificationTransition, BillingInv, ProcsOK
<1>2. PICK o \in Orders : o = d.ref /\ ~unclaimed(order[o]) /\ RowOK(order[o])
  BY <1>1 DEF BillingInv, ProcsOK, ProcOK, RowsOK
<1>3. PICK verdict \in Verdicts : /\ verdict = d.arg
                                  /\ verdict = "confirming" => Backed(order[o])
                                  /\ verdict = "confirmed" => Final(order[o])
  BY <1>1, <1>2 DEF BillingInv, ProcsOK, ProcOK
<1>4. PICK tracking \in BOOLEAN : /\ tracking = d.tracking
                                  /\ IF tracking THEN order[o].status = "PAID" ELSE isOpen(order[o])
  BY <1>1, <1>2 DEF persistBillingVerificationTransition, casWon, ProcRow
<1> DEFINE s == verificationAttempt(verificationTransition(order[o], verdict, tracking))
           arg == IF verdict = "confirmed" THEN "onchain_confirmed" ELSE "payment_received"
           next == IF verdict \in {"confirming", "confirmed"} /\ ~tracking
                   THEN toFinalize(o, arg) ELSE Idle
<1>5. /\ order' = [order EXCEPT ![o] = s]
      /\ proc' = [staleFor(o) EXCEPT ![p] = next]
      /\ UNCHANGED <<clock, chain, granted, expiring>>
  BY <1>1, <1>2, <1>3, <1>4 DEF persistBillingVerificationTransition, toFinalize
<1>6. RowStep(order[o], s)
  BY <1>2, <1>3, <1>4, RowVerified
<1> HIDE DEF s
<1>7. Orderly /\ order'[o] = s
  BY <1>5, <1>6, OneRowOrderly DEF BillingInv, RowsOK
<1>8. PICK a \in Receipts : a = arg
  BY DEF Receipts
<1> HIDE DEF arg
<1>9. toFinalize(o, arg) \in ProcRow /\ next \in ProcRow
  BY <1>8, FinalizeProc, IdleIsProc
<1>10. \A q \in Procs : /\ staleFor(o)[q] \in ProcRow
                        /\ staleFor(o)[q] \in {proc[q], [proc[q] EXCEPT !.fresh = FALSE]}
  <2>1. \A q \in Procs : proc[q] \in ProcRow /\ [proc[q] EXCEPT !.fresh = FALSE] \in ProcRow
    BY DEF BillingInv, ProcsOK, ProcRow
  <2> QED
    BY <2>1 DEF staleFor
<1> HIDE DEF next
<1>11. /\ proc' \in [Procs -> ProcRow]
       /\ proc'[p] = next
       /\ \A q \in Procs \ {p} : \E fresh \in BOOLEAN : proc'[q] = [proc[q] EXCEPT !.fresh = fresh]
  <2>1. DOMAIN staleFor(o) = Procs /\ staleFor(o) \in [Procs -> ProcRow]
    BY <1>10 DEF staleFor
  <2>2. proc' \in [Procs -> ProcRow] /\ proc'[p] = next
        /\ \A q \in Procs \ {p} : proc'[q] = staleFor(o)[q]
    BY <1>5, <1>9, <2>1
  <2>3. \A q \in Procs : proc[q] \in ProcRow
    BY DEF BillingInv, ProcsOK
  <2> QED
    BY <1>10, <2>2, <2>3, ProcStays
<1>12. next = Idle \/ ProcOK(p)'
  <2> SUFFICES ASSUME next # Idle PROVE ProcOK(p)'
    OBVIOUS
  <2>1. next = toFinalize(o, a) /\ verdict \in {"confirming", "confirmed"}
    BY <1>8 DEF next
  <2>2. next.pc = "finalize" /\ next.ref = o /\ next.arg = a
    BY <2>1, FinalizeProc
  <2>3. order[o].quotedAt \in Nat /\ order[o].txHash \in Hashes
    BY <1>2 DEF RowOK, Row, unclaimed
  <2>4. Backed(order[o])
    BY <1>3, <2>1, <2>3, BillingAssumption DEF Final, Backed, scanFromBlock, BillingInv, ChainOK
  <2>5. s.txHash = order[o].txHash /\ s.quotedAt = order[o].quotedAt
    BY <1>2, <1>6 DEF RowStep, RowMove, RowOK
  <2>6. Backed(order[o])' /\ ~unclaimed(order'[o])
    BY <1>2, <1>5, <1>7, <2>4, <2>5 DEF Backed, scanFromBlock, unclaimed
  <2> QED
    BY <1>9, <1>11, <2>2, <2>6 DEF ProcOK, Backed, scanFromBlock, unclaimed
<1> QED
  BY <1>5, <1>7, <1>11, <1>12, MovingStep, OrderlyMoves DEF BillingInv

LEMMA CasLossStep ==
    ASSUME BillingInv, NEW p \in Procs, resolveBillingOrderAfterVerificationCasLoss(p)
    PROVE  BillingInv'
<1>1. PICK o \in Orders : o = proc[p].ref
  BY DEF resolveBillingOrderAfterVerificationCasLoss, BillingInv, ProcsOK, ProcOK
<1>2. UNCHANGED <<clock, chain, order, granted, expiring>>
  BY DEF resolveBillingOrderAfterVerificationCasLoss
<1>3. CASE shouldResume(order[o])
  <2>1. order[o].verified /\ proc' = [proc EXCEPT ![p] = toFinalize(o, "resume")]
    BY <1>1, <1>3 DEF resolveBillingOrderAfterVerificationCasLoss, shouldResume, toFinalize
  <2> QED
    BY <1>2, <2>1, ResumeStep
<1>4. CASE ~shouldResume(order[o])
  BY <1>1, <1>2, <1>4, OneProcStep, IdleIsProc DEF resolveBillingOrderAfterVerificationCasLoss
<1> QED
  BY <1>3, <1>4

LEMMA FinalizeStep ==
    ASSUME BillingInv, NEW p \in Procs, finalizeConfirmedBillingOrder(p) \/ finalizationReview(p)
    PROVE  BillingInv' /\ Orderly
<1>1. PICK o \in Orders : /\ o = proc[p].ref /\ order[o].status = "CONFIRMING"
                          /\ Backed(order[o]) /\ RowOK(order[o])
  BY DEF finalizeConfirmedBillingOrder, finalizationReview, finalizing, BillingInv, ProcsOK,
     ProcOK, RowsOK
<1>0. order[o] \in Row
  BY DEF BillingInv, RowsOK
<1>2. PICK raw \in Receipts : raw = proc[p].arg
  BY DEF finalizeConfirmedBillingOrder, finalizationReview, finalizing, BillingInv, ProcsOK, ProcOK
<1>3. /\ proc' = [proc EXCEPT ![p] = Idle]
      /\ UNCHANGED <<clock, chain, expiring>>
  BY DEF finalizeConfirmedBillingOrder, finalizationReview
<1>4. proc' \in [Procs -> ProcRow] /\ proc'[p] = Idle /\ \A q \in Procs \ {p} : proc'[q] = proc[q]
  BY <1>3, IdleIsProc DEF BillingInv, ProcsOK
<1>5. CASE finalizationReview(p)
  <2>1. RowStep(order[o], [order[o] EXCEPT !.status = "REVIEW_REQUIRED", !.raw = "review"])
    BY <1>1, RowReviewed DEF RowOK
  <2>2. Orderly /\ granted' = granted
    BY <1>1, <1>5, <2>1, OneRowOrderly DEF finalizationReview
  <2> QED
    BY <1>3, <1>4, <2>2, MovingStep, OrderlyMoves, ProcStays DEF BillingInv, ProcsOK
<1>6. CASE finalizeConfirmedBillingOrder(p)
  <2> DEFINE resv == IF order[o].resv = "RESERVED" THEN "CONSUMED" ELSE order[o].resv
             s == paidRow(order[o], raw, resv)
  <2>1. resv \in {"none", "RESERVED", "CONSUMED", "RELEASED"}
    BY <1>1 DEF RowOK, Row
  <2>2. order' = [order EXCEPT ![o] = s] /\ granted' = [granted EXCEPT ![o] = @ + 1]
    BY <1>1, <1>2, <1>6 DEF finalizeConfirmedBillingOrder, paidFor, paidRow
  <2> HIDE DEF resv
  <2>3. RowStep(order[o], s)
    BY <1>1, <2>1, RowPaid
  <2>4. s.status = "PAID"
    BY <1>0, <2>1, PaidRow
  <2> HIDE DEF s
  <2>5. Orderly /\ order'[o] = s
    BY <2>2, <2>3, OneRowOrderly DEF BillingInv, RowsOK
  <2>6. ChainOK' /\ RowsOK' /\ OneOpen'
    BY <1>3, <2>5, MovingRows, OrderlyMoves DEF BillingInv
  <2>7. granted[o] = 0
    BY <1>1 DEF BillingInv, GrantsOK
  <2>8. ASSUME NEW q \in Orders, q # o, granted[q] = 1
        PROVE  order'[q].status \in {"PAID", "REVIEW_REQUIRED"}
    <3>1. order'[q] = order[q]
      BY <2>2, <2>8 DEF BillingInv, RowsOK
    <3> QED
      BY <2>8, <3>1 DEF BillingInv, GrantsOK
  <2>9. granted' \in [Orders -> 0..1] /\ \A q \in Orders \ {o} : granted'[q] = granted[q]
    BY <2>2, <2>7 DEF BillingInv, GrantsOK
  <2>10. GrantsOK'
    BY <2>4, <2>5, <2>8, <2>9 DEF GrantsOK
  <2>11. \A q \in Procs : ProcOK(q)'
    BY <1>3, <1>4, <2>5, <2>6, IdleProc, MovingProc, OrderlyMoves, ProcStays DEF BillingInv, ProcsOK
  <2> QED
    BY <1>3, <1>4, <2>5, <2>6, <2>10, <2>11 DEF BillingInv, ProcsOK
<1> QED
  BY <1>5, <1>6

\* Every step of the orders keeps the invariant.
LEMMA BillingStep ==
    ASSUME BillingInv, [BillingNext]_billingVars
    PROVE  BillingInv'
<1>1. ASSUME NEW p \in Procs, finalizationEnds(p) \/ crash(p)
      PROVE  BillingInv'
  BY <1>1, OneProcStep, IdleIsProc DEF finalizationEnds, crash
<1>2. ASSUME NEW p \in Procs, NEW o \in Orders, resumeVerifiedPayment(p, o)
      PROVE  BillingInv'
  <2>1. order[o].verified /\ proc' = [proc EXCEPT ![p] = toFinalize(o, "resume")]
        /\ UNCHANGED <<clock, chain, order, granted, expiring>>
    BY <1>2 DEF resumeVerifiedPayment, shouldResume, toFinalize
  <2> QED
    BY <2>1, ResumeStep
<1>3. ASSUME NEW p \in Procs, Payment(p)
      PROVE  BillingInv'
  BY <1>1, <1>2, <1>3, ReconcileStep, PersistStep, CasLossStep, FinalizeStep DEF Payment
<1>4. CASE sourceTermEnds \/ runSubscriptionLifecycle \/ UNCHANGED billingVars
  BY <1>4, RowsStay, ProcsStay DEF billingVars, BillingInv, sourceTermEnds, runSubscriptionLifecycle
<1> QED
  BY <1>1, <1>3, <1>4, ChainStep, StaleStep, CheckoutStep, CreateStep, CancelStep,
     WalletChangeStep, ReservationExpiryStep, SubmitStep, ReconcileStep DEF BillingNext

\* The process creates an order.
Created ==
    \E p \in Procs, o \in Orders :
        /\ proc[p].pc = "create" /\ order[o].status = "NONE"
        /\ order' = [order EXCEPT ![o] = newRow(p)]
        /\ UNCHANGED <<clock, chain>>

\* The order rows only ever change by RowSteps or by the creation of an order.
LEMMA BillingOrderly ==
    ASSUME BillingInv, [BillingNext]_billingVars
    PROVE  Orderly \/ Created
<1>1. order' = order => Orderly
  BY RowsStay
<1>2. ASSUME NEW p \in Procs, createBillingOrderWithTreasurySnapshotCas(p)
      PROVE  Orderly \/ Created
  <2>1. proc[p].pc = "create" /\ UNCHANGED <<clock, chain>>
    BY <1>2 DEF createBillingOrderWithTreasurySnapshotCas
  <2> QED
    BY <1>2, <2>1, CreateCases, RowsStay, StaleOrderly DEF Created
<1>3. ASSUME NEW p \in Procs, Payment(p) \/ crash(p)
      PROVE  Orderly
  BY <1>1, <1>3, PersistStep, FinalizeStep
  DEF Payment, resumeVerifiedPayment, reconcileBillingOrderPayment, reconcileWith,
      resolveBillingOrderAfterVerificationCasLoss, finalizationEnds, crash
<1>4. ASSUME NEW p \in Procs, NEW k \in Kinds, createBillingCheckout(p, k)
      PROVE  Orderly
  BY <1>4, StaleOrderly DEF createBillingCheckout
<1>5. CASE expireStalePendingBillingOrders
  BY <1>5, StaleOrderly DEF expireStalePendingBillingOrders
<1>6. CASE \/ tick \/ \E h \in Hashes : mine(h) \/ reorg(h)
           \/ findExpiredReservations \/ sourceTermEnds \/ runSubscriptionLifecycle
           \/ \E p \in Procs, o \in Orders : rpcUnavailable(p, o)
           \/ UNCHANGED billingVars
  BY <1>1, <1>6 DEF tick, mine, reorg, findExpiredReservations, sourceTermEnds,
     runSubscriptionLifecycle, rpcUnavailable, reconcileWith, billingVars
<1> QED
  BY <1>2, <1>3, <1>4, <1>5, <1>6, CancelOrderly, WalletChangeOrderly, ReservationExpiryOrderly,
     SubmitOrderly DEF BillingNext

\* The inductive invariant of orders, payments and processes in flight.
THEOREM BillingInvariance == BillingSpec => []BillingInv
<1>1. BillingInv /\ [BillingNext]_billingVars => BillingInv'
  BY BillingStep
<1> QED
  BY <1>1, BillingInit_Inv, PTL DEF BillingSpec

LEMMA TermStep ==
    ASSUME TermOK, [BillingNext]_billingVars
    PROVE  TermOK'
<1>1. sourceTerm' = sourceTerm \/ sourceTerm' \in {"ENDED", "GONE"}
  <2>1. ASSUME NEW p \in Procs, Payment(p) \/ crash(p)
        PROVE  sourceTerm' = sourceTerm \/ sourceTerm' = "GONE"
    BY <2>1 DEF Payment, resumeVerifiedPayment, reconcileBillingOrderPayment, reconcileWith,
       persistBillingVerificationTransition, resolveBillingOrderAfterVerificationCasLoss,
       finalizeConfirmedBillingOrder, termAfter, finalizationReview, finalizationEnds, crash
  <2> QED
    BY <2>1 DEF BillingNext, billingVars, tick, mine, reorg, expireStalePendingBillingOrders,
       createBillingCheckout, createBillingOrderWithTreasurySnapshotCas, cancelBillingOrder,
       releaseOpenUliqReservationsForWalletChange, findExpiredReservations,
       expireUliqBenefitReservations, submitBillingTransaction, rpcUnavailable, reconcileWith,
       sourceTermEnds, runSubscriptionLifecycle
<1> QED
  BY <1>1 DEF TermOK

LEMMA TermInvariance == BillingSpec => []TermOK
<1>1. BillingInit => TermOK
  BY DEF BillingInit, TermOK
<1> QED
  BY <1>1, TermStep, PTL DEF BillingSpec

LEMMA InvImpliesTypes == BillingInv /\ TermOK => BillingTypeOK
<1> SUFFICES ASSUME BillingInv, TermOK PROVE BillingTypeOK
  OBVIOUS
<1>1. /\ clock \in 1..MaxClock /\ chain \in [Hashes -> 0..MaxClock]
      /\ granted \in [Orders -> 0..1] /\ expiring \subseteq Orders
  BY DEF BillingInv, ChainOK, GrantsOK
<1>2. order \in [Orders -> Row] /\ proc \in [Procs -> ProcRow]
  BY DEF BillingInv, RowsOK, ProcsOK
<1>3. \A o \in Orders : /\ order[o].status = "PENDING" => unclaimed(order[o])
                        /\ order[o].status \in {"CONFIRMING", "PAID"} => ~unclaimed(order[o])
  BY DEF BillingInv, RowsOK, RowOK
<1>4. {"none"} \cup Carts \cup Verdicts \cup Receipts
        = Carts \cup {"none", "stale_missing", "mismatch", "retry",
                      "receipt_kept", "confirming", "confirmed",
                      "payment_received", "onchain_confirmed", "resume"}
  BY DEF Verdicts, Receipts
<1> QED
  BY <1>1, <1>2, <1>3, <1>4 DEF BillingTypeOK, Row, ProcRow, TermOK

LEMMA InvImpliesBacking == BillingInv => PaymentsBackOrders
BY DEF BillingInv, RowsOK, PaymentsBackOrders, Final, Backed

\* Every order row and every request in flight is of its type, for any number
\* of orders, hashes and processes and any lifetimes.
THEOREM BillingTypes == BillingSpec => []BillingTypeOK
BY BillingInvariance, TermInvariance, InvImpliesTypes, PTL

\* No order is activated or verified by a wrong, an earlier or a vanished
\* transfer, however stale the verification is when it is written.
THEOREM PaymentsBack == BillingSpec => []PaymentsBackOrders
BY BillingInvariance, InvImpliesBacking, PTL

-----------------------------------------------------------------------------
(* The orders implement OrderDecisions. *)

\* What Retire of OrderDecisions lets happen to one order.
Retires(r, s) ==
    /\ decisionOf(s) = decisionOf(r) \/ (decisionOf(r) = "open" /\ decisionOf(s) = "closed")
    /\ discountOf(s) = discountOf(r) \/ (discountOf(r) \in {"plan", "held"} /\ discountOf(s) = "freed")

LEMMA RetireStep ==
    ASSUME \A o \in Orders : Retires(order[o], order'[o]), granted' = granted
    PROVE  Decisions!Next
<1> DEFINE closed == {o \in Orders : decisionOf(order'[o]) # decisionOf(order[o])}
           freed == {o \in Orders : discountOf(order'[o]) # discountOf(order[o])}
<1>1. Decisions!Retire(closed, freed)
  BY DEF Decisions!Retire, Retires
<1> QED
  BY <1>1 DEF Decisions!Next

\* The same, told from the rows.
LEMMA RowRetiresIn ==
    ASSUME NEW r \in Row, NEW s \in Row, s.kind = r.kind,
           \/ s.status = r.status
           \/ isOpen(r) /\ isOpen(s)
           \/ isOpen(r) /\ s.status = "EXPIRED",
           s.resv = r.resv \/ (r.resv = "RESERVED" /\ s.resv = "RELEASED")
    PROVE  Retires(r, s)
<1>1. decisionOf(s) = decisionOf(r) \/ (decisionOf(r) = "open" /\ decisionOf(s) = "closed")
  BY DEF decisionOf, isOpen
<1>2. discountOf(s) = discountOf(r) \/ (discountOf(r) \in {"plan", "held"} /\ discountOf(s) = "freed")
  BY DEF discountOf
<1> QED
  BY <1>1, <1>2 DEF Retires

\* One order goes to review.
LEMMA ReviewStep ==
    ASSUME NEW o \in Orders, order \in [Orders -> Row], NEW s \in Row,
           order' = [order EXCEPT ![o] = s], granted' = granted,
           order[o].status \notin {"NONE", "REVIEW_REQUIRED"}, s.status = "REVIEW_REQUIRED",
           s.kind = order[o].kind, s.resv = order[o].resv
    PROVE  Decisions!Next
<1>1. \A q \in Orders : order'[q] = IF q = o THEN s ELSE order[q]
  OBVIOUS
<1>2. decisionOf(order[o]) \in {"open", "closed", "paid"} /\ decisionOf(s) = "review"
  BY DEF decisionOf, isOpen, Row
<1>3. discountOf(s) = discountOf(order[o])
  BY DEF discountOf
<1>4. Decisions!Review(o)
  BY <1>1, <1>2, <1>3 DEF Decisions!Review
<1> QED
  BY <1>4 DEF Decisions!Next

LEMMA StaysRetired ==
    ASSUME BillingInv, order' = order, granted' = granted
    PROVE  Decisions!Next
<1>1. \A o \in Orders : Retires(order[o], order'[o])
  BY RowRetiresIn DEF BillingInv, RowsOK
<1> QED
  BY <1>1, RetireStep

LEMMA StaleRetires ==
    ASSUME BillingInv, order' = withStaleExpired(order), granted' = granted
    PROVE  Decisions!Next
<1>1. ASSUME NEW o \in Orders PROVE Retires(order[o], order'[o])
  <2>1. order[o] \in Row /\ order'[o] \in {order[o], [order[o] EXCEPT !.status = "EXPIRED"]}
    BY DEF BillingInv, RowsOK, withStaleExpired
  <2>2. CASE order'[o] = order[o]
    BY <2>1, <2>2, RowRetiresIn
  <2>3. CASE order'[o] = [order[o] EXCEPT !.status = "EXPIRED"] /\ order'[o] # order[o]
    <3>1. isOpen(order[o])
      BY <2>3 DEF withStaleExpired, isOpen
    <3>2. /\ order'[o] \in Row /\ order'[o].status = "EXPIRED"
          /\ order'[o].kind = order[o].kind /\ order'[o].resv = order[o].resv
      BY <2>1, <2>3 DEF Row
    <3> QED
      BY <2>1, <3>1, <3>2, RowRetiresIn
  <2> QED
    BY <2>1, <2>2, <2>3
<1> QED
  BY <1>1, RetireStep

\* One order lapses, stays open or gives its discount back.
LEMMA OneRetires ==
    ASSUME BillingInv, NEW o \in Orders, NEW s \in Row,
           order' = [order EXCEPT ![o] = s], granted' = granted,
           s.kind = order[o].kind,
           \/ s.status = order[o].status
           \/ isOpen(order[o]) /\ isOpen(s)
           \/ isOpen(order[o]) /\ s.status = "EXPIRED",
           s.resv = order[o].resv \/ (order[o].resv = "RESERVED" /\ s.resv = "RELEASED")
    PROVE  Decisions!Next
<1>1. \A q \in Orders : order[q] \in Row /\ order'[q] = IF q = o THEN s ELSE order[q]
  BY DEF BillingInv, RowsOK
<1>2. \A q \in Orders : Retires(order[q], order'[q])
  BY <1>1, RowRetiresIn
<1> QED
  BY <1>2, RetireStep

LEMMA CreatePlaces ==
    ASSUME BillingInv, NEW p \in Procs, createBillingOrderWithTreasurySnapshotCas(p)
    PROVE  Decisions!Next
<1>1. granted' = granted /\ proc[p].pc = "create"
  BY DEF createBillingOrderWithTreasurySnapshotCas
<1>2. ASSUME \A q \in Orders : ~isOpen(order[q]), isDiscounted(proc[p].arg) => reservationAllowed(p),
             NEW o \in Orders, order[o].status = "NONE", order' = [order EXCEPT ![o] = newRow(p)]
      PROVE  Decisions!Next
  <2>1. PICK n \in Row : /\ n = newRow(p) /\ n.status = "PENDING" /\ n.kind = proc[p].arg
                         /\ n.resv = IF isDiscounted(proc[p].arg) THEN "RESERVED" ELSE "none"
    BY <1>1, NewRow
  <2>2. \A q \in Orders : order[q] \in Row /\ order'[q] = IF q = o THEN n ELSE order[q]
    BY <1>2, <2>1 DEF BillingInv, RowsOK
  <2>3. \A q \in Orders : decisionOf(order[q]) # "open"
    BY <1>2, <2>2 DEF decisionOf, isOpen, Row
  <2>4. decisionOf(order[o]) = "none" /\ decisionOf(n) = "open"
    BY <1>2, <2>1 DEF decisionOf, isOpen
  <2>5. PICK d \in {"none", "plan", "held"} :
             /\ d = discountOf(n)
             /\ d = "held" => proc[p].arg = "ai" /\ isDiscounted(proc[p].arg)
    BY <2>1 DEF discountOf, Row
  <2>6. aiDiscountsUsed = {q \in Orders : discountOf(order[q]) \in {"held", "used"}}
    BY <2>2 DEF aiDiscountsUsed, discountOf, Row
  <2>7. d = "held" => Cardinality({q \in Orders : discountOf(order[q]) \in {"held", "used"}})
                        < AiDiscountCap
    BY <1>2, <2>5, <2>6 DEF reservationAllowed
  <2>8. {q \in Orders : [x \in Orders |-> discountOf(order[x])][q] \in {"held", "used"}}
          = {q \in Orders : discountOf(order[q]) \in {"held", "used"}}
    OBVIOUS
  <2>9. /\ [q \in Orders |-> decisionOf(order'[q])]
             = [[q \in Orders |-> decisionOf(order[q])] EXCEPT ![o] = "open"]
        /\ [q \in Orders |-> discountOf(order'[q])]
             = [[q \in Orders |-> discountOf(order[q])] EXCEPT ![o] = d]
    BY <2>2, <2>4, <2>5
  <2>10. Decisions!Place(o, d)
    BY <1>1, <2>3, <2>4, <2>7, <2>8, <2>9 DEF Decisions!Place, Decisions!Cardinality, Cardinality
  <2> QED
    BY <2>10 DEF Decisions!Next
<1> QED
  BY <1>1, <1>2, CreateCases, StaysRetired, StaleRetires

LEMMA CancelRetires ==
    ASSUME BillingInv, NEW o \in Orders, cancelBillingOrder(o)
    PROVE  Decisions!Next
<1> DEFINE s == released([order[o] EXCEPT !.status = "EXPIRED"])
<1>1. order[o] \in Row /\ isOpen(order[o])
  BY DEF BillingInv, RowsOK, cancelBillingOrder, isOpen
<1>2. /\ s \in Row /\ s.status = "EXPIRED" /\ s.kind = order[o].kind
      /\ s.resv = order[o].resv \/ (order[o].resv = "RESERVED" /\ s.resv = "RELEASED")
  BY <1>1 DEF released, Row
<1> HIDE DEF s
<1>3. order' = [order EXCEPT ![o] = s] /\ granted' = granted
  BY DEF cancelBillingOrder, s
<1> QED
  BY <1>1, <1>2, <1>3, OneRetires

LEMMA WalletChangeRetires ==
    ASSUME BillingInv, releaseOpenUliqReservationsForWalletChange
    PROVE  Decisions!Next
<1>1. ASSUME NEW o \in Orders PROVE Retires(order[o], order'[o])
  <2>1. order[o] \in Row /\ order'[o] = released(order[o])
    BY DEF BillingInv, RowsOK, releaseOpenUliqReservationsForWalletChange
  <2>2. /\ order'[o] \in Row /\ order'[o].status = order[o].status /\ order'[o].kind = order[o].kind
        /\ order'[o].resv = order[o].resv
           \/ (order[o].resv = "RESERVED" /\ order'[o].resv = "RELEASED")
    BY <2>1 DEF released, Row
  <2> QED
    BY <2>1, <2>2, RowRetiresIn
<1> QED
  BY <1>1, RetireStep DEF releaseOpenUliqReservationsForWalletChange

LEMMA ReservationExpiryRetires ==
    ASSUME BillingInv, expireUliqBenefitReservations
    PROVE  Decisions!Next
<1>1. ASSUME NEW o \in Orders PROVE Retires(order[o], order'[o])
  <2>1. order[o] \in Row /\ order'[o] \in {order[o], quoteExpired(order[o])}
    BY DEF BillingInv, RowsOK, expireUliqBenefitReservations
  <2> DEFINE s == quoteExpired(order[o])
  <2>2. /\ s \in Row /\ s.kind = order[o].kind
        /\ s.status = order[o].status \/ (order[o].status = "PENDING" /\ s.status = "EXPIRED")
        /\ s.resv = order[o].resv \/ (order[o].resv = "RESERVED" /\ s.resv = "RELEASED")
    <3>1. CASE order[o].resv # "RESERVED"
      BY <2>1, <3>1 DEF quoteExpired
    <3>2. CASE order[o].resv = "RESERVED" /\ order[o].status = "PENDING" /\ unclaimed(order[o])
      BY <2>1, <3>2 DEF quoteExpired, Row
    <3>3. CASE order[o].resv = "RESERVED" /\ ~(order[o].status = "PENDING" /\ unclaimed(order[o]))
      BY <2>1, <3>3 DEF quoteExpired, Row
    <3> QED
      BY <3>1, <3>2, <3>3
  <2> HIDE DEF s
  <2>3. Retires(order[o], s) /\ Retires(order[o], order[o])
    BY <2>1, <2>2, RowRetiresIn DEF isOpen
  <2> QED
    BY <2>1, <2>3 DEF s
<1> QED
  BY <1>1, RetireStep DEF expireUliqBenefitReservations

LEMMA SubmitRetires ==
    ASSUME BillingInv, NEW o \in Orders, NEW h \in Hashes, submitBillingTransaction(o, h)
    PROVE  Decisions!Next
<1>1. order[o] \in Row /\ isOpen(order[o]) /\ granted' = granted
  BY DEF BillingInv, RowsOK, submitBillingTransaction
<1>2. CASE order' = [order EXCEPT ![o].status = "EXPIRED"]
  <2> DEFINE s == [order[o] EXCEPT !.status = "EXPIRED"]
  <2>1. s \in Row /\ s.status = "EXPIRED" /\ s.kind = order[o].kind /\ s.resv = order[o].resv
    BY <1>1 DEF Row
  <2>2. order' = [order EXCEPT ![o] = s]
    BY <1>2
  <2> HIDE DEF s
  <2> QED
    BY <1>1, <2>1, <2>2, OneRetires
<1>3. CASE order' = [order EXCEPT ![o] = [@ EXCEPT !.status = "CONFIRMING",
                                                   !.raw = "submitted", !.txHash = h]]
  <2> DEFINE s == [order[o] EXCEPT !.status = "CONFIRMING", !.raw = "submitted", !.txHash = h]
  <2>1. s \in Row /\ isOpen(s) /\ s.kind = order[o].kind /\ s.resv = order[o].resv
    BY <1>1 DEF Row, isOpen
  <2>2. order' = [order EXCEPT ![o] = s]
    BY <1>3
  <2> HIDE DEF s
  <2> QED
    BY <1>1, <2>1, <2>2, OneRetires
<1> QED
  BY <1>2, <1>3 DEF submitBillingTransaction

LEMMA PersistDecides ==
    ASSUME BillingInv, NEW p \in Procs, persistBillingVerificationTransition(p)
    PROVE  Decisions!Next
<1>1. PICK o \in Orders, verdict \in Verdicts, tracking \in BOOLEAN :
        o = proc[p].ref /\ verdict = proc[p].arg /\ tracking = proc[p].tracking
  BY DEF persistBillingVerificationTransition, BillingInv, ProcsOK, ProcOK, ProcRow
<1>2. order[o] \in Row /\ IF tracking THEN order[o].status = "PAID" ELSE isOpen(order[o])
  BY <1>1 DEF persistBillingVerificationTransition, casWon, BillingInv, RowsOK
<1> DEFINE t == verificationTransition(order[o], verdict, tracking)
           s == verificationAttempt(t)
<1>3. /\ t \in Row /\ t.kind = order[o].kind /\ t.resv = order[o].resv
      /\ t.status \in {"REVIEW_REQUIRED", IF tracking THEN "PAID" ELSE "CONFIRMING"}
  BY <1>2 DEF verificationTransition, Verdicts, Row
<1>4. order' = [order EXCEPT ![o] = s] /\ granted' = granted
  BY <1>1 DEF persistBillingVerificationTransition
<1> HIDE DEF t
<1>5. s \in Row /\ s.kind = t.kind /\ s.resv = t.resv /\ s.status = t.status
  BY <1>3, BillingAssumption DEF verificationAttempt, Row
<1> HIDE DEF s
<1>6. CASE s.status = "REVIEW_REQUIRED"
  BY <1>2, <1>3, <1>4, <1>5, <1>6, ReviewStep DEF BillingInv, RowsOK, isOpen
<1>7. CASE s.status # "REVIEW_REQUIRED"
  BY <1>2, <1>3, <1>4, <1>5, <1>7, OneRetires DEF isOpen
<1> QED
  BY <1>6, <1>7

LEMMA FinalizeDecides ==
    ASSUME BillingInv, NEW p \in Procs, finalizeConfirmedBillingOrder(p) \/ finalizationReview(p)
    PROVE  Decisions!Next
<1>1. PICK o \in Orders : o = proc[p].ref /\ order[o].status = "CONFIRMING" /\ order[o] \in Row
  BY DEF finalizeConfirmedBillingOrder, finalizationReview, finalizing, BillingInv, ProcsOK,
     ProcOK, RowsOK
<1>2. CASE finalizationReview(p)
  <2> DEFINE s == [order[o] EXCEPT !.status = "REVIEW_REQUIRED", !.raw = "review"]
  <2>1. s \in Row /\ s.status = "REVIEW_REQUIRED" /\ s.kind = order[o].kind /\ s.resv = order[o].resv
    BY <1>1 DEF Row
  <2>2. order' = [order EXCEPT ![o] = s] /\ granted' = granted
    BY <1>1, <1>2 DEF finalizationReview
  <2> HIDE DEF s
  <2> QED
    BY <1>1, <2>1, <2>2, ReviewStep DEF BillingInv, RowsOK
<1>3. CASE finalizeConfirmedBillingOrder(p)
  <2> DEFINE s == paidFor(order[o], proc[p].arg)
  <2>1. order[o].resv \in {"none", "RESERVED"} /\ proc[p].arg \in Receipts
    BY <1>1, <1>3 DEF finalizeConfirmedBillingOrder, finalizing, consumable, BillingInv, ProcsOK, ProcOK
  <2>2. /\ s \in Row /\ s.status = "PAID" /\ s.kind = order[o].kind
        /\ s.resv = IF order[o].resv = "RESERVED" THEN "CONSUMED" ELSE "none"
    <3>0. order[o] \in Row
      BY <1>1
    <3>1. PICK raw \in Receipts : raw = proc[p].arg
      BY <2>1
    <3>2. PICK resv \in {"none", "CONSUMED"} :
            resv = IF order[o].resv = "RESERVED" THEN "CONSUMED" ELSE order[o].resv
      BY <2>1
    <3>3. s = paidRow(order[o], raw, resv)
      BY <3>1, <3>2 DEF paidFor, paidRow
    <3> HIDE DEF s
    <3>4. \A r \in Row : LET t == paidRow(r, raw, resv)
                         IN  t \in Row /\ t.status = "PAID" /\ t.kind = r.kind /\ t.resv = resv
      BY PaidRow, SMTT(30)
    <3>5. s \in Row /\ s.status = "PAID" /\ s.kind = order[o].kind /\ s.resv = resv
      BY <3>0, <3>3, <3>4
    <3> QED
      BY <2>1, <3>2, <3>5
  <2>3. order' = [order EXCEPT ![o] = s] /\ granted' = [granted EXCEPT ![o] = @ + 1]
    BY <1>1, <1>3 DEF finalizeConfirmedBillingOrder
  <2> HIDE DEF s
  <2>4. \A q \in Orders : order'[q] = IF q = o THEN s ELSE order[q]
    BY <2>3 DEF BillingInv, RowsOK
  <2>5. decisionOf(order[o]) = "open" /\ decisionOf(s) = "paid"
    BY <1>1, <2>2 DEF decisionOf, isOpen
  <2>6. /\ discountOf(order[o]) # "freed"
        /\ discountOf(s) = CASE discountOf(order[o]) = "held" -> "used"
                             [] discountOf(order[o]) = "plan" -> "planUsed"
                             [] OTHER -> discountOf(order[o])
    BY <1>1, <2>1, <2>2 DEF discountOf, Row
  <2>7. /\ [q \in Orders |-> decisionOf(order'[q])]
             = [[q \in Orders |-> decisionOf(order[q])] EXCEPT ![o] = "paid"]
        /\ [q \in Orders |-> discountOf(order'[q])]
             = [[q \in Orders |-> discountOf(order[q])] EXCEPT ![o] = discountOf(s)]
    BY <2>4, <2>5
  <2>8. Decisions!Pay(o)
    BY <2>3, <2>5, <2>6, <2>7 DEF Decisions!Pay
  <2> QED
    BY <2>8 DEF Decisions!Next
<1> QED
  BY <1>2, <1>3

LEMMA BillingDecides ==
    ASSUME BillingInv, [BillingNext]_billingVars
    PROVE  Decisions!Next
<1>1. CASE UNCHANGED <<order, granted>>
  BY <1>1, StaysRetired
<1>2. ASSUME NEW p \in Procs, Payment(p)
      PROVE  Decisions!Next
  BY <1>1, <1>2, PersistDecides, FinalizeDecides
  DEF Payment, resumeVerifiedPayment, reconcileBillingOrderPayment, reconcileWith,
      resolveBillingOrderAfterVerificationCasLoss, finalizationEnds
<1>3. ASSUME NEW p \in Procs, NEW k \in Kinds, createBillingCheckout(p, k)
      PROVE  Decisions!Next
  BY <1>3, StaleRetires DEF createBillingCheckout
<1>4. CASE expireStalePendingBillingOrders
  BY <1>4, StaleRetires DEF expireStalePendingBillingOrders
<1>5. CASE \/ tick \/ \E h \in Hashes : mine(h) \/ reorg(h)
           \/ findExpiredReservations \/ sourceTermEnds \/ runSubscriptionLifecycle
           \/ \E p \in Procs : crash(p)
           \/ \E p \in Procs, o \in Orders : rpcUnavailable(p, o)
           \/ UNCHANGED billingVars
  BY <1>1, <1>5 DEF tick, mine, reorg, findExpiredReservations, sourceTermEnds,
     runSubscriptionLifecycle, crash, rpcUnavailable, reconcileWith, billingVars
<1> QED
  BY <1>2, <1>3, <1>4, <1>5, CreatePlaces, CancelRetires, WalletChangeRetires,
     ReservationExpiryRetires, SubmitRetires DEF BillingNext

LEMMA BillingInitDecides == BillingInit => Decisions!Init
<1>1. decisionOf(NoOrder) = "none" /\ discountOf(NoOrder) = "none"
  BY DEF decisionOf, discountOf, isOpen, NoOrder
<1> QED
  BY <1>1 DEF BillingInit, Decisions!Init

\* The orders implement the promise of OrderDecisions: one open order, one
\* decision revised only to review, one purchase per paid order, no discount
\* used twice or beyond the cap, whatever runs concurrently.
THEOREM OrdersDecided == BillingSpec => OrdersDecidedOnce
<1>1. BillingInv /\ [BillingNext]_billingVars => [Decisions!Next]_(Decisions!vars)
  BY BillingDecides
<1> QED
  BY <1>1, BillingInitDecides, BillingInvariance, PTL DEF BillingSpec, OrdersDecidedOnce, Decisions!Spec

-----------------------------------------------------------------------------
(* The discovery job. *)

placed == {o \in Orders : order[o].status # "NONE"}

\* The order waits for a payment and is the newest one the transfer could pay.
awaits(o, h) ==
    /\ eligible(o, clock) /\ order[o].createdAt < chain[h]
    /\ assigned(o, chain[h], placed)

ScanRow ==
    [pc : {"idle", "capture", "persist", "advance"}, now : 0..MaxClock, head : Int,
     scope : SUBSET Orders, hint : Nat, to : Int, todo : SUBSET Orders,
     found : [Orders -> SUBSET Hashes]]

ScanTypeOK ==
    /\ scan \in ScanRow
    /\ cursor \in 0..MaxClock /\ cursor < clock
    /\ scan.todo \subseteq scan.scope
    /\ scan.pc # "idle" => scan.now <= clock /\ scan.head = scan.now - FinalityLag
    /\ scan.pc \in {"idle", "capture"} => scan.hint = 0
    /\ scan.pc \in {"persist", "advance"} =>
          1 <= scan.hint /\ scan.hint <= scan.to /\ scan.to <= scan.head
    /\ scan.pc = "advance" => scan.todo = {}

\* What a scan in flight has seen: no waiting order lies before its range, no
\* order is handed over twice, and what it has not yet handed over of its
\* range is in its list.
ScanSees ==
    scan.pc \in {"persist", "advance"} =>
        /\ \A o \in Orders : eligible(o, clock) /\ order[o].createdAt < scan.to
                                => scan.hint <= scanFromBlock(order[o])
        /\ \A o \in scan.todo : order[o].status # "NONE" /\ (unclaimed(order[o]) => waiting(order[o]))
        /\ \A o \in Orders, h \in Hashes :
              chain[h] \in scanStart(scan.hint)..scan.to /\ awaits(o, h)
                 => o \in scan.todo /\ h \in scan.found[o]

\* No order awaits a transfer the cursor has passed.
CursorSees == \A o \in Orders, h \in Hashes : chain[h] \in 1..cursor => ~awaits(o, h)

DiscoveryInv == BillingInv /\ ScanTypeOK /\ ScanSees /\ CursorSees

\* A payment found late is reviewed, one in time is verified; either way the
\* order no longer waits for one.
LEMMA RowDiscovered ==
    ASSUME NEW r, RowOK(r), unclaimed(r), waiting(r),
           NEW hashes, hashes \subseteq Hashes, hashes # {}
    PROVE  LET t == discovered(r, hashes)
           IN  /\ RowMove(r, t) /\ ~(waiting(t) /\ unclaimed(t))
               /\ t.kind = r.kind /\ t.resv = r.resv
               /\ t.status = "REVIEW_REQUIRED" \/ (isOpen(r) /\ isOpen(t))
<1> DEFINE late == r.status = "EXPIRED" \/ expiresAt(r) <= scan.now
           h == CHOOSE x \in hashes : TRUE
           t == discovered(r, hashes)
<1>1. h \in Hashes /\ h # NoHash
  BY BillingAssumption
<1> HIDE DEF h
<1>2. \/ t = [r EXCEPT !.status = "REVIEW_REQUIRED", !.raw = "review"]
      \/ t = [r EXCEPT !.status = "REVIEW_REQUIRED", !.raw = "review", !.txHash = h]
      \/ r.status = "PENDING" /\ t = [r EXCEPT !.status = "CONFIRMING", !.raw = "submitted", !.txHash = h]
  <2>1. CASE late
    BY <2>1 DEF discovered, h
  <2>2. CASE ~late
    <3>1. r.status = "PENDING"
      BY <2>2 DEF waiting
    <3> QED
      BY <2>2, <3>1 DEF discovered, h
  <2> QED
    BY <2>1, <2>2
<1>3. r \in Row
  BY DEF RowOK
<1>4. /\ t \in Row /\ t.kind = r.kind /\ t.resv = r.resv /\ t.verified = r.verified
      /\ t.quotedAt = r.quotedAt /\ t.createdAt = r.createdAt
      /\ \/ t.status = "REVIEW_REQUIRED"
         \/ r.status = "PENDING" /\ t.status = "CONFIRMING" /\ t.txHash = h
  <2> HIDE DEF t
  <2>1. CASE t = [r EXCEPT !.status = "REVIEW_REQUIRED", !.raw = "review"]
    BY <1>3, <2>1 DEF Row
  <2>2. CASE t = [r EXCEPT !.status = "REVIEW_REQUIRED", !.raw = "review", !.txHash = h]
    BY <1>1, <1>3, <2>2 DEF Row
  <2>3. CASE r.status = "PENDING"
             /\ t = [r EXCEPT !.status = "CONFIRMING", !.raw = "submitted", !.txHash = h]
    BY <1>1, <1>3, <2>3 DEF Row
  <2> QED
    BY <1>2, <2>1, <2>2, <2>3
<1> HIDE DEF t
<1>5. ~r.verified
  BY DEF RowOK
<1> QED
  BY <1>1, <1>4, <1>5 DEF RowMove, isOpen, waiting, RowOK, unclaimed, t

-----------------------------------------------------------------------------
(* Beside the other requests and jobs, a scan keeps what it has seen. *)

\* An order that waits now and is not brand new waited before the step.
LEMMA EligibleEarlier ==
    ASSUME BillingInv, Moving \/ Created, clock' \in Nat, clock <= clock',
           NEW o \in Orders, eligible(o, clock)', order'[o].createdAt < clock
    PROVE  /\ eligible(o, clock) /\ order[o].status # "NONE"
           /\ order'[o].quotedAt = order[o].quotedAt /\ order'[o].createdAt = order[o].createdAt
<1>1. order[o].status # "NONE" /\ RowMove(order[o], order'[o])
  <2>1. CASE Moving
    <3>1. RowMove(order[o], order'[o]) /\ waiting(order'[o])
      BY <2>1 DEF Moving, eligible, waiting
    <3> QED
      BY <3>1 DEF RowMove, waiting
  <2>2. CASE Created
    <3>1. PICK p \in Procs, n \in Orders :
            /\ proc[p].pc = "create" /\ order[n].status = "NONE"
            /\ order' = [order EXCEPT ![n] = newRow(p)]
      BY <2>2 DEF Created
    <3>2. newRow(p).createdAt = clock /\ clock \in Nat
      BY <3>1, NewRow DEF BillingInv, ChainOK
    <3>3. o # n
      BY <3>1, <3>2 DEF BillingInv, RowsOK
    <3>4. order'[o] = order[o] /\ RowOK(order[o])
      BY <3>1, <3>3 DEF BillingInv, RowsOK
    <3>5. waiting(order'[o])
      BY DEF eligible, waiting
    <3> QED
      BY <3>4, <3>5, RowStays DEF waiting, RowStep
  <2> QED
    BY <2>1, <2>2
<1>2. /\ order'[o].quotedAt = order[o].quotedAt /\ order'[o].createdAt = order[o].createdAt
      /\ waiting(order[o]) /\ unclaimed(order[o])
  BY <1>1 DEF RowMove, eligible, waiting, unclaimed
<1>3. order[o].quotedAt \in Nat /\ clock \in Nat
  BY DEF BillingInv, RowsOK, Row, ChainOK
<1>4. expiresAt(order[o]) >= clock - RecoveryHorizon
  BY <1>2, <1>3, BillingAssumption, DiscoveryAssumption DEF eligible, expiresAt
<1> QED
  BY <1>1, <1>2, <1>4 DEF eligible, waiting

\* Orders placed before the step stay placed, with their blocks.
LEMMA PlacedStay ==
    ASSUME BillingInv, Moving \/ Created, NEW o \in Orders, order[o].status # "NONE"
    PROVE  order'[o].status # "NONE" /\ order'[o].quotedAt = order[o].quotedAt
<1>1. CASE Moving
  BY <1>1 DEF Moving, RowMove
<1>2. CASE Created
  BY <1>2 DEF Created, BillingInv, RowsOK
<1> QED
  BY <1>1, <1>2

LEMMA AwaitsEarlier ==
    ASSUME BillingInv, Moving \/ Created, clock' \in Nat, clock <= clock',
           NEW o \in Orders, NEW h \in Hashes, chain'[h] = chain[h], awaits(o, h)'
    PROVE  awaits(o, h)
<1>1. chain[h] \in Nat /\ chain[h] <= clock /\ clock \in Nat
  BY DEF BillingInv, ChainOK
<1>2. eligible(o, clock)' /\ order'[o].createdAt < chain[h] /\ order'[o].createdAt < clock
  <2>1. eligible(o, clock)' /\ order'[o].createdAt < chain[h]
    BY DEF awaits
  <2>2. order'[o].createdAt \in Nat
    <3>1. CASE Moving
      BY <3>1 DEF Moving, Row
    <3>2. CASE Created
      BY <3>2, NewRow DEF Created, BillingInv, RowsOK, Row
    <3> QED
      BY <3>1, <3>2
  <2> QED
    BY <1>1, <2>1, <2>2
<1>3. /\ eligible(o, clock) /\ order[o].status # "NONE"
      /\ order'[o].quotedAt = order[o].quotedAt /\ order'[o].createdAt = order[o].createdAt
  BY <1>2, EligibleEarlier
<1>4. assigned(o, chain[h], placed)' => assigned(o, chain[h], placed)
  BY <1>3, PlacedStay DEF assigned, placed, notAfter, scanFromBlock
<1> QED
  BY <1>2, <1>3, <1>4 DEF awaits

\* What a step of the orders does to the chain.
LEMMA ChainMoves ==
    ASSUME BillingInv, [BillingNext]_billingVars
    PROVE  /\ clock <= clock'
           /\ \A h \in Hashes : chain'[h] \in {chain[h], 0, clock}
<1>1. clock \in Nat /\ chain \in [Hashes -> 0..MaxClock]
  BY DEF BillingInv, ChainOK
<1>2. CASE tick \/ \E h \in Hashes : mine(h) \/ reorg(h)
  BY <1>1, <1>2 DEF tick, mine, reorg
<1>3. CASE UNCHANGED <<clock, chain>>
  BY <1>1, <1>3
<1>4. ASSUME NEW p \in Procs, Payment(p) \/ crash(p)
      PROVE  UNCHANGED <<clock, chain>>
  BY <1>4 DEF Payment, resumeVerifiedPayment, reconcileBillingOrderPayment, reconcileWith,
     persistBillingVerificationTransition, resolveBillingOrderAfterVerificationCasLoss,
     finalizeConfirmedBillingOrder, finalizationReview, finalizationEnds, crash
<1> QED
  BY <1>2, <1>3, <1>4 DEF BillingNext, billingVars, expireStalePendingBillingOrders,
     createBillingCheckout, createBillingOrderWithTreasurySnapshotCas, cancelBillingOrder,
     releaseOpenUliqReservationsForWalletChange, findExpiredReservations,
     expireUliqBenefitReservations, submitBillingTransaction, rpcUnavailable, reconcileWith,
     sourceTermEnds, runSubscriptionLifecycle

LEMMA BillingKeepsScan ==
    ASSUME DiscoveryInv, [BillingNext]_billingVars, UNCHANGED <<cursor, scan>>
    PROVE  DiscoveryInv'
<1>1. BillingInv /\ BillingInv' /\ (Moving \/ Created)
  BY BillingStep, BillingOrderly, OrderlyMoves DEF DiscoveryInv
<1>2. /\ clock <= clock' /\ clock \in Nat /\ clock' \in Nat
      /\ \A h \in Hashes : chain'[h] \in {chain[h], 0, clock}
  BY <1>1, ChainMoves DEF BillingInv, ChainOK
<1>3. ScanTypeOK'
  BY <1>2 DEF DiscoveryInv, ScanTypeOK, ScanRow
<1>4. ASSUME NEW o \in Orders PROVE order'[o].createdAt \in Nat
  BY <1>1 DEF BillingInv, RowsOK, Row
<1>5. ASSUME NEW o \in Orders, NEW h \in Hashes, awaits(o, h)', chain'[h] < clock
      PROVE  awaits(o, h) /\ chain'[h] = chain[h]
  <2>1. chain'[h] # 0
    BY <1>4, <1>5 DEF awaits
  <2>2. chain'[h] = chain[h]
    BY <1>2, <1>5, <2>1
  <2> QED
    BY <1>1, <1>2, <1>5, <2>2, AwaitsEarlier
<1>6. CursorSees'
  <2>1. ASSUME NEW o \in Orders, NEW h \in Hashes, chain'[h] \in 1..cursor', awaits(o, h)'
        PROVE  FALSE
    <3>1. chain'[h] < clock /\ chain'[h] \in 1..cursor
      BY <1>2, <2>1 DEF DiscoveryInv, ScanTypeOK
    <3>2. awaits(o, h) /\ chain[h] \in 1..cursor
      BY <1>5, <2>1, <3>1
    <3> QED
      BY <3>2 DEF DiscoveryInv, CursorSees
  <2> QED
    BY <2>1 DEF CursorSees
<1>7. ASSUME scan.pc \in {"persist", "advance"}
      PROVE  ScanSees'
  <2>1. scan.to < clock /\ scan.to \in Int
    BY <1>2, <1>7, BillingAssumption, DiscoveryAssumption DEF DiscoveryInv, ScanTypeOK, ScanRow
  <2>2. ASSUME NEW o \in Orders, eligible(o, clock)', order'[o].createdAt < scan.to
        PROVE  scan.hint <= scanFromBlock(order[o])'
    <3>1. order'[o].createdAt < clock
      BY <1>2, <1>4, <2>1, <2>2
    <3>2. /\ eligible(o, clock) /\ order'[o].createdAt = order[o].createdAt
          /\ order'[o].quotedAt = order[o].quotedAt
      BY <1>1, <1>2, <2>2, <3>1, EligibleEarlier
    <3> QED
      BY <1>7, <2>2, <3>2 DEF DiscoveryInv, ScanSees, scanFromBlock
  <2>3. ASSUME NEW o \in scan.todo
        PROVE  order'[o].status # "NONE" /\ (unclaimed(order'[o]) => waiting(order'[o]))
    <3>1. o \in Orders /\ order[o].status # "NONE" /\ (unclaimed(order[o]) => waiting(order[o]))
      BY <1>7, <2>3 DEF DiscoveryInv, ScanSees, ScanTypeOK, ScanRow
    <3>2. CASE Orderly
      <4>1. RowStep(order[o], order'[o])
        BY <3>1, <3>2 DEF Orderly
      <4> QED
        BY <3>1, <4>1 DEF RowStep, RowMove, unclaimed
    <3>3. CASE Created
      <4>1. order'[o] = order[o]
        BY <1>1, <3>1, <3>3 DEF Created, BillingInv, RowsOK
      <4> QED
        BY <3>1, <4>1
    <3> QED
      BY <1>1, <3>2, <3>3, BillingOrderly DEF DiscoveryInv
  <2>4. ASSUME NEW o \in Orders, NEW h \in Hashes,
               chain'[h] \in scanStart(scan.hint)..scan.to, awaits(o, h)'
        PROVE  o \in scan.todo /\ h \in scan.found[o]
    <3>1. chain'[h] < clock
      BY <1>1, <1>2, <2>1, <2>4 DEF BillingInv, ChainOK
    <3>2. awaits(o, h) /\ chain'[h] = chain[h]
      BY <1>5, <2>4, <3>1
    <3> QED
      BY <1>7, <2>4, <3>2 DEF DiscoveryInv, ScanSees
  <2>5. scanStart(scan.hint)' = scanStart(scan.hint)
    BY DEF scanStart
  <2> QED
    BY <2>2, <2>3, <2>4, <2>5 DEF ScanSees, scanFromBlock, unclaimed, waiting
<1>8. ScanSees'
  BY <1>7 DEF ScanSees
<1> QED
  BY <1>1, <1>3, <1>6, <1>8 DEF DiscoveryInv

-----------------------------------------------------------------------------
(* The steps of the scan. *)

LEMMA NoScanIsRow ==
    /\ NoScan \in ScanRow
    /\ NoScan.pc = "idle" /\ NoScan.hint = 0 /\ NoScan.todo = {} /\ NoScan.scope = {}
BY BillingAssumption DEF NoScan, ScanRow

LEMMA DiscoveryInit_Inv == DiscoveryInit => DiscoveryInv
<1> SUFFICES ASSUME DiscoveryInit PROVE DiscoveryInv
  OBVIOUS
<1>1. BillingInv /\ cursor = 0 /\ scan = NoScan /\ clock = 1
  BY BillingInit_Inv DEF DiscoveryInit, BillingInit
<1>2. ScanTypeOK
  BY <1>1, NoScanIsRow, BillingAssumption DEF ScanTypeOK, ScanRow
<1>3. ScanSees /\ CursorSees
  BY <1>1, NoScanIsRow DEF ScanSees, CursorSees
<1> QED
  BY <1>1, <1>2, <1>3 DEF DiscoveryInv

\* The tables do not change and neither does what the cursor has passed.
LEMMA TablesStay ==
    ASSUME DiscoveryInv, UNCHANGED billingVars
    PROVE  /\ BillingInv'
           /\ \A o \in Orders : eligible(o, clock)' = eligible(o, clock)
           /\ \A o \in Orders, h \in Hashes : awaits(o, h)' = awaits(o, h)
<1>1. BillingInv'
  BY BillingStep DEF DiscoveryInv
<1>2. UNCHANGED <<clock, chain, order>>
  BY DEF billingVars
<1> QED
  BY <1>1, <1>2 DEF eligible, awaits, assigned, placed, notAfter, scanFromBlock, expiresAt, unclaimed

LEMMA ReadHeadStep ==
    ASSUME DiscoveryInv, readFinalizedHead
    PROVE  DiscoveryInv'
<1>1. UNCHANGED billingVars /\ cursor' = cursor
  BY DEF readFinalizedHead
<1>2. /\ scan' \in ScanRow /\ scan'.pc = "capture" /\ scan'.now = clock
      /\ scan'.head = clock - FinalityLag /\ scan'.hint = 0 /\ scan'.todo = {}
  <2>1. clock \in 0..MaxClock /\ clock - FinalityLag \in Int
    BY BillingAssumption DEF DiscoveryInv, BillingInv, ChainOK
  <2> QED
    BY <2>1, NoScanIsRow DEF readFinalizedHead, ScanRow
<1>3. clock \in Nat
  BY DEF DiscoveryInv, BillingInv, ChainOK
<1>4. ScanTypeOK'
  BY <1>1, <1>2, <1>3 DEF DiscoveryInv, ScanTypeOK, ScanRow, billingVars
<1>5. ScanSees'
  BY <1>2 DEF ScanSees
<1>6. CursorSees'
  BY <1>1, TablesStay DEF DiscoveryInv, CursorSees, billingVars
<1> QED
  BY <1>1, <1>4, <1>5, <1>6, TablesStay DEF DiscoveryInv

\* The scan ends and the cursor does not pass a transfer an order awaits.
LEMMA ScanEnds ==
    ASSUME DiscoveryInv, UNCHANGED billingVars, scan' = NoScan, cursor' \in 0..MaxClock,
           cursor' < clock,
           \A o \in Orders, h \in Hashes : chain[h] \in 1..cursor' => ~awaits(o, h)
    PROVE  DiscoveryInv'
<1>1. ScanTypeOK'
  BY NoScanIsRow DEF ScanTypeOK, ScanRow, billingVars
<1>2. ScanSees'
  BY NoScanIsRow DEF ScanSees
<1>3. CursorSees'
  BY TablesStay DEF CursorSees, billingVars
<1> QED
  BY <1>1, <1>2, <1>3, TablesStay DEF DiscoveryInv

\* A failure moves the cursor at most to the block before its first order's.
LEMMA ScanFailedStep ==
    ASSUME DiscoveryInv, scanFailed
    PROVE  DiscoveryInv'
<1>1. UNCHANGED billingVars /\ scan' = NoScan
  BY DEF scanFailed
<1>2. /\ cursor \in 0..MaxClock /\ cursor < clock /\ clock \in Nat /\ clock <= MaxClock
      /\ \A h \in Hashes : chain[h] \in Nat
  BY DEF DiscoveryInv, ScanTypeOK, BillingInv, ChainOK
<1>3. CASE cursor' = cursor
  BY <1>1, <1>2, <1>3, ScanEnds DEF DiscoveryInv, CursorSees
<1>4. CASE cursor' = scan.hint - 1 /\ scan.hint > 0
  <2>1. /\ scan.pc \in {"persist", "advance"} /\ scan.hint \in Nat /\ scan.to \in Int
        /\ scan.hint <= scan.to /\ scan.to < clock
    BY <1>2, <1>4, BillingAssumption, DiscoveryAssumption DEF DiscoveryInv, ScanTypeOK, ScanRow
  <2>2. ASSUME NEW o \in Orders, NEW h \in Hashes, chain[h] \in 1..cursor', awaits(o, h)
        PROVE  FALSE
    <3>1. order[o].createdAt \in Nat /\ order[o].quotedAt \in Nat
      BY DEF DiscoveryInv, BillingInv, RowsOK, Row
    <3>2. eligible(o, clock) /\ order[o].createdAt < chain[h] /\ scanFromBlock(order[o]) <= chain[h]
      BY <2>2 DEF awaits, assigned
    <3>3. order[o].createdAt < scan.to
      BY <1>2, <1>4, <2>1, <2>2, <3>1, <3>2
    <3>4. scan.hint <= scanFromBlock(order[o])
      BY <2>1, <3>2, <3>3 DEF DiscoveryInv, ScanSees
    <3> QED
      BY <1>2, <1>4, <2>1, <2>2, <3>1, <3>2, <3>4 DEF scanFromBlock
  <2>3. cursor' \in 0..MaxClock /\ cursor' < clock
    BY <1>2, <1>4, <2>1, BillingAssumption
  <2> QED
    BY <1>1, <2>2, <2>3, ScanEnds
<1> QED
  BY <1>3, <1>4 DEF scanFailed

\* The cursor passes the scanned range: its transfers have been handed over,
\* and those before it were passed earlier or precede every waiting order.
LEMMA AdvanceStep ==
    ASSUME DiscoveryInv, advanceCursor
    PROVE  DiscoveryInv'
<1>1. UNCHANGED billingVars /\ scan' = NoScan /\ cursor' = scan.to /\ scan.pc = "advance"
  BY DEF advanceCursor
<1>2. /\ cursor \in 0..MaxClock /\ cursor < clock /\ clock \in Nat /\ clock <= MaxClock
      /\ \A h \in Hashes : chain[h] \in Nat
  BY DEF DiscoveryInv, ScanTypeOK, BillingInv, ChainOK
<1>3. /\ scan.hint \in Nat /\ scan.to \in Int /\ 1 <= scan.hint
      /\ scan.hint <= scan.to /\ scan.to < clock /\ scan.todo = {}
  BY <1>1, <1>2, BillingAssumption, DiscoveryAssumption DEF DiscoveryInv, ScanTypeOK, ScanRow
<1>4. ASSUME NEW o \in Orders, NEW h \in Hashes, chain[h] \in 1..cursor', awaits(o, h)
      PROVE  FALSE
  <2>1. order[o].createdAt \in Nat /\ order[o].quotedAt \in Nat
    BY DEF DiscoveryInv, BillingInv, RowsOK, Row
  <2>2. eligible(o, clock) /\ order[o].createdAt < chain[h] /\ scanFromBlock(order[o]) <= chain[h]
    BY <1>4 DEF awaits, assigned
  <2>3. scan.hint <= scanFromBlock(order[o])
    <3>1. order[o].createdAt < scan.to
      BY <1>1, <1>2, <1>3, <1>4, <2>1, <2>2
    <3> QED
      BY <1>1, <2>2, <3>1 DEF DiscoveryInv, ScanSees
  <2>4. chain[h] > cursor
    BY <1>2, <1>4 DEF DiscoveryInv, CursorSees
  <2>5. scanStart(scan.hint) <= chain[h] /\ scanStart(scan.hint) \in Int
    BY <1>2, <1>3, <2>1, <2>2, <2>3, <2>4, DiscoveryAssumption DEF scanStart, scanFromBlock
  <2>6. chain[h] \in scanStart(scan.hint)..scan.to
    BY <1>1, <1>2, <1>3, <1>4, <2>5
  <2>7. o \in scan.todo
    BY <1>1, <1>4, <2>6 DEF DiscoveryInv, ScanSees
  <2> QED
    BY <1>3, <2>7
<1>5. cursor' \in 0..MaxClock /\ cursor' < clock
  BY <1>1, <1>2, <1>3, BillingAssumption
<1> QED
  BY <1>1, <1>4, <1>5, ScanEnds

LEMMA AssertStep ==
    ASSUME DiscoveryInv, assertBillingDiscoveryScopeStableBeforeCursor
    PROVE  DiscoveryInv'
<1>1. CASE scanFailed
  BY <1>1, ScanFailedStep
<1>2. CASE scan' = [scan EXCEPT !.pc = "advance"] /\ UNCHANGED <<billingVars, cursor>>
  <2>1. scan \in ScanRow /\ scan.pc = "persist" /\ scan.todo = {}
    BY DEF DiscoveryInv, ScanTypeOK, ScanRow, assertBillingDiscoveryScopeStableBeforeCursor
  <2>2. /\ scan' \in ScanRow /\ scan'.pc = "advance" /\ scan'.todo = scan.todo
        /\ scan'.scope = scan.scope /\ scan'.hint = scan.hint /\ scan'.to = scan.to
        /\ scan'.head = scan.head /\ scan'.now = scan.now /\ scan'.found = scan.found
    BY <1>2, <2>1 DEF ScanRow
  <2>3. ScanTypeOK'
    BY <1>2, <2>1, <2>2 DEF DiscoveryInv, ScanTypeOK, ScanRow, billingVars
  <2>4. UNCHANGED billingVars /\ UNCHANGED <<chain, order>>
    BY <1>2 DEF billingVars
  <2>5. CursorSees'
    BY <1>2, <2>4, TablesStay DEF DiscoveryInv, CursorSees
  <2>6. scanStart(scan.hint)' = scanStart(scan.hint)
    BY <1>2, <2>2 DEF scanStart
  <2>7. ScanSees'
    BY <2>1, <2>2, <2>4, <2>6, TablesStay DEF DiscoveryInv, ScanSees, scanFromBlock, unclaimed, waiting
  <2> QED
    BY <2>3, <2>4, <2>5, <2>7, TablesStay DEF DiscoveryInv
<1> QED
  BY <1>1, <1>2 DEF assertBillingDiscoveryScopeStableBeforeCursor

\* The smallest block and the first order of a scope exist.
LEMMA SmallestBlock ==
    ASSUME BillingInv, NEW S, S \subseteq Orders, S # {}
    PROVE  \E q \in S : \A r \in S : scanFromBlock(order[q]) <= scanFromBlock(order[r])
<1> DEFINE blocks == {scanFromBlock(order[o]) : o \in S}
           last == MaxClock + 1
<1>1. \A o \in S : scanFromBlock(order[o]) \in 1..last
  BY BillingAssumption DEF BillingInv, RowsOK, Row, scanFromBlock
<1>2. blocks \subseteq 1..last /\ blocks # {} /\ last \in Nat
  BY <1>1, BillingAssumption
<1> HIDE DEF blocks, last
<1>3. PICK b \in blocks : \A c \in blocks : b <= c
  BY <1>2, SmallestNumber
<1> QED
  BY <1>3 DEF blocks

LEMMA FirstOrder ==
    ASSUME BillingInv, NEW S, S \subseteq Orders, S # {}
    PROVE  \E q \in S : \A r \in S : notAfter(q, r)
<1>1. PICK b \in S : \A r \in S : scanFromBlock(order[b]) <= scanFromBlock(order[r])
  BY SmallestBlock
<1> DEFINE ties == {r \in S : scanFromBlock(order[r]) = scanFromBlock(order[b])}
<1>2. ties \subseteq 1..MaxOrders /\ ties # {}
  BY DEF Orders
<1> HIDE DEF ties
<1>3. PICK q \in ties : \A r \in ties : q <= r
  BY <1>2, SmallestNumber, BillingAssumption
<1>4. \A r \in S : scanFromBlock(order[r]) \in Int
  BY DEF BillingInv, RowsOK, Row, scanFromBlock
<1>5. ASSUME NEW r \in S PROVE notAfter(q, r)
  <2>1. CASE r \in ties
    BY <1>3, <2>1 DEF notAfter, ties
  <2>2. CASE r \notin ties
    BY <1>1, <1>3, <1>4, <2>2 DEF notAfter, ties
  <2> QED
    BY <2>1, <2>2
<1> QED
  BY <1>3, <1>5 DEF ties

\* What the scan takes in: all orders waiting at its head, each with the
\* transfers that belong to it.
LEMMA CaptureStep ==
    ASSUME DiscoveryInv, captureBillingDiscoveryScopeAfterHead
    PROVE  DiscoveryInv'
<1> DEFINE scope == {o \in Orders : eligible(o, scan.now)}
           hint == CHOOSE b \in {scanFromBlock(order[o]) : o \in scope} :
                       \A o \in scope : b <= scanFromBlock(order[o])
           to == scanEnd(hint, scan.head)
           found == [o \in Orders |-> {h \in Hashes : /\ chain[h] \in scanStart(hint)..to
                                                      /\ assigned(o, chain[h], scope)}]
           next == [scan EXCEPT !.pc = "persist", !.scope = scope, !.hint = hint,
                                !.to = to, !.todo = scope, !.found = found]
<1>1. /\ UNCHANGED billingVars /\ cursor' = cursor /\ scan.pc = "capture"
      /\ scan' = IF scope = {} THEN NoScan
                 ELSE IF hint > scan.head \/ cursor >= scan.head THEN NoScan ELSE next
  BY DEF captureBillingDiscoveryScopeAfterHead
<1>2. /\ scan \in ScanRow /\ cursor \in 0..MaxClock /\ cursor < clock /\ clock \in Nat
      /\ scan.now <= clock /\ scan.head = scan.now - FinalityLag /\ scan.now \in Nat
  BY <1>1 DEF DiscoveryInv, ScanTypeOK, ScanRow, BillingInv, ChainOK
<1>3. CASE scan' = NoScan
  BY <1>1, <1>2, <1>3, ScanEnds DEF DiscoveryInv, CursorSees
<1>4. CASE scope # {} /\ hint <= scan.head /\ cursor < scan.head /\ scan' = next
  <2>1. /\ hint \in {scanFromBlock(order[o]) : o \in scope}
        /\ \A o \in scope : hint <= scanFromBlock(order[o])
    <3>1. \E q \in scope : \A r \in scope : scanFromBlock(order[q]) <= scanFromBlock(order[r])
      <4>1. scope \subseteq Orders
        OBVIOUS
      <4> HIDE DEF scope
      <4> QED
        BY <1>4, <4>1, SmallestBlock DEF DiscoveryInv
    <3> HIDE DEF scope
    <3> QED
      BY <3>1
  <2>2. \A o \in Orders : scanFromBlock(order[o]) \in Nat \ {0}
    BY DEF DiscoveryInv, BillingInv, RowsOK, Row, scanFromBlock
  <2> HIDE DEF hint
  <2>3. hint \in Nat /\ 1 <= hint
    BY <2>1, <2>2
  <2>4. to \in Int /\ hint <= to /\ to <= scan.head
    BY <1>2, <1>4, <2>3, BillingAssumption, DiscoveryAssumption DEF scanEnd, scanStart
  <2>5. scope \in SUBSET Orders /\ found \in [Orders -> SUBSET Hashes]
    OBVIOUS
  <2> HIDE DEF scope, found, to
  <2>6. /\ scan' \in ScanRow /\ scan'.pc = "persist" /\ scan'.todo = scope
        /\ scan'.scope = scope /\ scan'.hint = hint /\ scan'.to = to
        /\ scan'.head = scan.head /\ scan'.now = scan.now /\ scan'.found = found
    BY <1>2, <1>4, <2>3, <2>4, <2>5 DEF ScanRow
  <2>7. ScanTypeOK'
    BY <1>1, <1>2, <2>3, <2>4, <2>6 DEF ScanTypeOK, billingVars
  <2>8. UNCHANGED <<clock, chain, order>>
    BY <1>1 DEF billingVars
  <2>9. ASSUME NEW o \in Orders, eligible(o, clock) PROVE o \in scope
    <3>1. order[o].quotedAt \in Nat
      BY DEF DiscoveryInv, BillingInv, RowsOK, Row
    <3> QED
      BY <1>2, <2>9, <3>1, BillingAssumption, DiscoveryAssumption DEF scope, eligible, expiresAt
  <2>10. ASSUME NEW o \in scope
         PROVE  /\ o \in placed /\ order[o].status # "NONE" /\ waiting(order[o])
    BY DEF scope, placed, eligible, waiting
  <2>11. ASSUME NEW o \in Orders, NEW h \in Hashes,
                chain[h] \in scanStart(hint)..to, awaits(o, h)
         PROVE  o \in scope /\ h \in found[o]
    <3>1. o \in scope /\ assigned(o, chain[h], placed)
      BY <2>9, <2>11 DEF awaits
    <3>2. assigned(o, chain[h], scope)
      BY <2>10, <3>1 DEF assigned
    <3> QED
      BY <2>11, <3>1, <3>2 DEF found
  <2>12. scanStart(scan.hint)' = scanStart(hint)
    BY <1>1, <2>6 DEF scanStart
  <2>13. ScanSees'
    <3>1. \A o \in Orders : eligible(o, clock)' => scan'.hint <= scanFromBlock(order[o])'
      BY <1>1, <2>1, <2>6, <2>8, <2>9, TablesStay DEF scanFromBlock
    <3>2. \A o \in scan'.todo : order'[o].status # "NONE" /\ waiting(order'[o])
      BY <2>6, <2>8, <2>10
    <3>3. \A o \in Orders, h \in Hashes :
            chain'[h] \in scanStart(scan.hint)'..scan'.to /\ awaits(o, h)'
               => o \in scan'.todo /\ h \in scan'.found[o]
      BY <1>1, <2>6, <2>8, <2>11, <2>12, TablesStay
    <3> QED
      BY <3>1, <3>2, <3>3 DEF ScanSees, waiting
  <2>14. CursorSees'
    BY <1>1, <2>8, TablesStay DEF DiscoveryInv, CursorSees
  <2> QED
    BY <1>1, <2>7, <2>13, <2>14, TablesStay DEF DiscoveryInv
<1>5. hint <= scan.head \/ hint > scan.head \/ scope = {}
  <2>1. scope # {} => hint \in Int
    <3>1. scope \subseteq Orders
      OBVIOUS
    <3>2. \A o \in Orders : scanFromBlock(order[o]) \in Int
      BY DEF DiscoveryInv, BillingInv, RowsOK, Row, scanFromBlock
    <3> HIDE DEF scope
    <3> QED
      BY <3>1, <3>2, SmallestBlock DEF DiscoveryInv
  <2> HIDE DEF hint, scope
  <2> QED
    BY <1>2, <2>1, BillingAssumption
<1>6. cursor < scan.head \/ cursor >= scan.head
  BY <1>2, BillingAssumption
<1> HIDE DEF scope, hint, to, found, next
<1> QED
  BY <1>1, <1>3, <1>4, <1>5, <1>6

\* What handing a candidate over does to the orders.
LEMMA CandidateMoves ==
    ASSUME DiscoveryInv, persistBillingDiscoveryCandidate
    PROVE  \E o \in scan.todo :
             /\ scan' = [scan EXCEPT !.todo = scan.todo \ {o}]
             /\ \/ /\ order' = order /\ (scan.found[o] = {} \/ ~unclaimed(order[o]))
                \/ \E t \in Row :
                     /\ order' = [order EXCEPT ![o] = t]
                     /\ order[o].status # "NONE" /\ waiting(order[o])
                     /\ RowMove(order[o], t) /\ ~(waiting(t) /\ unclaimed(t))
                     /\ t.kind = order[o].kind /\ t.resv = order[o].resv
                     /\ t.status = "REVIEW_REQUIRED" \/ (isOpen(order[o]) /\ isOpen(t))
<1>1. scan.pc = "persist" /\ scan.todo # {} /\ scan.todo \subseteq Orders /\ scan \in ScanRow
  BY DEF persistBillingDiscoveryCandidate, DiscoveryInv, ScanTypeOK, ScanRow
<1> DEFINE first == CHOOSE q \in scan.todo : \A r \in scan.todo : notAfter(q, r)
<1>2. first \in scan.todo
  BY <1>1, FirstOrder DEF DiscoveryInv
<1>3. /\ order' = IF scan.found[first] # {} /\ unclaimed(order[first])
                  THEN [order EXCEPT ![first] = discovered(order[first], scan.found[first])]
                  ELSE order
      /\ scan' = [scan EXCEPT !.todo = scan.todo \ {first}]
  BY DEF persistBillingDiscoveryCandidate
<1> HIDE DEF first
<1>4. CASE ~(scan.found[first] # {} /\ unclaimed(order[first]))
  BY <1>2, <1>3, <1>4
<1>5. CASE scan.found[first] # {} /\ unclaimed(order[first])
  <2> DEFINE t == discovered(order[first], scan.found[first])
  <2>1. /\ RowOK(order[first]) /\ order[first].status # "NONE" /\ waiting(order[first])
        /\ scan.found[first] \subseteq Hashes
    BY <1>1, <1>2, <1>5 DEF DiscoveryInv, BillingInv, RowsOK, ScanSees, ScanRow
  <2>2. /\ RowMove(order[first], t) /\ ~(waiting(t) /\ unclaimed(t))
        /\ t.kind = order[first].kind /\ t.resv = order[first].resv
        /\ t.status = "REVIEW_REQUIRED" \/ (isOpen(order[first]) /\ isOpen(t))
    BY <1>5, <2>1, RowDiscovered
  <2>3. order' = [order EXCEPT ![first] = t]
    BY <1>3, <1>5
  <2> HIDE DEF t
  <2>4. t \in Row
    BY <2>2 DEF RowMove, RowOK
  <2> QED
    BY <1>2, <1>3, <2>1, <2>2, <2>3, <2>4
<1> QED
  BY <1>4, <1>5

LEMMA CandidateStep ==
    ASSUME DiscoveryInv, persistBillingDiscoveryCandidate
    PROVE  DiscoveryInv'
<1>1. /\ UNCHANGED <<clock, chain, granted, expiring, proc, cursor>>
      /\ scan.pc = "persist" /\ scan \in ScanRow
      /\ BillingInv /\ clock \in Nat /\ order \in [Orders -> Row]
  BY DEF persistBillingDiscoveryCandidate, DiscoveryInv, ScanTypeOK, BillingInv, ChainOK, RowsOK
<1>2. PICK o \in scan.todo :
             /\ scan' = [scan EXCEPT !.todo = scan.todo \ {o}]
             /\ \/ /\ order' = order /\ (scan.found[o] = {} \/ ~unclaimed(order[o]))
                \/ \E t \in Row :
                     /\ order' = [order EXCEPT ![o] = t]
                     /\ RowMove(order[o], t) /\ ~(waiting(t) /\ unclaimed(t))
  BY CandidateMoves
<1>3. /\ o \in Orders /\ scan' \in ScanRow /\ scan'.pc = "persist" /\ scan'.todo = scan.todo \ {o}
      /\ scan'.scope = scan.scope /\ scan'.hint = scan.hint /\ scan'.to = scan.to
      /\ scan'.head = scan.head /\ scan'.now = scan.now /\ scan'.found = scan.found
  BY <1>1, <1>2 DEF ScanRow
<1>4. /\ order' \in [Orders -> Row]
      /\ \A q \in Orders : q # o => order'[q] = order[q]
      /\ RowMove(order[o], order'[o])
      /\ scan.found[o] # {} => ~(waiting(order'[o]) /\ unclaimed(order'[o]))
  <2>1. RowOK(order[o])
    BY <1>1, <1>3 DEF BillingInv, RowsOK
  <2>2. RowMove(order[o], order[o])
    BY <2>1, RowStays DEF RowStep
  <2> QED
    BY <1>1, <1>2, <1>3, <2>2
<1>5. Moving
  <2>1. \A q \in Orders : RowMove(order[q], order[q])
    BY <1>1, RowStays DEF BillingInv, RowsOK, RowStep
  <2> QED
    BY <1>4, <2>1 DEF Moving
<1>6. BillingInv'
  BY <1>1, <1>5, MovingStep, ProcStays DEF BillingInv, ProcsOK
<1>7. ScanTypeOK'
  BY <1>1, <1>3 DEF DiscoveryInv, ScanTypeOK
<1>8. ASSUME NEW q \in Orders, NEW h \in Hashes, awaits(q, h)'
      PROVE  awaits(q, h)
  BY <1>1, <1>5, <1>8, AwaitsEarlier
<1>9. CursorSees'
  BY <1>1, <1>8 DEF DiscoveryInv, CursorSees
<1>10. ASSUME NEW q \in Orders, eligible(q, clock)', order'[q].createdAt < scan.to
       PROVE  scan.hint <= scanFromBlock(order[q])'
  <2>1. scan.to < clock /\ order'[q].createdAt \in Nat /\ scan.to \in Int
    BY <1>1, <1>4, BillingAssumption, DiscoveryAssumption DEF DiscoveryInv, ScanTypeOK, ScanRow, Row
  <2>2. /\ eligible(q, clock) /\ order'[q].createdAt = order[q].createdAt
        /\ order'[q].quotedAt = order[q].quotedAt
    BY <1>1, <1>5, <1>10, <2>1, EligibleEarlier
  <2> QED
    BY <1>1, <1>10, <2>2 DEF DiscoveryInv, ScanSees, scanFromBlock
<1>11. ASSUME NEW q \in scan.todo, q # o
       PROVE  order'[q].status # "NONE" /\ (unclaimed(order'[q]) => waiting(order'[q]))
  BY <1>1, <1>4, <1>11 DEF DiscoveryInv, ScanSees, ScanRow
<1>12. ASSUME NEW q \in Orders, NEW h \in Hashes,
              chain[h] \in scanStart(scan.hint)..scan.to, awaits(q, h)'
       PROVE  q \in scan.todo \ {o} /\ h \in scan.found[q]
  <2>1. q \in scan.todo /\ h \in scan.found[q]
    BY <1>1, <1>8, <1>12 DEF DiscoveryInv, ScanSees
  <2>2. waiting(order'[q]) /\ unclaimed(order'[q])
    BY <1>12 DEF awaits, eligible, waiting, unclaimed
  <2> QED
    BY <1>4, <2>1, <2>2
<1>13. scanStart(scan.hint)' = scanStart(scan.hint)
  BY <1>1, <1>3 DEF scanStart
<1>14. ScanSees'
  BY <1>1, <1>3, <1>10, <1>11, <1>12, <1>13 DEF ScanSees, scanFromBlock, unclaimed, waiting
<1> QED
  BY <1>6, <1>7, <1>9, <1>14 DEF DiscoveryInv

-----------------------------------------------------------------------------
LEMMA DiscoveryStep ==
    ASSUME DiscoveryInv, [DiscoveryNext]_discoveryVars
    PROVE  DiscoveryInv'
<1>1. CASE [BillingNext]_billingVars /\ UNCHANGED <<cursor, scan>>
  BY <1>1, BillingKeepsScan
<1>2. CASE Discover
  BY <1>2, ReadHeadStep, CaptureStep, CandidateStep, AssertStep, AdvanceStep DEF Discover
<1>3. CASE discoveryFails
  BY <1>3, ScanFailedStep DEF discoveryFails
<1> QED
  BY <1>1, <1>2, <1>3 DEF DiscoveryNext, discoveryVars

\* The tables stay consistent beside the discovery job, and a scan in flight,
\* together with the cursor, accounts for every transfer an order awaits.
THEOREM DiscoveryInvariance == DiscoverySpec => []DiscoveryInv
BY DiscoveryInit_Inv, DiscoveryStep, PTL DEF DiscoverySpec

LEMMA DiscoveryTerm == DiscoverySpec => []TermOK
<1>1. DiscoveryInit => TermOK
  BY DEF DiscoveryInit, BillingInit, TermOK
<1>2. TermOK /\ [DiscoveryNext]_discoveryVars => TermOK'
  BY TermStep DEF DiscoveryNext, Discover, discoveryFails, scanFailed, readFinalizedHead,
     captureBillingDiscoveryScopeAfterHead, persistBillingDiscoveryCandidate, advanceCursor,
     assertBillingDiscoveryScopeStableBeforeCursor, discoveryVars, billingVars, TermOK
<1> QED
  BY <1>1, <1>2, PTL DEF DiscoverySpec

LEMMA InvImpliesDiscoveryTypes == DiscoveryInv /\ TermOK => DiscoveryTypeOK
BY InvImpliesTypes DEF DiscoveryInv, ScanTypeOK, ScanRow, DiscoveryTypeOK

LEMMA InvImpliesNoneOverlooked == DiscoveryInv => NoPaymentOverlooked
<1> SUFFICES ASSUME DiscoveryInv, NEW h \in Hashes, NEW o \in Orders,
                    chain[h] # 0, chain[h] <= cursor, awaits(o, h)
             PROVE  FALSE
  BY DEF NoPaymentOverlooked, awaits, placed
<1>1. chain[h] \in 1..cursor
  BY DEF DiscoveryInv, BillingInv, ChainOK, ScanTypeOK
<1> QED
  BY <1>1 DEF DiscoveryInv, CursorSees

\* The scan in flight and the cursor stay in their types.
THEOREM DiscoveryTypes == DiscoverySpec => []DiscoveryTypeOK
BY DiscoveryInvariance, DiscoveryTerm, InvImpliesDiscoveryTypes, PTL

\* The cursor never passes a transfer that an order still waits for, for any
\* number of orders and transfers, any overlap, chunk, finality and horizon.
THEOREM NothingOverlooked == DiscoverySpec => []NoPaymentOverlooked
BY DiscoveryInvariance, InvImpliesNoneOverlooked, PTL

LEMMA CandidateDecides ==
    ASSUME DiscoveryInv, persistBillingDiscoveryCandidate
    PROVE  Decisions!Next
<1>1. PICK o \in scan.todo :
        \/ order' = order
        \/ \E t \in Row :
             /\ order' = [order EXCEPT ![o] = t]
             /\ waiting(order[o])
             /\ t.kind = order[o].kind /\ t.resv = order[o].resv
             /\ t.status = "REVIEW_REQUIRED" \/ (isOpen(order[o]) /\ isOpen(t))
  BY CandidateMoves
<1>2. /\ BillingInv /\ order \in [Orders -> Row] /\ granted' = granted /\ o \in Orders
  BY DEF DiscoveryInv, BillingInv, RowsOK, ScanTypeOK, ScanRow, persistBillingDiscoveryCandidate
<1>3. CASE order' = order
  BY <1>2, <1>3, StaysRetired
<1>4. ASSUME NEW t \in Row, order' = [order EXCEPT ![o] = t], waiting(order[o]),
             t.kind = order[o].kind, t.resv = order[o].resv, t.status = "REVIEW_REQUIRED"
      PROVE  Decisions!Next
  BY <1>2, <1>4, ReviewStep DEF waiting
<1>5. ASSUME NEW t \in Row, order' = [order EXCEPT ![o] = t], isOpen(order[o]), isOpen(t),
             t.kind = order[o].kind, t.resv = order[o].resv
      PROVE  Decisions!Next
  BY <1>2, <1>5, OneRetires
<1> QED
  BY <1>1, <1>3, <1>4, <1>5

\* The discovery job, too, decides orders only as OrderDecisions allows.
THEOREM DiscoveryDecided == DiscoverySpec => OrdersDecidedOnce
<1>1. DiscoveryInit => Decisions!Init
  BY BillingInitDecides DEF DiscoveryInit
<1>2. ASSUME DiscoveryInv, [DiscoveryNext]_discoveryVars
      PROVE  Decisions!Next
  <2>1. BillingInv
    BY <1>2 DEF DiscoveryInv
  <2>2. CASE [BillingNext]_billingVars
    BY <2>1, <2>2, BillingDecides
  <2>3. CASE persistBillingDiscoveryCandidate
    BY <1>2, <2>3, CandidateDecides
  <2>4. CASE UNCHANGED billingVars
    BY <2>1, <2>4, StaysRetired DEF billingVars
  <2> QED
    BY <1>2, <2>2, <2>3, <2>4 DEF DiscoveryNext, Discover, discoveryFails, scanFailed,
       readFinalizedHead, captureBillingDiscoveryScopeAfterHead, advanceCursor,
       assertBillingDiscoveryScopeStableBeforeCursor, discoveryVars
<1>3. DiscoveryInv /\ [DiscoveryNext]_discoveryVars => [Decisions!Next]_(Decisions!vars)
  BY <1>2
<1> QED
  BY <1>1, <1>3, DiscoveryInvariance, PTL DEF DiscoverySpec, OrdersDecidedOnce, Decisions!Spec
=============================================================================
