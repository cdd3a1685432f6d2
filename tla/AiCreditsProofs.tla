--------------------------- MODULE AiCreditsProofs ---------------------------
(***************************************************************************)
(* Proofs about AiCredits, for any number of runs, any estimate, prices    *)
(* and adjustments: the type invariant, and that the counters of the       *)
(* subscription agree with the reservations, charges and usage records.    *)
(*                                                                         *)
(* What makes the books inductive is RunInv: a transaction's view of its   *)
(* reservation is still true when it commits, a run that may still record  *)
(* usage holds an ACTIVE reservation, and whoever gave credits back left   *)
(* the ledger key that stops a second release.                             *)
(***************************************************************************)
EXTENDS AiCredits, SumTheorems

\* A transaction of the run is open.
inTransaction(r) == pc[r] \in SettleLabels \cup {"release"}

RunInv(r) ==
    /\ pc[r] = "idle" => reservation[r] = "NONE" /\ calls[r] = 0
    /\ pc[r] \in {"calling", "called"} => reservation[r] = "ACTIVE"
    /\ pc[r] = "calling" => calls[r] < MaxCalls
    /\ seen[r] # "NONE" => inTransaction(r) /\ seen[r] = reservation[r]
    /\ reservation[r] \in {"RELEASED", "EXPIRED"} => <<r, "release">> \in ledger
    /\ reservation[r] # "SETTLED" => settledCredits[r] = 0

RunsInv == \A r \in Runs : RunInv(r)

CreditsInv ==
    /\ CreditsTypeOK
    /\ RunsInv
    /\ ReservedMatchesReservations
    /\ ChargesMatchUsage
    /\ ReservationsCovered

-----------------------------------------------------------------------------
(* Arithmetic and sets. *)

\* Rounding up to whole credits overcharges by less than one credit.
LEMMA RoundedUp ==
    ASSUME NEW u \in Nat, NEW m \in Nat \ {0}
    PROVE  LET q == (u + m - 1) \div m
           IN  q \in Nat /\ u <= q * m /\ q * m < u + m
<1> DEFINE a == u + m - 1
           q == a \div m
<1>1. a \in Nat
  OBVIOUS
<1>2. q \in Int /\ m * q <= a /\ a < m * q + m
  BY <1>1, SMT
<1>3. q \in Nat
  BY <1>1, SMT
<1> HIDE DEF q
<1>4. m * q = q * m /\ m * q \in Int
  BY <1>2, SMT
<1> QED
  BY <1>2, <1>3, <1>4 DEF q

\* The runs that hold credits are finitely many.
LEMMA HoldingFinite ==
    IsFiniteSet(Holding) /\ Cardinality(Holding) \in Nat
BY CreditsAssumption, FS_Subset, FS_CardinalityType DEF Holding

LEMMA HoldingFiniteNext ==
    IsFiniteSet(Holding') /\ Cardinality(Holding') \in Nat
BY CreditsAssumption, FS_Subset, FS_CardinalityType DEF Holding

LEMMA OneMore ==
    ASSUME NEW n \in Nat
    PROVE  Credits * (n + 1) = Credits * n + Credits
BY CreditsAssumption, SMT

-----------------------------------------------------------------------------
(* Types. *)

LEMMA TypeInit == CreditsInit => CreditsTypeOK
BY CreditsAssumption DEF CreditsInit, CreditsTypeOK, ReservationStatus, RunStatus, Labels
LEMMA TypeStep ==
    ASSUME CreditsTypeOK, RunsInv, [CreditsNext]_creditVars
    PROVE  CreditsTypeOK'
<1> USE CreditsAssumption DEF CreditsTypeOK, ReservationStatus, RunStatus, Labels, SettleLabels,
        FinishLabels, RunsInv, RunInv, billingVars, subscriptionVars, runVars, goto,
        endTransaction
<1>1. ASSUME NEW r \in Runs, reserve(r) PROVE CreditsTypeOK'
  BY <1>1 DEF reserve
<1>12. ASSUME NEW r \in Runs, reserveRefused(r) PROVE CreditsTypeOK'
  <2>1. CASE Kind[r] = "chat"
    BY <1>12, <2>1 DEF reserveRefused
  <2>2. CASE Kind[r] # "chat"
    BY <1>12, <2>2 DEF reserveRefused
  <2> QED
    BY <2>1, <2>2
<1>2. ASSUME NEW r \in Runs, NEW cost \in Costs, callSucceeds(r, cost) \/ callIncomplete(r, cost)
      PROVE  CreditsTypeOK'
  <2>1. usage[r] + cost \in Nat
    OBVIOUS
  <2>2. CASE callSucceeds(r, cost)
    <3>1. calls[r] + 1 \in 0..MaxCalls
      <4>1. calls[r] \in 0..MaxCalls /\ pc[r] = "calling"
        BY <2>2 DEF callSucceeds
      <4>2. calls[r] < MaxCalls
        BY <4>1
      <4> QED
        BY <4>1, <4>2
    <3> QED
      BY <2>1, <2>2, <3>1 DEF callSucceeds
  <2>3. CASE callIncomplete(r, cost)
    BY <2>1, <2>3 DEF callIncomplete
  <2> QED
    BY <1>2, <2>2, <2>3
<1>3. ASSUME NEW r \in Runs,
             callFails(r) \/ callAmbiguous(r) \/ markForReconciliation(r) \/ markThrows(r)
      PROVE  CreditsTypeOK'
  BY <1>3 DEF callFails, callAmbiguous, markForReconciliation, markThrows
<1>4. ASSUME NEW r \in Runs, callAgain(r) \/ answer(r) \/ chatError(r) \/ handleFailure(r)
      PROVE  CreditsTypeOK'
  BY <1>4 DEF callAgain, answer, chatError, handleFailure
<1>5. ASSUME NEW r \in Runs, settleBegin(r) \/ settleAgain(r) \/ settleThrows(r)
      PROVE  CreditsTypeOK'
  BY <1>5 DEF settleBegin, settleAgain, settleThrows, onSettled, onSettleThrows
<1>6. ASSUME NEW r \in Runs, settleCommit(r)
      PROVE  CreditsTypeOK'
  <2>1. chargedCredits(r) \in Nat
    BY RoundedUp DEF chargedCredits
  <2> QED
    BY <1>6, <2>1 DEF settleCommit, onSettled
<1>7. ASSUME NEW r \in Runs, releaseBegin(r) \/ releaseAgain(r) \/ releaseThrows(r)
      PROVE  CreditsTypeOK'
  BY <1>7 DEF releaseBegin, releaseAgain, releaseThrows
<1>8. ASSUME NEW r \in Runs, releaseCommit(r) \/ expire(r)
      PROVE  CreditsTypeOK'
  BY <1>8 DEF releaseCommit, expire, canRelease, releaseReservation
<1>9. ASSUME NEW r \in Runs, finish(r) \/ completeThrows(r) \/ crash(r)
      PROVE  CreditsTypeOK'
  BY <1>9, SMTT(30) DEF finish, finalStatus, completeThrows, crash
<1>10. ASSUME NEW delta \in Adjustments, adminAdjust(delta)
       PROVE  CreditsTypeOK'
  <2>1. Max({0, balance + delta}) \in Nat
    BY DEF Max
  <2> QED
    BY <1>10, <2>1 DEF adminAdjust, adjusted
<1>11. CASE UNCHANGED creditVars
  BY <1>11 DEF creditVars
<1> QED
  BY <1>1, <1>2, <1>3, <1>4, <1>5, <1>6, <1>7, <1>8, <1>9, <1>10, <1>11, <1>12
  DEF CreditsNext, runNext

-----------------------------------------------------------------------------
(* The runs. *)

LEMMA RunsInit == CreditsInit => RunsInv
BY CreditsAssumption DEF CreditsInit, RunsInv, RunInv

LEMMA RunsStep ==
    ASSUME CreditsTypeOK, RunsInv, [CreditsNext]_creditVars
    PROVE  RunsInv'
<1> USE CreditsAssumption DEF CreditsTypeOK, ReservationStatus, Labels, SettleLabels,
        FinishLabels, RunsInv, RunInv, inTransaction, billingVars, subscriptionVars, goto,
        endTransaction
<1> SUFFICES ASSUME NEW q \in Runs PROVE RunInv(q)'
  OBVIOUS
<1>1. ASSUME NEW r \in Runs, reserve(r) \/ reserveRefused(r) PROVE RunInv(q)'
  BY <1>1 DEF reserve, reserveRefused
<1>2. ASSUME NEW r \in Runs, NEW cost \in Costs, callSucceeds(r, cost) \/ callIncomplete(r, cost)
      PROVE  RunInv(q)'
  BY <1>2 DEF callSucceeds, callIncomplete
<1>3. ASSUME NEW r \in Runs,
             callFails(r) \/ callAmbiguous(r) \/ markForReconciliation(r) \/ markThrows(r)
      PROVE  RunInv(q)'
  BY <1>3 DEF callFails, callAmbiguous, markForReconciliation, markThrows
<1>4. ASSUME NEW r \in Runs, callAgain(r) \/ answer(r) \/ chatError(r) \/ handleFailure(r)
      PROVE  RunInv(q)'
  BY <1>4 DEF callAgain, answer, chatError, handleFailure
<1>5. ASSUME NEW r \in Runs, settleBegin(r) \/ settleAgain(r) \/ settleThrows(r)
      PROVE  RunInv(q)'
  BY <1>5 DEF settleBegin, settleAgain, settleThrows, onSettled, onSettleThrows
<1>6. ASSUME NEW r \in Runs, settleCommit(r)
      PROVE  RunInv(q)'
  <2>1. chargedCredits(r) \in Nat
    BY RoundedUp DEF chargedCredits
  <2> QED
    BY <1>6, <2>1 DEF settleCommit, onSettled
<1>7. ASSUME NEW r \in Runs, releaseBegin(r) \/ releaseAgain(r) \/ releaseThrows(r)
      PROVE  RunInv(q)'
  BY <1>7 DEF releaseBegin, releaseAgain, releaseThrows
<1>8. ASSUME NEW r \in Runs, releaseCommit(r) \/ expire(r)
      PROVE  RunInv(q)'
  BY <1>8 DEF releaseCommit, expire, canRelease, releaseReservation
<1>9. ASSUME NEW r \in Runs, finish(r) \/ completeThrows(r) \/ crash(r)
      PROVE  RunInv(q)'
  BY <1>9 DEF finish, completeThrows, crash
<1>10. ASSUME NEW delta \in Adjustments, adminAdjust(delta)
       PROVE  RunInv(q)'
  BY <1>10 DEF adminAdjust
<1>11. CASE UNCHANGED creditVars
  BY <1>11 DEF creditVars
<1> QED
  BY <1>1, <1>2, <1>3, <1>4, <1>5, <1>6, <1>7, <1>8, <1>9, <1>10, <1>11
  DEF CreditsNext, runNext
-----------------------------------------------------------------------------
(* The books. *)

\* The steps that touch the subscription, a reservation, a charge or a balance.
LEMMA WhatMoves ==
    ASSUME [CreditsNext]_creditVars
    PROVE  \/ UNCHANGED <<balance, reserved, reservation, settledCredits, granted>>
           \/ \E r \in Runs : \/ reserve(r) \/ markForReconciliation(r) \/ settleCommit(r)
                              \/ releaseCommit(r) \/ expire(r)
           \/ \E delta \in Adjustments : adminAdjust(delta)
<1> USE DEF billingVars, subscriptionVars
<1>1. ASSUME NEW r \in Runs,
             \/ reserveRefused(r) \/ callFails(r) \/ callAmbiguous(r) \/ markThrows(r)
             \/ callAgain(r) \/ answer(r) \/ chatError(r) \/ handleFailure(r)
             \/ settleBegin(r) \/ settleAgain(r) \/ settleThrows(r)
             \/ releaseBegin(r) \/ releaseAgain(r) \/ releaseThrows(r)
             \/ finish(r) \/ completeThrows(r) \/ crash(r)
      PROVE  UNCHANGED <<balance, reserved, reservation, settledCredits, granted>>
  BY <1>1 DEF reserveRefused, callFails, callAmbiguous, markThrows, callAgain, answer, chatError,
     handleFailure, settleBegin, settleAgain, settleThrows, releaseBegin, releaseAgain,
     releaseThrows, finish, completeThrows, crash
<1>2. ASSUME NEW r \in Runs, NEW cost \in Costs, callSucceeds(r, cost) \/ callIncomplete(r, cost)
      PROVE  UNCHANGED <<balance, reserved, reservation, settledCredits, granted>>
  BY <1>2 DEF callSucceeds, callIncomplete
<1>3. CASE UNCHANGED creditVars
  BY <1>3 DEF creditVars
<1> QED
  BY <1>1, <1>2, <1>3 DEF CreditsNext, runNext

\* Credits come back once: who gives them back held them.
LEMMA GivesBack ==
    ASSUME CreditsTypeOK, RunsInv, NEW r \in Runs, settleCommit(r) \/ releaseCommit(r) \/ expire(r)
    PROVE  /\ reservation[r] = "ACTIVE" /\ reserved' = reserved - Credits
           /\ reservation' = [reservation EXCEPT ![r] = reservation'[r]]
           /\ reservation'[r] \in {"SETTLED", "RELEASED", "EXPIRED"}
<1> USE DEF CreditsTypeOK, RunsInv, RunInv, ReservationStatus
<1>1. CASE settleCommit(r)
  BY <1>1 DEF settleCommit
<1>2. CASE releaseCommit(r)
  BY <1>2 DEF releaseCommit, canRelease, releaseReservation
<1>3. CASE expire(r)
  BY <1>3 DEF expire, canRelease, releaseReservation
<1> QED
  BY <1>1, <1>2, <1>3

LEMMA ReservedStep ==
    ASSUME CreditsTypeOK, RunsInv, ReservedMatchesReservations, [CreditsNext]_creditVars
    PROVE  ReservedMatchesReservations'
<1> DEFINE n == Cardinality(Holding)
<1>1. CASE reserved' = reserved /\ Holding' = Holding
  BY <1>1 DEF ReservedMatchesReservations
<1>2. CASE UNCHANGED <<balance, reserved, reservation, settledCredits, granted>>
  BY <1>1, <1>2 DEF Holding
<1>3. ASSUME NEW r \in Runs, markForReconciliation(r)
      PROVE  ReservedMatchesReservations'
  BY <1>1, <1>3 DEF markForReconciliation, subscriptionVars, Holding, CreditsTypeOK,
     ReservationStatus
<1>4. ASSUME NEW delta \in Adjustments, adminAdjust(delta)
      PROVE  ReservedMatchesReservations'
  BY <1>1, <1>4 DEF adminAdjust, Holding
<1>5. ASSUME NEW r \in Runs, reserve(r)
      PROVE  ReservedMatchesReservations'
  <2>1. r \notin Holding /\ Holding' = Holding \cup {r} /\ reserved' = reserved + Credits
    <3>1. reservation[r] = "NONE"
      BY <1>5 DEF reserve, RunsInv, RunInv
    <3> QED
      BY <1>5, <3>1 DEF reserve, Holding, CreditsTypeOK
  <2>2. Cardinality(Holding') = n + 1 /\ n \in Nat
    BY <2>1, HoldingFinite, FS_AddElement
  <2> QED
    BY <2>1, <2>2, OneMore DEF ReservedMatchesReservations
<1>6. ASSUME NEW r \in Runs, settleCommit(r) \/ releaseCommit(r) \/ expire(r)
      PROVE  ReservedMatchesReservations'
  <2>1. r \in Holding /\ Holding' = Holding \ {r} /\ reserved' = reserved - Credits
    BY <1>6, GivesBack DEF Holding, CreditsTypeOK
  <2>2. Cardinality(Holding') = n - 1 /\ n - 1 \in Nat
    <3>1. Cardinality(Holding') = n - 1
      BY <2>1, HoldingFinite, FS_RemoveElement
    <3> QED
      BY <3>1, HoldingFinite, HoldingFiniteNext
  <2>3. Credits * (n - 1) = Credits * n - Credits
    <3> DEFINE m == n - 1
    <3>1. m \in Nat /\ n = m + 1
      BY <2>2, HoldingFinite
    <3> HIDE DEF m
    <3>2. Credits * (m + 1) = Credits * m + Credits /\ Credits * m \in Nat
      BY <3>1, OneMore, CreditsAssumption, SMT
    <3> QED
      BY <3>1, <3>2, CreditsAssumption DEF m
  <2> QED
    BY <2>1, <2>2, <2>3 DEF ReservedMatchesReservations
<1> QED
  BY <1>2, <1>3, <1>4, <1>5, <1>6, WhatMoves

LEMMA CoveredStep ==
    ASSUME CreditsTypeOK, RunsInv, ReservationsCovered, [CreditsNext]_creditVars
    PROVE  ReservationsCovered'
<1> USE CreditsAssumption DEF ReservationsCovered, CreditsTypeOK
<1>1. CASE UNCHANGED <<balance, reserved, reservation, settledCredits, granted>>
  BY <1>1
<1>2. ASSUME NEW r \in Runs, reserve(r) \/ markForReconciliation(r)
      PROVE  ReservationsCovered'
  BY <1>2 DEF reserve, canReserve, markForReconciliation, subscriptionVars
<1>3. ASSUME NEW r \in Runs, settleCommit(r)
      PROVE  ReservationsCovered'
  <2>1. chargedCredits(r) \in Nat
    BY RoundedUp DEF chargedCredits
  <2> QED
    BY <1>3, <2>1 DEF settleCommit
<1>4. ASSUME NEW r \in Runs, releaseCommit(r) \/ expire(r)
      PROVE  ReservationsCovered'
  BY <1>4 DEF releaseCommit, expire, releaseReservation
<1>5. ASSUME NEW delta \in Adjustments, adminAdjust(delta)
      PROVE  ReservationsCovered'
  <2> DEFINE new == Max({0, balance + delta})
  <2>1. new \in Nat
    BY DEF Max
  <2> HIDE DEF new
  <2>2. /\ balance' = new /\ reserved' = reserved
        /\ granted' = adjusted(new - balance)
    BY <1>5 DEF adminAdjust, new
  <2>3. new < balance => granted'.debited
    <3> DEFINE d == new - balance
    <3>1. new < balance => d < 0
      BY <2>1
    <3> HIDE DEF d
    <3>2. adjusted(d).debited = (granted.debited \/ d < 0)
      BY Zenon DEF adjusted
    <3> QED
      BY <2>2, <3>1, <3>2, Zenon DEF d
  <2>4. granted.debited => granted'.debited
    BY <2>2 DEF adjusted
  <2> QED
    BY <2>1, <2>2, <2>3, <2>4
<1> QED
  BY <1>1, <1>2, <1>3, <1>4, <1>5, WhatMoves
\* What was recorded and charged for a settled run stays as it is.
LEMMA SettledIsFinal ==
    ASSUME CreditsTypeOK, RunsInv, [CreditsNext]_creditVars,
           NEW q \in Runs, reservation[q] = "SETTLED"
    PROVE  usage'[q] = usage[q] /\ settledCredits'[q] = settledCredits[q]
<1> USE DEF CreditsTypeOK, RunsInv, RunInv
<1>1. usage'[q] = usage[q]
  <2> USE DEF billingVars, subscriptionVars
  <2>1. ASSUME NEW r \in Runs, NEW cost \in Costs,
               callSucceeds(r, cost) \/ callIncomplete(r, cost)
        PROVE  usage'[q] = usage[q]
    BY <2>1 DEF callSucceeds, callIncomplete
  <2>2. ASSUME NEW r \in Runs,
               \/ reserve(r) \/ reserveRefused(r) \/ callFails(r) \/ callAmbiguous(r)
               \/ markForReconciliation(r) \/ markThrows(r)
               \/ callAgain(r) \/ answer(r) \/ chatError(r) \/ handleFailure(r)
               \/ settleBegin(r) \/ settleCommit(r) \/ settleAgain(r) \/ settleThrows(r)
               \/ releaseBegin(r) \/ releaseCommit(r) \/ releaseAgain(r) \/ releaseThrows(r)
               \/ finish(r) \/ completeThrows(r) \/ crash(r) \/ expire(r)
        PROVE  usage'[q] = usage[q]
    BY <2>2 DEF reserve, reserveRefused, callFails, callAmbiguous, markForReconciliation,
       markThrows, callAgain, answer, chatError, handleFailure, settleBegin, settleCommit,
       settleAgain, settleThrows, releaseBegin, releaseCommit, releaseAgain, releaseThrows,
       finish, completeThrows, crash, expire
  <2>3. ASSUME NEW delta \in Adjustments, adminAdjust(delta)
        PROVE  usage'[q] = usage[q]
    BY <2>3 DEF adminAdjust
  <2>4. CASE UNCHANGED creditVars
    BY <2>4 DEF creditVars
  <2> QED
    BY <2>1, <2>2, <2>3, <2>4 DEF CreditsNext, runNext
<1>2. settledCredits'[q] = settledCredits[q]
  <2>1. ASSUME NEW r \in Runs, settleCommit(r)
        PROVE  settledCredits'[q] = settledCredits[q]
    <3>1. r # q
      BY <2>1, GivesBack
    <3> QED
      BY <2>1, <3>1 DEF settleCommit
  <2>2. ASSUME NEW r \in Runs,
               reserve(r) \/ markForReconciliation(r) \/ releaseCommit(r) \/ expire(r)
        PROVE  settledCredits'[q] = settledCredits[q]
    BY <2>2 DEF reserve, markForReconciliation, releaseCommit, expire, releaseReservation
  <2>3. ASSUME NEW delta \in Adjustments, adminAdjust(delta)
        PROVE  settledCredits'[q] = settledCredits[q]
    BY <2>3 DEF adminAdjust
  <2> QED
    BY <2>1, <2>2, <2>3, WhatMoves
<1> QED
  BY <1>1, <1>2

LEMMA ChargesStep ==
    ASSUME CreditsTypeOK, RunsInv, ChargesMatchUsage, [CreditsNext]_creditVars
    PROVE  ChargesMatchUsage'
<1> DEFINE Sum == SumFunctionOnSet(settledCredits, Runs)
           Paid(r) == LET paid == settledCredits[r] * MicrousdPerCredit
                      IN  /\ usage[r] <= paid /\ paid < usage[r] + MicrousdPerCredit
                          /\ settledCredits[r] <= Credits
<1>1. balance = granted.total - Sum /\ \A r \in Runs : reservation[r] = "SETTLED" => Paid(r)
  BY DEF ChargesMatchUsage
<1>2. ASSUME NEW r \in Runs, reservation[r] = "SETTLED" PROVE Paid(r)'
  BY <1>1, <1>2, SettledIsFinal
<1>3. Sum \in Int /\ balance \in Int /\ granted.total \in Int
  BY CreditsAssumption, SumIsInt DEF CreditsTypeOK
<1>4. CASE UNCHANGED <<balance, reserved, reservation, settledCredits, granted>>
  <2>1. balance' = granted'.total - SumFunctionOnSet(settledCredits', Runs)
    BY <1>1, <1>4
  <2> QED
    BY <1>2, <1>4, <2>1 DEF ChargesMatchUsage
<1>5. ASSUME NEW r \in Runs,
             reserve(r) \/ markForReconciliation(r) \/ releaseCommit(r) \/ expire(r)
      PROVE  ChargesMatchUsage'
  <2>1. UNCHANGED <<balance, settledCredits, granted>>
    BY <1>5 DEF reserve, markForReconciliation, subscriptionVars, releaseCommit, expire,
       releaseReservation
  <2>2. \A q \in Runs : reservation'[q] = "SETTLED" => reservation[q] = "SETTLED"
    BY <1>5 DEF CreditsTypeOK, reserve, markForReconciliation, releaseCommit, expire,
       releaseReservation
  <2>3. balance' = granted'.total - SumFunctionOnSet(settledCredits', Runs)
    BY <1>1, <2>1
  <2> QED
    BY <1>2, <2>2, <2>3 DEF ChargesMatchUsage
<1>6. ASSUME NEW r \in Runs, settleCommit(r)
      PROVE  ChargesMatchUsage'
  <2> DEFINE charged == chargedCredits(r)
  <2>1. /\ charged \in Nat
        /\ usage[r] <= charged * MicrousdPerCredit
        /\ charged * MicrousdPerCredit < usage[r] + MicrousdPerCredit
    BY RoundedUp, CreditsAssumption DEF chargedCredits, CreditsTypeOK
  <2> HIDE DEF charged
  <2>2. /\ settledCredits' = [settledCredits EXCEPT ![r] = charged]
        /\ balance' = balance - charged /\ charged <= Credits
        /\ usage' = usage /\ granted' = granted
        /\ reservation' = [reservation EXCEPT ![r] = "SETTLED"]
    BY <1>6 DEF settleCommit, charged
  <2>3. settledCredits[r] = 0
    BY <1>6, GivesBack DEF RunsInv, RunInv
  <2>4. SumFunctionOnSet(settledCredits', Runs) = Sum - settledCredits[r] + settledCredits'[r]
    <3>1. /\ \A q \in Runs : settledCredits[q] \in Int /\ settledCredits'[q] \in Int
          /\ \A q \in Runs \ {r} : settledCredits'[q] = settledCredits[q]
      BY <2>1, <2>2 DEF CreditsTypeOK
    <3> QED
      BY <3>1, SumChanged, CreditsAssumption
  <2>5. settledCredits'[r] = charged
    BY <2>2 DEF CreditsTypeOK
  <2>6. balance' = granted'.total - SumFunctionOnSet(settledCredits', Runs)
    BY <1>1, <1>3, <2>1, <2>2, <2>3, <2>4, <2>5
  <2>7. Paid(r)'
    BY <2>1, <2>2, <2>5
  <2>8. ASSUME NEW q \in Runs, reservation'[q] = "SETTLED" PROVE Paid(q)'
    BY <1>2, <2>2, <2>7, <2>8 DEF CreditsTypeOK
  <2> QED
    BY <2>6, <2>8 DEF ChargesMatchUsage
<1>7. ASSUME NEW delta \in Adjustments, adminAdjust(delta)
      PROVE  ChargesMatchUsage'
  <2> DEFINE new == Max({0, balance + delta})
  <2>1. new \in Nat
    BY CreditsAssumption DEF Max, CreditsTypeOK
  <2> HIDE DEF new
  <2>2. /\ balance' = new /\ settledCredits' = settledCredits /\ reservation' = reservation
        /\ granted'.total = granted.total + (new - balance)
    BY <1>7 DEF adminAdjust, adjusted, new
  <2>3. balance' = granted'.total - SumFunctionOnSet(settledCredits', Runs)
    BY <1>1, <1>3, <2>1, <2>2
  <2> QED
    BY <1>2, <2>2, <2>3 DEF ChargesMatchUsage
<1> QED
  BY <1>4, <1>5, <1>6, <1>7, WhatMoves

-----------------------------------------------------------------------------
LEMMA BooksInit ==
    CreditsInit => ReservedMatchesReservations /\ ChargesMatchUsage /\ ReservationsCovered
<1> SUFFICES ASSUME CreditsInit
             PROVE  ReservedMatchesReservations /\ ChargesMatchUsage /\ ReservationsCovered
  OBVIOUS
<1> USE CreditsAssumption DEF CreditsInit
<1>1. Holding = {} /\ Cardinality({}) = 0 /\ Credits * 0 = 0
  BY FS_EmptySet DEF Holding
<1>2. SumFunctionOnSet(settledCredits, Runs) = 0
  BY SumOfZeros
<1>3. ReservedMatchesReservations
  BY <1>1 DEF ReservedMatchesReservations
<1>4. ChargesMatchUsage
  BY <1>2 DEF ChargesMatchUsage
<1>5. ReservationsCovered
  BY DEF ReservationsCovered
<1> QED
  BY <1>3, <1>4, <1>5

\* The inductive invariant of AI credit billing holds in every reachable state.
THEOREM Invariance == CreditsSpec => []CreditsInv
<1>1. CreditsInit => CreditsInv
  BY TypeInit, RunsInit, BooksInit DEF CreditsInv
<1>2. CreditsInv /\ [CreditsNext]_creditVars => CreditsInv'
  BY TypeStep, RunsStep, ReservedStep, ChargesStep, CoveredStep DEF CreditsInv
<1> QED
  BY <1>1, <1>2, PTL DEF CreditsSpec

\* Every row, counter and program counter keeps its type; the balance never
\* goes below zero.
THEOREM TypeCorrect == CreditsSpec => []CreditsTypeOK
<1>1. CreditsInv => CreditsTypeOK
  BY DEF CreditsInv
<1> QED
  BY <1>1, Invariance, PTL

\* aiCreditsReserved is what the open reservations hold, for any number of
\* runs, crashes, marks, releases and expiries.
THEOREM ReservedMatches == CreditsSpec => []ReservedMatchesReservations
<1>1. CreditsInv => ReservedMatchesReservations
  BY DEF CreditsInv
<1> QED
  BY <1>1, Invariance, PTL

\* The balance fell by exactly the charges of settled runs, and each charge is
\* the run's recorded usage rounded up once, within its reservation.
THEOREM ChargesMatch == CreditsSpec => []ChargesMatchUsage
<1>1. CreditsInv => ChargesMatchUsage
  BY DEF CreditsInv
<1> QED
  BY <1>1, Invariance, PTL

\* Parallel runs never reserve more than the balance, unless an administrator
\* debited it.
THEOREM Covered == CreditsSpec => []ReservationsCovered
<1>1. CreditsInv => ReservationsCovered
  BY DEF CreditsInv
<1> QED
  BY <1>1, Invariance, PTL
=============================================================================
