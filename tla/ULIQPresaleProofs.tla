-------------------------- MODULE ULIQPresaleProofs --------------------------
(***************************************************************************)
(* Proofs about ULIQPresaleRound.                                          *)
(*                                                                         *)
(* Every total of a round is the sum, over all purchase numbers, of what   *)
(* each purchase weighs in it, so a transaction that changes one purchase  *)
(* changes a total by the difference of two weights.                       *)
(***************************************************************************)
EXTENDS ULIQPresaleRound, SumTheorems

-----------------------------------------------------------------------------
(* Rounding. *)

LEMMA Division ==
    ASSUME NEW a \in Nat, NEW c \in Nat \ {0}
    PROVE  /\ a \div c \in Nat
           /\ c * (a \div c) <= a
           /\ a < c * (a \div c) + c
OBVIOUS

LEMMA ProductGrows ==
    ASSUME NEW a \in Nat, NEW b \in Nat, NEW c \in Nat, a <= b
    PROVE  /\ a * c \in Nat /\ b * c \in Nat
           /\ a * c <= b * c /\ c * a <= c * b
OBVIOUS

LEMMA DivBelow ==
    ASSUME NEW a \in Nat, NEW b \in Nat, NEW c \in Nat \ {0}, a < c * (b + 1)
    PROVE  a \div c <= b
<1>1. a \div c \in Nat /\ c * (a \div c) <= a
  BY Division
<1>2. SUFFICES ASSUME a \div c >= b + 1 PROVE FALSE
  BY <1>1
<1>3. c * (b + 1) <= c * (a \div c)
  BY <1>1, <1>2, ProductGrows
<1> QED
  BY <1>1, <1>3

LEMMA DivGrows ==
    ASSUME NEW a \in Nat, NEW b \in Nat, NEW c \in Nat \ {0}, a <= b
    PROVE  a \div c <= b \div c
<1>1. b \div c \in Nat /\ b < c * (b \div c) + c
  BY Division
<1>2. a < c * ((b \div c) + 1)
  BY <1>1
<1> QED
  BY <1>1, <1>2, DivBelow

\* A purchase in full: the USDC that fits the rest of a round buys no more
\* than that rest, and costs no more than what would have overshot it.
LEMMA MulDivFits ==
    ASSUME NEW rest \in Nat, NEW offer \in Nat, NEW p \in Nat \ {0}, NEW one \in Nat \ {0},
           mulDiv(offer, one, p) > rest
    PROVE  /\ mulDiv(rest, p, one) \in Nat
           /\ mulDiv(rest, p, one) <= offer
           /\ mulDiv(mulDiv(rest, p, one), one, p) <= rest
<1> DEFINE cost == (rest * p) \div one
<1>1. rest * p \in Nat /\ offer * one \in Nat
  OBVIOUS
<1>2. cost \in Nat /\ one * cost <= rest * p /\ cost * one \in Nat
  BY <1>1, Division
<1>3. p * (rest + 1) <= offer * one
  <2>1. (offer * one) \div p \in Nat /\ p * ((offer * one) \div p) <= offer * one
    BY <1>1, Division
  <2>2. rest + 1 <= (offer * one) \div p
    BY <2>1 DEF mulDiv
  <2>3. p * (rest + 1) <= p * ((offer * one) \div p)
    BY <2>1, <2>2, ProductGrows
  <2> QED
    BY <1>1, <2>1, <2>3
<1>4. cost <= offer
  <2>1. rest * p < one * (offer + 1)
    BY <1>1, <1>3
  <2> QED
    BY <1>1, <2>1, DivBelow
<1>5. (cost * one) \div p <= rest
  <2>1. cost * one < p * (rest + 1)
    BY <1>1, <1>2
  <2> QED
    BY <1>2, <2>1, DivBelow
<1> QED
  BY <1>2, <1>4, <1>5 DEF mulDiv

LEMMA MinOfThree ==
    ASSUME NEW a \in Nat, NEW b \in Nat, NEW c \in Nat
    PROVE  /\ Min({a, b, c}) \in Nat
           /\ Min({a, b, c}) <= a /\ Min({a, b, c}) <= b /\ Min({a, b, c}) <= c
<1>1. \E x \in {a, b, c} : \A y \in {a, b, c} : x =< y
  <2>1. CASE a <= b /\ a <= c
    BY <2>1
  <2>2. CASE b <= a /\ b <= c
    BY <2>2
  <2>3. CASE c <= a /\ c <= b
    BY <2>3
  <2> QED
    BY <2>1, <2>2, <2>3
<1> QED
  BY <1>1 DEF Min

LEMMA HardCapIsNat == \A r \in Rounds : hardCap(r) \in Nat
BY RoundAssumption, Division DEF hardCap, mulDiv

\* What quotePurchase accepts stays within the three limits.
LEMMA QuoteFits ==
    ASSUME NEW r \in Rounds, NEW b \in Buyers, NEW requested \in Nat,
           round[r].totalRaised \in Nat, round[r].totalRaised <= hardCap(r),
           round[r].totalSold \in Nat, round[r].totalSold <= AllocationCap[r],
           round[r].purchasedByBuyer[b] \in Nat,
           quotePurchase(r, b, requested) # Nothing
    PROVE  LET quote == quotePurchase(r, b, requested)
           IN  /\ quote.usdc \in Nat /\ quote.uliq \in Nat \ {0}
               /\ round[r].totalRaised + quote.usdc <= hardCap(r)
               /\ round[r].totalSold + quote.uliq <= AllocationCap[r]
               /\ round[r].purchasedByBuyer[b] + quote.usdc <= MaxPurchase
<1> DEFINE already == round[r].purchasedByBuyer[b]
           clipped == Min({requested, MaxPurchase - already, hardCap(r) - round[r].totalRaised})
           remaining == AllocationCap[r] - round[r].totalSold
           accepted == IF toUliq(r, clipped) > remaining
                       THEN mulDiv(remaining, Price[r], OneUliq) ELSE clipped
           quote == quotePurchase(r, b, requested)
<1>1. /\ already < MaxPurchase /\ toUliq(r, accepted) # 0
      /\ quote = [usdc |-> accepted, uliq |-> toUliq(r, accepted)]
  BY RoundAssumption DEF quotePurchase
<1>2. /\ hardCap(r) \in Nat /\ remaining \in Nat /\ MaxPurchase \in Nat
      /\ OneUliq \in Nat \ {0} /\ Price[r] \in Nat \ {0}
  BY RoundAssumption, HardCapIsNat
<1>3. /\ clipped \in Nat /\ clipped <= MaxPurchase - already
      /\ clipped <= hardCap(r) - round[r].totalRaised
  <2>1. MaxPurchase - already \in Nat /\ hardCap(r) - round[r].totalRaised \in Nat
    BY <1>1, <1>2
  <2> QED
    BY <2>1, MinOfThree
<1> HIDE DEF clipped, remaining
<1>4. /\ accepted \in Nat /\ accepted <= clipped
      /\ toUliq(r, accepted) \in Nat /\ toUliq(r, accepted) <= remaining
  <2>1. toUliq(r, clipped) \in Nat
    BY <1>2, <1>3, Division DEF toUliq, mulDiv
  <2>2. CASE toUliq(r, clipped) > remaining
    <3>1. accepted = mulDiv(remaining, Price[r], OneUliq)
      BY <2>2
    <3>2. accepted \in Nat /\ accepted <= clipped /\ toUliq(r, accepted) <= remaining
      BY <1>2, <1>3, <2>2, <3>1, MulDivFits DEF toUliq
    <3> QED
      BY <1>2, <3>2, Division DEF toUliq, mulDiv
  <2>3. CASE ~(toUliq(r, clipped) > remaining)
    BY <1>2, <1>3, <2>1, <2>3
  <2> QED
    BY <2>2, <2>3
<1> HIDE DEF accepted, quote
<1>5. quote.usdc = accepted /\ quote.uliq = toUliq(r, accepted)
  BY <1>1
<1>6. /\ quote.usdc \in Nat /\ quote.uliq \in Nat \ {0}
      /\ already + quote.usdc <= MaxPurchase
      /\ round[r].totalRaised + quote.usdc <= hardCap(r)
  BY <1>1, <1>2, <1>3, <1>4, <1>5
<1>7. round[r].totalSold + quote.uliq <= AllocationCap[r]
  BY <1>4, <1>5, RoundAssumption DEF remaining
<1> QED
  BY <1>6, <1>7 DEF quote

-----------------------------------------------------------------------------
(* The books of a round. *)

PurchaseStates == {"NONE", "PENDING_WITHDRAWAL", "WITHDRAWN", "FINALIZED"}
PaymentStates == {"NONE", "COLLECTED", "REFUNDED", "RELEASED"}

PurchaseRow ==
    [buyer : Buyers \cup {NoBuyer}, usdc : Nat, uliq : Nat, withdrawalDeadline : Nat,
     state : PurchaseStates]

PaymentRow == [buyer : Buyers \cup {NoBuyer}, amount : Nat, state : PaymentStates]

RoundRow ==
    [state : SaleStates, saleStart : Nat, saleEnd : Nat, nextPurchaseId : Nat,
     totalRaised : Int, totalSold : Int, pendingAllocation : Int,
     pendingPurchaseCount : Int, finalizedAllocation : Int, withdrawnAllocation : Int,
     unsoldReleased : Int, inventoryFunded : BOOLEAN, balance : Int,
     purchasedByBuyer : [Buyers -> Int], purchases : [PurchaseIds -> PurchaseRow]]

CustodyRow ==
    [presale : BOOLEAN, balance : Int, treasury : Treasuries,
     pendingTreasury : Treasuries \cup {NoTreasury}, totalCollected : Int,
     totalRefunded : Int, totalReleased : Int, payments : [PurchaseIds -> PaymentRow]]

VestingRow ==
    [presale : BOOLEAN, balance : Int, totalAllocated : Int, totalReleased : Int,
     allocated : [Buyers -> Int], released : [Buyers -> Int]]

\* What a purchase weighs in each total of its round.
pending(p) == p.state = "PENDING_WITHDRAWAL"
live(p) == p.state \in {"PENDING_WITHDRAWAL", "FINALIZED"}
final(p) == p.state = "FINALIZED"

counting == [p \in PurchaseRow |-> IF pending(p) THEN 1 ELSE 0]
pendingUliq == [p \in PurchaseRow |-> IF pending(p) THEN p.uliq ELSE 0]
pendingUsdc == [p \in PurchaseRow |-> IF pending(p) THEN p.usdc ELSE 0]
liveUsdc == [p \in PurchaseRow |-> IF live(p) THEN p.usdc ELSE 0]
liveUliq == [p \in PurchaseRow |-> IF live(p) THEN p.uliq ELSE 0]
finalUsdc == [p \in PurchaseRow |-> IF final(p) THEN p.usdc ELSE 0]
liveUsdcOf(b) == [p \in PurchaseRow |-> IF live(p) /\ p.buyer = b THEN p.usdc ELSE 0]
finalUliqOf(b) == [p \in PurchaseRow |-> IF final(p) /\ p.buyer = b THEN p.uliq ELSE 0]

Total(P, weight) == SumFunctionOnSet([id \in PurchaseIds |-> weight[P[id]]], PurchaseIds)

LEMMA PurchaseIdsFinite == IsFiniteSet(PurchaseIds)
BY FS_Interval, CustodyAssumption DEF PurchaseIds

LEMMA WeightTypes ==
    /\ counting \in [PurchaseRow -> Nat]
    /\ pendingUliq \in [PurchaseRow -> Nat] /\ pendingUsdc \in [PurchaseRow -> Nat]
    /\ liveUsdc \in [PurchaseRow -> Nat] /\ liveUliq \in [PurchaseRow -> Nat]
    /\ finalUsdc \in [PurchaseRow -> Nat]
    /\ \A b : liveUsdcOf(b) \in [PurchaseRow -> Nat] /\ finalUliqOf(b) \in [PurchaseRow -> Nat]
BY DEF PurchaseRow, counting, pendingUliq, pendingUsdc, liveUsdc, liveUliq, finalUsdc,
   liveUsdcOf, finalUliqOf

LEMMA TotalIsNat ==
    ASSUME NEW P \in [PurchaseIds -> PurchaseRow], NEW weight \in [PurchaseRow -> Nat]
    PROVE  Total(P, weight) \in Nat
<1> DEFINE f == [id \in PurchaseIds |-> weight[P[id]]]
<1>1. \A id \in PurchaseIds : f[id] \in Nat
  OBVIOUS
<1> HIDE DEF f
<1>2. SumFunctionOnSet(f, PurchaseIds) \in Nat
  BY <1>1, PurchaseIdsFinite, SumIsNat
<1> QED
  BY <1>2 DEF f, Total

\* A transaction that writes one purchase changes each total by the
\* difference of its weights.
LEMMA TotalChanges ==
    ASSUME NEW P \in [PurchaseIds -> PurchaseRow], NEW weight \in [PurchaseRow -> Nat],
           NEW id \in PurchaseIds, NEW q \in PurchaseRow
    PROVE  Total([P EXCEPT ![id] = q], weight) = Total(P, weight) - weight[P[id]] + weight[q]
<1> DEFINE Q == [P EXCEPT ![id] = q]
           f == [x \in PurchaseIds |-> weight[P[x]]]
           g == [x \in PurchaseIds |-> weight[Q[x]]]
<1>1. /\ \A x \in PurchaseIds : f[x] \in Int /\ g[x] \in Int
      /\ \A x \in PurchaseIds \ {id} : g[x] = f[x]
      /\ f[id] = weight[P[id]] /\ g[id] = weight[q]
  OBVIOUS
<1> HIDE DEF f, g
<1>2. SumFunctionOnSet(g, PurchaseIds) = SumFunctionOnSet(f, PurchaseIds) - f[id] + g[id]
  BY <1>1, PurchaseIdsFinite, SumChanged
<1>3. SumFunctionOnSet(f, PurchaseIds) = Total(P, weight)
  BY DEF f, Total
<1>4. SumFunctionOnSet(g, PurchaseIds) = Total(Q, weight)
  BY DEF g, Total
<1> QED
  BY <1>1, <1>2, <1>3, <1>4

\* The total of a weight that is the amount for some purchases and nothing for
\* the others is the sum over the former.
LEMMA TotalIsSumOf ==
    ASSUME NEW P \in [PurchaseIds -> PurchaseRow], NEW weight \in [PurchaseRow -> Nat],
           NEW f, NEW S \in SUBSET PurchaseIds,
           \A id \in S : f[id] = weight[P[id]],
           \A id \in PurchaseIds \ S : weight[P[id]] = 0
    PROVE  Total(P, weight) = SumFunctionOnSet(f, S)
<1> DEFINE g == [x \in PurchaseIds |-> weight[P[x]]]
<1>1. /\ \A x \in S : f[x] \in Int /\ g[x] = f[x]
      /\ \A x \in PurchaseIds \ S : g[x] = 0
  OBVIOUS
<1> HIDE DEF g
<1>2. SumFunctionOnSet(g, PurchaseIds) = SumFunctionOnSet(f, S)
  BY <1>1, PurchaseIdsFinite, SumOfPart
<1> QED
  BY <1>2 DEF g, Total

-----------------------------------------------------------------------------
(* The inductive invariant. *)

Ended == {"ENDED", "LISTING_PENDING", "LISTING_LAUNCHED", "COMPLETED"}
Listed == {"LISTING_PENDING", "LISTING_LAUNCHED", "COMPLETED"}
Selling == {"ACTIVE", "PAUSED"}

\* d, c, v: a round with its custody and its vesting pool.
BooksOK(d, c, v) ==
    /\ d.pendingPurchaseCount = Total(d.purchases, counting)
    /\ d.pendingAllocation = Total(d.purchases, pendingUliq)
    /\ d.totalRaised = Total(d.purchases, liveUsdc)
    /\ d.totalSold = Total(d.purchases, liveUliq)
    /\ \A b \in Buyers : d.purchasedByBuyer[b] = Total(d.purchases, liveUsdcOf(b))
    /\ c.balance = Total(d.purchases, pendingUsdc)
    /\ c.totalReleased = Total(d.purchases, finalUsdc)
    /\ \A b \in Buyers : v.allocated[b] = Total(d.purchases, finalUliqOf(b))
    /\ d.finalizedAllocation = v.totalAllocated

PaymentsOK(d, c) ==
    /\ c.balance = c.totalCollected - c.totalRefunded - c.totalReleased
    /\ \A id \in PurchaseIds :
        /\ <<d.purchases[id].state, c.payments[id].state>> \in
                {<<"NONE", "NONE">>, <<"PENDING_WITHDRAWAL", "COLLECTED">>,
                 <<"WITHDRAWN", "REFUNDED">>, <<"FINALIZED", "RELEASED">>}
        /\ d.purchases[id].state # "NONE" => d.purchases[id].buyer \in Buyers

LimitsOK(r, d) ==
    /\ d.totalRaised <= hardCap(r)
    /\ d.totalSold <= AllocationCap[r]
    /\ \A b \in Buyers : d.purchasedByBuyer[b] <= MaxPurchase

\* Besides InventoryCoversSales: what is returned stays returned because no
\* purchase is pending any more and none can follow.
InventoryOK(r, d) ==
    /\ d.balance \in Nat /\ d.finalizedAllocation \in Nat
    /\ d.finalizedAllocation + d.pendingAllocation = d.totalSold
    /\ d.unsoldReleased \in {0, AllocationCap[r] - d.totalSold}
    /\ d.unsoldReleased # 0 => d.state \in Ended /\ d.pendingPurchaseCount = 0
    /\ d.inventoryFunded =>
          d.balance >= d.pendingAllocation + (AllocationCap[r] - d.totalSold) - d.unsoldReleased

PoolOK(v) ==
    /\ v.balance \in Nat /\ v.released \in [Buyers -> Nat]
    /\ v.balance + v.totalReleased >= v.totalAllocated

RoundOK(r, d, c, v) ==
    /\ BooksOK(d, c, v) /\ PaymentsOK(d, c) /\ LimitsOK(r, d) /\ InventoryOK(r, d) /\ PoolOK(v)

TypesOK ==
    /\ now \in 1..MaxTime /\ listingTimestamp \in 0..MaxTime
    /\ round \in [Rounds -> RoundRow] /\ sourceUliq \in Nat
    /\ custody \in [Rounds -> CustodyRow] /\ vesting \in [Rounds -> VestingRow]
    /\ walletUsdc \in [Buyers -> Nat] /\ treasuryUsdc \in [Treasuries -> Nat]
    /\ walletUliq \in [Buyers -> Nat]

\* Where the tokens that left a wallet or a pool are.
MoneyOK ==
    /\ \A b \in Buyers :
        walletUsdc[b] + round[1].purchasedByBuyer[b] + round[2].purchasedByBuyer[b] = Budget
    /\ SumFunctionOnSet(treasuryUsdc, Treasuries) = custody[1].totalReleased + custody[2].totalReleased
    /\ \A b \in Buyers : walletUliq[b] = vesting[1].released[b] + vesting[2].released[b]

SaleOrderOK == round[2].state \in Selling => round[1].state \in Ended

ListingOK ==
    listingTimestamp # 0 =>
        \A r \in Rounds : round[r].state \in Listed /\ round[r].pendingPurchaseCount = 0

ClaimsOK == \A r \in Rounds, b \in Buyers : vesting[r].released[b] <= vested(r, b)

PresaleInv ==
    /\ TypesOK
    /\ \A r \in Rounds : RoundOK(r, round[r], custody[r], vesting[r])
    /\ MoneyOK /\ SaleOrderOK /\ ListingOK /\ ClaimsOK

-----------------------------------------------------------------------------
LEMMA NoPurchaseWeighsNothing ==
    ASSUME NEW weight \in [PurchaseRow -> Nat], weight[NoPurchase] = 0
    PROVE  Total([id \in PurchaseIds |-> NoPurchase], weight) = 0
<1> DEFINE f == [id \in PurchaseIds |-> weight[[x \in PurchaseIds |-> NoPurchase][id]]]
<1>1. \A id \in PurchaseIds : f[id] = 0
  OBVIOUS
<1> HIDE DEF f
<1>2. SumFunctionOnSet(f, PurchaseIds) = 0
  BY <1>1, PurchaseIdsFinite, SumOfZeros
<1> QED
  BY <1>2 DEF f, Total

LEMMA PresaleInit_Inv == PresaleInit => PresaleInv
<1> SUFFICES ASSUME PresaleInit PROVE PresaleInv
  OBVIOUS
<1> DEFINE none == [id \in PurchaseIds |-> NoPurchase]
<1>1. NoPurchase \in PurchaseRow /\ NoPayment \in PaymentRow
      /\ NoPurchase.state = "NONE" /\ NoPayment.state = "NONE"
  BY DEF NoPurchase, PurchaseRow, PurchaseStates, NoPayment, PaymentRow, PaymentStates
<1>2. ASSUME NEW r \in Rounds
      PROVE  /\ round[r] \in RoundRow /\ custody[r] \in CustodyRow /\ vesting[r] \in VestingRow
             /\ round[r].purchases = none /\ round[r].state = "DRAFT"
             /\ round[r].totalRaised = 0 /\ round[r].totalSold = 0
             /\ round[r].pendingAllocation = 0 /\ round[r].pendingPurchaseCount = 0
             /\ round[r].finalizedAllocation = 0 /\ round[r].unsoldReleased = 0
             /\ ~round[r].inventoryFunded /\ round[r].balance = 0
             /\ round[r].purchasedByBuyer = [b \in Buyers |-> 0]
             /\ custody[r].balance = 0 /\ custody[r].totalCollected = 0
             /\ custody[r].totalRefunded = 0 /\ custody[r].totalReleased = 0
             /\ custody[r].payments = [id \in PurchaseIds |-> NoPayment]
             /\ vesting[r].balance = 0 /\ vesting[r].totalAllocated = 0
             /\ vesting[r].totalReleased = 0
             /\ vesting[r].allocated = [b \in Buyers |-> 0]
             /\ vesting[r].released = [b \in Buyers |-> 0]
  <2>1. none \in [PurchaseIds -> PurchaseRow] /\ [id \in PurchaseIds |-> NoPayment] \in [PurchaseIds -> PaymentRow]
    BY <1>1
  <2> QED
    BY <2>1, CustodyAssumption DEF PresaleInit, CustodyInit, VestingInit, RoundRow, CustodyRow, VestingRow, SaleStates
<1>3. TypesOK
  BY <1>2, TimeAssumption, RoundAssumption, CustodyAssumption
  DEF TypesOK, PresaleInit, GlobalListingInit, CustodyInit, VestingInit
<1>4. /\ Total(none, counting) = 0 /\ Total(none, pendingUliq) = 0 /\ Total(none, pendingUsdc) = 0
      /\ Total(none, liveUsdc) = 0 /\ Total(none, liveUliq) = 0 /\ Total(none, finalUsdc) = 0
      /\ \A b \in Buyers : Total(none, liveUsdcOf(b)) = 0 /\ Total(none, finalUliqOf(b)) = 0
  <2>1. /\ counting[NoPurchase] = 0 /\ pendingUliq[NoPurchase] = 0 /\ pendingUsdc[NoPurchase] = 0
        /\ liveUsdc[NoPurchase] = 0 /\ liveUliq[NoPurchase] = 0 /\ finalUsdc[NoPurchase] = 0
        /\ \A b \in Buyers : liveUsdcOf(b)[NoPurchase] = 0 /\ finalUliqOf(b)[NoPurchase] = 0
    BY <1>1 DEF counting, pendingUliq, pendingUsdc, liveUsdc, liveUliq, finalUsdc,
       liveUsdcOf, finalUliqOf, pending, live, final
  <2> QED
    BY <2>1, WeightTypes, NoPurchaseWeighsNothing
<1> HIDE DEF none
<1>5. ASSUME NEW r \in Rounds PROVE RoundOK(r, round[r], custody[r], vesting[r])
  <2>1. BooksOK(round[r], custody[r], vesting[r])
    BY <1>2, <1>4 DEF BooksOK
  <2>2. PaymentsOK(round[r], custody[r])
    BY <1>1, <1>2 DEF PaymentsOK, none
  <2>3. LimitsOK(r, round[r]) /\ InventoryOK(r, round[r])
    BY <1>2, RoundAssumption, HardCapIsNat DEF LimitsOK, InventoryOK
  <2>4. PoolOK(vesting[r])
    BY <1>2 DEF PoolOK
  <2> QED
    BY <2>1, <2>2, <2>3, <2>4 DEF RoundOK
<1>6. MoneyOK
  <2>1. SumFunctionOnSet(treasuryUsdc, Treasuries) = 0
    BY SumOfZeros, CustodyAssumption DEF PresaleInit, CustodyInit
  <2> QED
    BY <1>2, <2>1, RoundAssumption, CustodyAssumption DEF MoneyOK, PresaleInit, CustodyInit, VestingInit
<1>7. SaleOrderOK /\ ListingOK
  BY <1>2, RoundAssumption DEF SaleOrderOK, ListingOK, PresaleInit, GlobalListingInit, Selling
<1>8. ClaimsOK
  BY <1>2 DEF ClaimsOK, vested, PresaleInit, GlobalListingInit
<1> QED
  BY <1>3, <1>5, <1>6, <1>7, <1>8 DEF PresaleInv

-----------------------------------------------------------------------------
(* Steps that leave the books alone. *)

SameBooks(d, e) ==
    /\ e.purchases = d.purchases /\ e.purchasedByBuyer = d.purchasedByBuyer
    /\ e.totalRaised = d.totalRaised /\ e.totalSold = d.totalSold
    /\ e.pendingAllocation = d.pendingAllocation
    /\ e.pendingPurchaseCount = d.pendingPurchaseCount
    /\ e.finalizedAllocation = d.finalizedAllocation

\* A round changes its state, its window or its inventory.
LEMMA RoundStep ==
    ASSUME PresaleInv, NEW r \in Rounds, NEW e \in RoundRow,
           round' = [round EXCEPT ![r] = e], sourceUliq' \in Nat,
           UNCHANGED <<now, listingVars, custodyVars, vestingVars>>,
           SameBooks(round[r], e), InventoryOK(r, e),
           round[r].state \in Ended => e.state \in Ended,
           round[r].state \in Listed => e.state \in Listed,
           e.state \in Selling /\ r = 2 => round[r].state \in Selling \/ round[1].state \in Ended
    PROVE  PresaleInv'
<1>1. /\ UNCHANGED <<now, listingTimestamp, custody, walletUsdc, treasuryUsdc, vesting, walletUliq>>
      /\ round \in [Rounds -> RoundRow] /\ round' \in [Rounds -> RoundRow] /\ round'[r] = e
      /\ \A q \in Rounds : q # r => round'[q] = round[q]
  BY DEF listingVars, custodyVars, vestingVars, PresaleInv, TypesOK
<1>2. TypesOK'
  BY <1>1 DEF PresaleInv, TypesOK
<1>3. ASSUME NEW q \in Rounds PROVE RoundOK(q, round[q], custody[q], vesting[q])'
  <2>1. RoundOK(q, round[q], custody[q], vesting[q])
    BY DEF PresaleInv
  <2>2. CASE q = r
    <3>1. BooksOK(e, custody[r], vesting[r])
      BY <2>1, <2>2 DEF RoundOK, BooksOK, SameBooks
    <3>2. PaymentsOK(e, custody[r]) /\ LimitsOK(r, e)
      BY <2>1, <2>2 DEF RoundOK, PaymentsOK, LimitsOK, SameBooks
    <3> QED
      BY <1>1, <2>1, <2>2, <3>1, <3>2 DEF RoundOK
  <2>3. CASE q # r
    BY <1>1, <2>1, <2>3
  <2> QED
    BY <2>2, <2>3
<1>4. MoneyOK'
  BY <1>1, RoundAssumption DEF PresaleInv, MoneyOK, SameBooks
<1>5. SaleOrderOK'
  BY <1>1, RoundAssumption DEF PresaleInv, SaleOrderOK
<1>6. ListingOK'
  BY <1>1 DEF PresaleInv, ListingOK, SameBooks
<1>7. ClaimsOK'
  BY <1>1 DEF PresaleInv, ClaimsOK, vested
<1> QED
  BY <1>2, <1>3, <1>4, <1>5, <1>6, <1>7 DEF PresaleInv

\* A round changes its state only.
LEMMA StateStep ==
    ASSUME PresaleInv, NEW r \in Rounds, NEW from, NEW to \in SaleStates, setState(r, from, to),
           from \cap Ended # {} => to \in Ended /\ from \subseteq Ended,
           from \cap Listed # {} => to \in Listed,
           to \in Selling /\ r = 2 => from \subseteq Selling \/ round[1].state \in Ended
    PROVE  PresaleInv'
<1> DEFINE d == round[r]
           e == [d EXCEPT !.state = to]
<1>1. d \in RoundRow /\ InventoryOK(r, d) /\ d.state \in from
  BY DEF PresaleInv, TypesOK, RoundOK, setState
<1>2. /\ e \in RoundRow /\ e.state = to /\ SameBooks(d, e)
      /\ e.balance = d.balance /\ e.unsoldReleased = d.unsoldReleased
      /\ e.inventoryFunded = d.inventoryFunded
  BY <1>1 DEF RoundRow, SameBooks
<1>3. /\ round' = [round EXCEPT ![r] = e]
      /\ UNCHANGED <<now, listingVars, custodyVars, vestingVars>>
      /\ sourceUliq' \in Nat
  BY DEF setState, PresaleInv, TypesOK
<1> HIDE DEF e
<1>4. InventoryOK(r, e)
  BY <1>1, <1>2 DEF InventoryOK, SameBooks
<1> QED
  BY <1>1, <1>2, <1>3, <1>4, RoundStep

LEMMA LifeCycleStep ==
    ASSUME PresaleInv, NEW r \in Rounds,
           \/ markReady(r) \/ activateSale(r) \/ pauseSale(r) \/ unpauseSale(r) \/ endSale(r)
           \/ markListingPending(r) \/ acknowledgeListingLaunch(r) \/ completeSale(r)
    PROVE  PresaleInv'
<1>1. CASE markReady(r)
  BY <1>1, StateStep DEF markReady, SaleStates, Ended, Listed, Selling
<1>2. CASE activateSale(r)
  <2>1. setState(r, {"READY"}, "ACTIVE") /\ (r = 2 => round[1].state \in Ended)
    BY <1>2 DEF activateSale, isRoundEnded, Ended
  <2> QED
    BY <2>1, StateStep DEF SaleStates, Ended, Listed
<1>3. CASE pauseSale(r)
  BY <1>3, StateStep DEF pauseSale, SaleStates, Ended, Listed, Selling
<1>4. CASE unpauseSale(r)
  BY <1>4, StateStep DEF unpauseSale, SaleStates, Ended, Listed, Selling
<1>5. CASE endSale(r)
  BY <1>5, StateStep DEF endSale, SaleStates, Ended, Listed, Selling
<1>6. CASE markListingPending(r)
  BY <1>6, StateStep DEF markListingPending, SaleStates, Ended, Listed, Selling
<1>7. CASE acknowledgeListingLaunch(r)
  BY <1>7, StateStep DEF acknowledgeListingLaunch, SaleStates, Ended, Listed, Selling
<1>8. CASE completeSale(r)
  BY <1>8, StateStep DEF completeSale, SaleStates, Ended, Listed, Selling
<1> QED
  BY <1>1, <1>2, <1>3, <1>4, <1>5, <1>6, <1>7, <1>8

LEMMA WindowStep ==
    ASSUME PresaleInv, NEW r \in Rounds, NEW w \in Windows, configureSaleWindow(r, w[1], w[2])
    PROVE  PresaleInv'
<1> DEFINE d == round[r]
           e == [d EXCEPT !.saleStart = w[1], !.saleEnd = w[2]]
<1>1. d \in RoundRow /\ InventoryOK(r, d) /\ w[1] \in Nat /\ w[2] \in Nat
  BY RoundAssumption DEF PresaleInv, TypesOK, RoundOK
<1>2. /\ e \in RoundRow /\ e.state = d.state /\ SameBooks(d, e)
      /\ e.balance = d.balance /\ e.unsoldReleased = d.unsoldReleased
      /\ e.inventoryFunded = d.inventoryFunded
  BY <1>1 DEF RoundRow, SameBooks
<1>3. /\ round' = [round EXCEPT ![r] = e]
      /\ UNCHANGED <<now, listingVars, custodyVars, vestingVars>>
      /\ sourceUliq' \in Nat
  BY DEF configureSaleWindow, PresaleInv, TypesOK
<1> HIDE DEF e
<1>4. InventoryOK(r, e)
  BY <1>1, <1>2 DEF InventoryOK, SameBooks
<1> QED
  BY <1>1, <1>2, <1>3, <1>4, RoundStep

LEMMA InventoryStep ==
    ASSUME PresaleInv, NEW r \in Rounds,
           fundInventory(r) \/ donateInventory(r) \/ releaseUnsold(r)
    PROVE  PresaleInv'
<1> DEFINE d == round[r]
           amount == AllocationCap[r] - d.totalSold
<1>1. /\ d \in RoundRow /\ InventoryOK(r, d) /\ d.totalSold <= AllocationCap[r]
      /\ AllocationCap[r] \in Nat /\ sourceUliq \in Nat /\ round \in [Rounds -> RoundRow]
  BY RoundAssumption DEF PresaleInv, TypesOK, RoundOK, LimitsOK
<1>2. PICK e \in RoundRow :
        /\ round' = [round EXCEPT ![r] = e] /\ sourceUliq' \in Nat
        /\ e.state = d.state /\ SameBooks(d, e)
        /\ \/ /\ e.inventoryFunded /\ e.balance = d.balance + AllocationCap[r]
              /\ e.unsoldReleased = d.unsoldReleased
           \/ /\ e.inventoryFunded = d.inventoryFunded /\ e.balance = d.balance + 1
              /\ e.unsoldReleased = d.unsoldReleased
           \/ /\ e.inventoryFunded = d.inventoryFunded
              /\ e.balance = d.balance - amount /\ d.balance >= amount
              /\ d.unsoldReleased = 0 /\ e.unsoldReleased = amount
              /\ d.state \in Ended /\ d.pendingPurchaseCount = 0
  <2>1. CASE fundInventory(r)
    <3> DEFINE x == d.balance + AllocationCap[r]
               e == [d EXCEPT !.inventoryFunded = TRUE, !.balance = x]
    <3>1. x \in Int
      BY <1>1 DEF RoundRow
    <3>2. round' = [round EXCEPT ![r] = e]
      BY <1>1, <2>1 DEF fundInventory
    <3>3. sourceUliq' \in Nat
      BY <1>1, <2>1 DEF fundInventory
    <3> HIDE DEF x
    <3>4. /\ e \in RoundRow /\ e.inventoryFunded /\ e.balance = x
          /\ e.unsoldReleased = d.unsoldReleased /\ e.state = d.state /\ SameBooks(d, e)
      BY <1>1, <3>1 DEF RoundRow, SameBooks
    <3> HIDE DEF e
    <3> QED
      BY <3>2, <3>3, <3>4 DEF x
  <2>2. CASE donateInventory(r)
    <3> DEFINE e == [d EXCEPT !.balance = @ + 1]
    <3>1. /\ e \in RoundRow /\ e.inventoryFunded = d.inventoryFunded /\ e.balance = d.balance + 1
          /\ e.unsoldReleased = d.unsoldReleased /\ e.state = d.state /\ SameBooks(d, e)
      BY <1>1 DEF RoundRow, SameBooks
    <3>2. round' = [round EXCEPT ![r] = e] /\ sourceUliq' \in Nat
      BY <1>1, <2>2 DEF donateInventory
    <3> HIDE DEF e
    <3> QED
      BY <3>1, <3>2
  <2>3. CASE releaseUnsold(r)
    <3> DEFINE x == d.balance - amount
               e == [d EXCEPT !.unsoldReleased = amount, !.balance = x]
    <3>1. x \in Int /\ amount \in Nat /\ amount \in Int
      BY <1>1 DEF RoundRow
    <3>2. /\ d.unsoldReleased = 0 /\ d.balance >= amount
          /\ d.state \in Ended /\ d.pendingPurchaseCount = 0
      BY <2>3 DEF releaseUnsold, isRoundEnded, Ended
    <3>3. round' = [round EXCEPT ![r] = e]
      BY <1>1, <2>3 DEF releaseUnsold
    <3>4. sourceUliq' \in Nat
      BY <1>1, <2>3, <3>1 DEF releaseUnsold
    <3> HIDE DEF x, amount
    <3>5. /\ e \in RoundRow /\ e.inventoryFunded = d.inventoryFunded /\ e.balance = x
          /\ e.unsoldReleased = amount /\ e.state = d.state /\ SameBooks(d, e)
      BY <1>1, <3>1 DEF RoundRow, SameBooks
    <3> HIDE DEF e
    <3> QED
      BY <3>2, <3>3, <3>4, <3>5 DEF x
  <2> QED
    BY <2>1, <2>2, <2>3
<1>3. InventoryOK(r, e)
  <2>1. /\ d.totalSold \in Int /\ d.pendingAllocation \in Int /\ d.balance \in Nat
        /\ d.unsoldReleased \in Int /\ d.unsoldReleased \in {0, amount}
    BY <1>1 DEF RoundRow, InventoryOK
  <2>2. amount \in Nat /\ d.pendingAllocation <= d.totalSold
        /\ (d.inventoryFunded => d.balance >= d.pendingAllocation + amount - d.unsoldReleased)
    BY <1>1, <2>1 DEF InventoryOK
  <2>3. AllocationCap[r] >= d.pendingAllocation + amount - d.unsoldReleased
    BY <1>1, <2>1, <2>2
  <2> HIDE DEF amount
  <2>4. e.inventoryFunded => e.balance >= d.pendingAllocation + amount - e.unsoldReleased
    <3>1. CASE e.unsoldReleased = d.unsoldReleased /\ e.balance = d.balance + AllocationCap[r]
      BY <1>1, <2>1, <2>2, <2>3, <3>1
    <3>2. CASE /\ e.unsoldReleased = d.unsoldReleased /\ e.balance = d.balance + 1
               /\ e.inventoryFunded = d.inventoryFunded
      BY <2>1, <2>2, <3>2
    <3>3. CASE /\ e.unsoldReleased = amount /\ d.unsoldReleased = 0
               /\ e.balance = d.balance - amount /\ e.inventoryFunded = d.inventoryFunded
      BY <2>1, <2>2, <3>3
    <3> QED
      BY <1>2, <3>1, <3>2, <3>3
  <2> QED
    BY <1>1, <1>2, <2>1, <2>2, <2>4 DEF InventoryOK, SameBooks, amount
<1>4. UNCHANGED <<now, listingVars, custodyVars, vestingVars>>
  BY DEF fundInventory, donateInventory, releaseUnsold
<1> QED
  BY <1>2, <1>3, <1>4, RoundStep

-----------------------------------------------------------------------------
(* Custody's own administration. *)

SameAccounts(c, e) ==
    /\ e.balance = c.balance /\ e.totalCollected = c.totalCollected
    /\ e.totalRefunded = c.totalRefunded /\ e.totalReleased = c.totalReleased
    /\ e.payments = c.payments

LEMMA CustodyStep ==
    ASSUME PresaleInv, NEW r \in Rounds, NEW e \in CustodyRow,
           custody' = [custody EXCEPT ![r] = e],
           UNCHANGED <<now, listingVars, walletUsdc, treasuryUsdc, vestingVars, round, sourceUliq>>,
           SameAccounts(custody[r], e)
    PROVE  PresaleInv'
<1>1. /\ UNCHANGED <<now, listingTimestamp, round, vesting, walletUliq>>
      /\ custody \in [Rounds -> CustodyRow] /\ custody' \in [Rounds -> CustodyRow] /\ custody'[r] = e
      /\ \A q \in Rounds : q # r => custody'[q] = custody[q]
  BY DEF listingVars, vestingVars, PresaleInv, TypesOK
<1>2. TypesOK'
  BY <1>1 DEF PresaleInv, TypesOK
<1>3. ASSUME NEW q \in Rounds PROVE RoundOK(q, round[q], custody[q], vesting[q])'
  <2>1. RoundOK(q, round[q], custody[q], vesting[q])
    BY DEF PresaleInv
  <2>2. CASE q = r
    <3>1. BooksOK(round[r], e, vesting[r]) /\ PaymentsOK(round[r], e)
      BY <2>1, <2>2 DEF RoundOK, BooksOK, PaymentsOK, SameAccounts
    <3> QED
      BY <1>1, <2>1, <2>2, <3>1 DEF RoundOK
  <2>3. CASE q # r
    BY <1>1, <2>1, <2>3
  <2> QED
    BY <2>2, <2>3
<1>4. MoneyOK'
  BY <1>1, RoundAssumption DEF PresaleInv, MoneyOK, SameAccounts
<1>5. SaleOrderOK' /\ ListingOK' /\ ClaimsOK'
  BY <1>1 DEF PresaleInv, SaleOrderOK, ListingOK, ClaimsOK, vested
<1> QED
  BY <1>2, <1>3, <1>4, <1>5 DEF PresaleInv

LEMMA TreasuryStep ==
    ASSUME PresaleInv, NEW r \in Rounds,
           \/ setCustodyPresale(r) \/ cancelTreasuryTransfer(r)
           \/ \E t \in Treasuries : proposeTreasury(r, t) \/ acceptTreasury(r, t),
           UNCHANGED <<now, listingVars, vestingVars>>, roundUnchanged
    PROVE  PresaleInv'
<1> DEFINE c == custody[r]
<1>1. c \in CustodyRow
  BY DEF PresaleInv, TypesOK
<1>2. /\ UNCHANGED <<walletUsdc, treasuryUsdc>>
      /\ \/ custody' = [custody EXCEPT ![r] = [c EXCEPT !.presale = TRUE]]
         \/ custody' = [custody EXCEPT ![r] = [c EXCEPT !.pendingTreasury = NoTreasury]]
         \/ \E t \in Treasuries :
              \/ custody' = [custody EXCEPT ![r] = [c EXCEPT !.pendingTreasury = t]]
              \/ custody' = [custody EXCEPT ![r] = [c EXCEPT !.treasury = t,
                                                             !.pendingTreasury = NoTreasury]]
  BY DEF setCustodyPresale, cancelTreasuryTransfer, proposeTreasury, acceptTreasury,
     PresaleInv, TypesOK
<1>3. PICK e \in CustodyRow : custody' = [custody EXCEPT ![r] = e] /\ SameAccounts(c, e)
  <2>1. CASE custody' = [custody EXCEPT ![r] = [c EXCEPT !.presale = TRUE]]
    <3>1. /\ [c EXCEPT !.presale = TRUE] \in CustodyRow
          /\ SameAccounts(c, [c EXCEPT !.presale = TRUE])
      BY <1>1 DEF CustodyRow, SameAccounts
    <3> QED
      BY <2>1, <3>1
  <2>2. ASSUME NEW t \in Treasuries \cup {NoTreasury},
               custody' = [custody EXCEPT ![r] = [c EXCEPT !.pendingTreasury = t]]
        PROVE  \E e \in CustodyRow : custody' = [custody EXCEPT ![r] = e] /\ SameAccounts(c, e)
    <3>1. /\ [c EXCEPT !.pendingTreasury = t] \in CustodyRow
          /\ SameAccounts(c, [c EXCEPT !.pendingTreasury = t])
      BY <1>1 DEF CustodyRow, SameAccounts
    <3> QED
      BY <2>2, <3>1
  <2>3. ASSUME NEW t \in Treasuries,
               custody' = [custody EXCEPT ![r] = [c EXCEPT !.treasury = t, !.pendingTreasury = NoTreasury]]
        PROVE  \E e \in CustodyRow : custody' = [custody EXCEPT ![r] = e] /\ SameAccounts(c, e)
    <3>1. /\ [c EXCEPT !.treasury = t, !.pendingTreasury = NoTreasury] \in CustodyRow
          /\ SameAccounts(c, [c EXCEPT !.treasury = t, !.pendingTreasury = NoTreasury])
      BY <1>1 DEF CustodyRow, SameAccounts
    <3> QED
      BY <2>3, <3>1
  <2> QED
    BY <1>2, <2>1, <2>2, <2>3
<1> QED
  BY <1>2, <1>3, CustodyStep DEF roundUnchanged

-----------------------------------------------------------------------------
(* Purchases. *)

\* Purchase p of the round becomes q, and each counter moves by the difference
\* of the weights.
Booked(d, c, v, id, p, q, e, c2, v2) ==
    /\ p = d.purchases[id] /\ e.purchases = [d.purchases EXCEPT ![id] = q]
    /\ e.pendingPurchaseCount = d.pendingPurchaseCount - counting[p] + counting[q]
    /\ e.pendingAllocation = d.pendingAllocation - pendingUliq[p] + pendingUliq[q]
    /\ e.totalRaised = d.totalRaised - liveUsdc[p] + liveUsdc[q]
    /\ e.totalSold = d.totalSold - liveUliq[p] + liveUliq[q]
    /\ \A b \in Buyers : e.purchasedByBuyer[b] =
                            d.purchasedByBuyer[b] - liveUsdcOf(b)[p] + liveUsdcOf(b)[q]
    /\ c2.balance = c.balance - pendingUsdc[p] + pendingUsdc[q]
    /\ c2.totalReleased = c.totalReleased - finalUsdc[p] + finalUsdc[q]
    /\ \A b \in Buyers : v2.allocated[b] =
                            v.allocated[b] - finalUliqOf(b)[p] + finalUliqOf(b)[q]
    /\ e.finalizedAllocation = v2.totalAllocated

\* Then the books still match, and no counter is negative.
LEMMA BooksMove ==
    ASSUME NEW d \in RoundRow, NEW c, NEW v, BooksOK(d, c, v), NEW e, NEW c2, NEW v2,
           NEW id \in PurchaseIds, NEW p, NEW q \in PurchaseRow,
           Booked(d, c, v, id, p, q, e, c2, v2)
    PROVE  /\ BooksOK(e, c2, v2)
           /\ e.pendingPurchaseCount \in Nat /\ e.pendingAllocation \in Nat
           /\ e.totalRaised \in Nat /\ e.totalSold \in Nat
           /\ \A b \in Buyers : e.purchasedByBuyer[b] \in Nat
<1> DEFINE P == d.purchases
           Q == [P EXCEPT ![id] = q]
<1>1. P \in [PurchaseIds -> PurchaseRow] /\ Q \in [PurchaseIds -> PurchaseRow]
  BY DEF RoundRow
<1>2. ASSUME NEW w \in [PurchaseRow -> Nat]
      PROVE  Total(Q, w) = Total(P, w) - w[p] + w[q] /\ Total(Q, w) \in Nat
  BY <1>1, TotalChanges, TotalIsNat DEF Booked
<1> HIDE DEF P, Q
<1>3. /\ Total(Q, counting) = Total(P, counting) - counting[p] + counting[q]
      /\ Total(Q, counting) \in Nat
      /\ Total(Q, pendingUliq) = Total(P, pendingUliq) - pendingUliq[p] + pendingUliq[q]
      /\ Total(Q, pendingUliq) \in Nat
      /\ Total(Q, liveUsdc) = Total(P, liveUsdc) - liveUsdc[p] + liveUsdc[q]
      /\ Total(Q, liveUsdc) \in Nat
      /\ Total(Q, liveUliq) = Total(P, liveUliq) - liveUliq[p] + liveUliq[q]
      /\ Total(Q, liveUliq) \in Nat
  BY <1>2, WeightTypes
<1>4. \A b \in Buyers :
        /\ Total(Q, liveUsdcOf(b)) = Total(P, liveUsdcOf(b)) - liveUsdcOf(b)[p] + liveUsdcOf(b)[q]
        /\ Total(Q, liveUsdcOf(b)) \in Nat
        /\ Total(Q, finalUliqOf(b)) = Total(P, finalUliqOf(b)) - finalUliqOf(b)[p] + finalUliqOf(b)[q]
  BY <1>2, WeightTypes
<1>5. /\ Total(Q, pendingUsdc) = Total(P, pendingUsdc) - pendingUsdc[p] + pendingUsdc[q]
      /\ Total(Q, finalUsdc) = Total(P, finalUsdc) - finalUsdc[p] + finalUsdc[q]
  BY <1>2, WeightTypes
<1>6. e.purchases = Q /\ d.purchases = P
  BY DEF P, Q, Booked
<1>7. /\ e.pendingPurchaseCount = Total(Q, counting) /\ e.pendingAllocation = Total(Q, pendingUliq)
      /\ e.totalRaised = Total(Q, liveUsdc) /\ e.totalSold = Total(Q, liveUliq)
  BY <1>3, <1>6 DEF BooksOK, Booked
<1>8. \A b \in Buyers : /\ e.purchasedByBuyer[b] = Total(Q, liveUsdcOf(b))
                        /\ v2.allocated[b] = Total(Q, finalUliqOf(b))
  BY <1>4, <1>6 DEF BooksOK, Booked
<1>9. c2.balance = Total(Q, pendingUsdc) /\ c2.totalReleased = Total(Q, finalUsdc)
  BY <1>5, <1>6 DEF BooksOK, Booked
<1> QED
  BY <1>3, <1>4, <1>6, <1>7, <1>8, <1>9 DEF BooksOK, Booked

\* The transaction of a purchase, with what it did to the round, its custody
\* and its pool.
LEMMA PurchaseStep ==
    ASSUME PresaleInv, NEW r \in Rounds,
           NEW e \in RoundRow, NEW c2 \in CustodyRow, NEW v2 \in VestingRow,
           round' = [round EXCEPT ![r] = e], custody' = [custody EXCEPT ![r] = c2],
           vesting' = [vesting EXCEPT ![r] = v2], UNCHANGED <<now, listingVars, walletUliq, sourceUliq>>,
           listingTimestamp = 0, e.state = round[r].state, v2.released = vesting[r].released,
           RoundOK(r, e, c2, v2),
           walletUsdc' \in [Buyers -> Nat], treasuryUsdc' \in [Treasuries -> Nat],
           \A b \in Buyers : walletUsdc'[b] + e.purchasedByBuyer[b]
                               = walletUsdc[b] + round[r].purchasedByBuyer[b],
           SumFunctionOnSet(treasuryUsdc', Treasuries) - c2.totalReleased
             = SumFunctionOnSet(treasuryUsdc, Treasuries) - custody[r].totalReleased
    PROVE  PresaleInv'
<1>1. /\ UNCHANGED <<now, listingTimestamp>>
      /\ round \in [Rounds -> RoundRow] /\ round' \in [Rounds -> RoundRow] /\ round'[r] = e
      /\ custody \in [Rounds -> CustodyRow] /\ custody' \in [Rounds -> CustodyRow] /\ custody'[r] = c2
      /\ vesting \in [Rounds -> VestingRow] /\ vesting' \in [Rounds -> VestingRow] /\ vesting'[r] = v2
      /\ \A q \in Rounds : q # r => /\ round'[q] = round[q] /\ custody'[q] = custody[q]
                                    /\ vesting'[q] = vesting[q]
  BY DEF listingVars, PresaleInv, TypesOK
<1>2. TypesOK'
  BY <1>1 DEF PresaleInv, TypesOK
<1>3. ASSUME NEW q \in Rounds PROVE RoundOK(q, round[q], custody[q], vesting[q])'
  <2>1. RoundOK(q, round[q], custody[q], vesting[q])
    BY DEF PresaleInv
  <2> QED
    BY <1>1, <2>1
<1>4. MoneyOK'
  <2>1. ASSUME NEW b \in Buyers
        PROVE  walletUsdc'[b] + round'[1].purchasedByBuyer[b] + round'[2].purchasedByBuyer[b] = Budget
    <3>1. /\ walletUsdc[b] + round[1].purchasedByBuyer[b] + round[2].purchasedByBuyer[b] = Budget
          /\ walletUsdc'[b] \in Int /\ walletUsdc[b] \in Int /\ e.purchasedByBuyer[b] \in Int
          /\ round[1].purchasedByBuyer[b] \in Int /\ round[2].purchasedByBuyer[b] \in Int
      BY <1>1, RoundAssumption DEF PresaleInv, MoneyOK, TypesOK, RoundRow
    <3> QED
      BY <1>1, <3>1, RoundAssumption
  <2>2. SumFunctionOnSet(treasuryUsdc', Treasuries) = custody'[1].totalReleased + custody'[2].totalReleased
    <3>1. /\ SumFunctionOnSet(treasuryUsdc, Treasuries)
                = custody[1].totalReleased + custody[2].totalReleased
          /\ custody[1].totalReleased \in Int /\ custody[2].totalReleased \in Int
          /\ c2.totalReleased \in Int
      BY <1>1, RoundAssumption DEF PresaleInv, MoneyOK, CustodyRow
    <3>2. SumFunctionOnSet(treasuryUsdc', Treasuries) \in Int
      BY SumIsNat, CustodyAssumption
    <3> QED
      BY <1>1, <3>1, <3>2, RoundAssumption
  <2>3. \A b \in Buyers : walletUliq'[b] = vesting'[1].released[b] + vesting'[2].released[b]
    BY <1>1, RoundAssumption DEF PresaleInv, MoneyOK
  <2> QED
    BY <2>1, <2>2, <2>3 DEF MoneyOK
<1>5. SaleOrderOK' /\ ListingOK'
  BY <1>1, RoundAssumption DEF PresaleInv, SaleOrderOK, ListingOK
<1>6. ClaimsOK'
  BY <1>1 DEF PresaleInv, ClaimsOK, vested
<1> QED
  BY <1>2, <1>3, <1>4, <1>5, <1>6 DEF PresaleInv

LEMMA BuyStep ==
    ASSUME PresaleInv, NEW r \in Rounds, NEW b \in Buyers, NEW request \in Requests, NEW minUliq,
           buy(r, b, request, minUliq)
    PROVE  PresaleInv'
<1>1. PICK d, c, v, id, usdc, uliq :
        /\ d = round[r] /\ c = custody[r] /\ v = vesting[r] /\ id = d.nextPurchaseId
        /\ usdc = quotePurchase(r, b, request).usdc /\ uliq = quotePurchase(r, b, request).uliq
  OBVIOUS
<1>2. /\ d \in RoundRow /\ c \in CustodyRow /\ v \in VestingRow /\ RoundOK(r, d, c, v)
      /\ round \in [Rounds -> RoundRow] /\ custody \in [Rounds -> CustodyRow]
      /\ vesting \in [Rounds -> VestingRow] /\ now \in Nat
      /\ walletUsdc \in [Buyers -> Nat] /\ treasuryUsdc \in [Treasuries -> Nat]
  BY <1>1 DEF PresaleInv, TypesOK
<1>3. /\ id \in PurchaseIds /\ d.state = "ACTIVE" /\ quotePurchase(r, b, request) # Nothing
      /\ d.balance >= d.pendingAllocation + uliq
      /\ UNCHANGED <<now, listingVars, vestingVars, sourceUliq>>
      /\ c.payments[id].state = "NONE" /\ usdc <= walletUsdc[b]
  BY <1>1 DEF buy, collectFrom
<1>4. /\ usdc \in Nat /\ uliq \in Nat \ {0}
      /\ d.totalRaised \in Nat /\ d.totalRaised + usdc <= hardCap(r)
      /\ d.totalSold \in Nat /\ d.totalSold + uliq <= AllocationCap[r]
      /\ d.purchasedByBuyer[b] + usdc <= MaxPurchase
  <2>1. d.totalRaised \in Nat /\ d.totalSold \in Nat /\ d.purchasedByBuyer[b] \in Nat
    BY <1>2, WeightTypes, TotalIsNat DEF RoundOK, BooksOK, RoundRow
  <2>2. request \in Nat /\ d.totalRaised <= hardCap(r) /\ d.totalSold <= AllocationCap[r]
    BY <1>2, RoundAssumption DEF RoundOK, LimitsOK
  <2> QED
    BY <1>1, <1>3, <2>1, <2>2, QuoteFits
<1>5. PICK q \in PurchaseRow :
        /\ q.buyer = b /\ q.usdc = usdc /\ q.uliq = uliq /\ q.state = "PENDING_WITHDRAWAL"
        /\ q = [buyer |-> b, usdc |-> usdc, uliq |-> uliq,
                withdrawalDeadline |-> now + WithdrawalPeriod, state |-> "PENDING_WITHDRAWAL"]
  <2>1. PICK deadline \in Nat : deadline = now + WithdrawalPeriod
    BY <1>2, RoundAssumption
  <2> DEFINE q == [buyer |-> b, usdc |-> usdc, uliq |-> uliq,
                   withdrawalDeadline |-> deadline, state |-> "PENDING_WITHDRAWAL"]
  <2>2. /\ q \in PurchaseRow
        /\ q.buyer = b /\ q.usdc = usdc /\ q.uliq = uliq /\ q.state = "PENDING_WITHDRAWAL"
    BY <1>4, <2>1 DEF PurchaseRow, PurchaseStates
  <2>3. q = [buyer |-> b, usdc |-> usdc, uliq |-> uliq,
             withdrawalDeadline |-> now + WithdrawalPeriod, state |-> "PENDING_WITHDRAWAL"]
    BY <2>1
  <2> HIDE DEF q
  <2> QED
    BY <2>2, <2>3
<1>6. PICK e \in RoundRow :
        /\ round' = [round EXCEPT ![r] = e]
        /\ e.purchases = [d.purchases EXCEPT ![id] = q]
        /\ e.totalRaised = d.totalRaised + usdc /\ e.totalSold = d.totalSold + uliq
        /\ e.pendingAllocation = d.pendingAllocation + uliq
        /\ e.pendingPurchaseCount = d.pendingPurchaseCount + 1
        /\ e.purchasedByBuyer = [d.purchasedByBuyer EXCEPT ![b] = @ + usdc]
        /\ e.state = d.state /\ e.balance = d.balance /\ e.unsoldReleased = d.unsoldReleased
        /\ e.finalizedAllocation = d.finalizedAllocation
        /\ e.inventoryFunded = d.inventoryFunded
  <2> DEFINE next == d.nextPurchaseId + 1
             P == [d.purchases EXCEPT ![id] = q]
             raised == d.totalRaised + usdc
             sold == d.totalSold + uliq
             reserved == d.pendingAllocation + uliq
             count == d.pendingPurchaseCount + 1
             bought == [d.purchasedByBuyer EXCEPT ![b] = @ + usdc]
             e == [d EXCEPT !.nextPurchaseId = next, !.purchases = P,
                            !.totalRaised = raised, !.totalSold = sold,
                            !.pendingAllocation = reserved, !.pendingPurchaseCount = count,
                            !.purchasedByBuyer = bought]
  <2>1. round' = [round EXCEPT ![r] = e]
    <3>1. round' = [round EXCEPT ![r] =
                     [d EXCEPT !.nextPurchaseId = @ + 1, !.purchases = [d.purchases EXCEPT ![id] = q],
                               !.totalRaised = @ + usdc, !.totalSold = @ + uliq,
                               !.pendingAllocation = @ + uliq, !.pendingPurchaseCount = @ + 1,
                               !.purchasedByBuyer = [d.purchasedByBuyer EXCEPT ![b] = @ + usdc]]]
      <4>1. PICK quote : quote = quotePurchase(r, b, request)
        OBVIOUS
      <4>2. recordPurchase(r, id, b, quote) /\ quote.usdc = usdc /\ quote.uliq = uliq
        BY <1>1, <4>1 DEF buy
      <4> QED
        BY <1>1, <1>2, <1>5, <4>2 DEF recordPurchase, RoundRow
    <3> QED
      BY <1>2, <3>1 DEF RoundRow
  <2>2. /\ next \in Nat /\ P \in [PurchaseIds -> PurchaseRow] /\ raised \in Int /\ sold \in Int
        /\ reserved \in Int /\ count \in Int /\ bought \in [Buyers -> Int]
    BY <1>2, <1>3, <1>4, <1>5 DEF RoundRow
  <2> HIDE DEF next, P, raised, sold, reserved, count, bought
  <2>3. e \in RoundRow
    BY <1>2, <2>2 DEF RoundRow
  <2>4. /\ e.purchases = P /\ e.totalRaised = raised /\ e.totalSold = sold
        /\ e.pendingAllocation = reserved /\ e.pendingPurchaseCount = count
        /\ e.purchasedByBuyer = bought
        /\ e.state = d.state /\ e.balance = d.balance /\ e.unsoldReleased = d.unsoldReleased
        /\ e.finalizedAllocation = d.finalizedAllocation
        /\ e.inventoryFunded = d.inventoryFunded
    BY <1>2 DEF RoundRow
  <2> HIDE DEF e
  <2> QED
    BY <2>1, <2>3, <2>4 DEF P, raised, sold, reserved, count, bought
<1>7. PICK c2 \in CustodyRow :
        /\ custody' = [custody EXCEPT ![r] = c2]
        /\ c2.balance = c.balance + usdc /\ c2.totalCollected = c.totalCollected + usdc
        /\ c2.totalRefunded = c.totalRefunded /\ c2.totalReleased = c.totalReleased
        /\ c2.payments[id].state = "COLLECTED"
        /\ \A x \in PurchaseIds \ {id} : c2.payments[x] = c.payments[x]
  <2>1. PICK y \in PaymentRow :
          y = [buyer |-> b, amount |-> usdc, state |-> "COLLECTED"] /\ y.state = "COLLECTED"
    <3> DEFINE y == [buyer |-> b, amount |-> usdc, state |-> "COLLECTED"]
    <3>1. y \in PaymentRow /\ y.state = "COLLECTED"
      BY <1>4 DEF PaymentRow, PaymentStates
    <3> QED
      BY <3>1
  <2> DEFINE payments == [c.payments EXCEPT ![id] = y]
             collected == c.totalCollected + usdc
             held == c.balance + usdc
             c2 == [c EXCEPT !.payments = payments, !.totalCollected = collected, !.balance = held]
  <2>2. custody' = [custody EXCEPT ![r] = c2]
    BY <1>1, <1>2, <2>1 DEF buy, collectFrom, CustodyRow
  <2>3. /\ payments \in [PurchaseIds -> PaymentRow] /\ collected \in Int /\ held \in Int
        /\ payments[id].state = "COLLECTED"
        /\ \A x \in PurchaseIds \ {id} : payments[x] = c.payments[x]
    BY <1>2, <1>3, <1>4, <2>1 DEF CustodyRow
  <2> HIDE DEF payments, collected, held
  <2>4. /\ c2 \in CustodyRow /\ c2.balance = held /\ c2.totalCollected = collected
        /\ c2.totalRefunded = c.totalRefunded /\ c2.totalReleased = c.totalReleased
        /\ c2.payments = payments
    BY <1>2, <2>3 DEF CustodyRow
  <2> HIDE DEF c2
  <2> QED
    BY <2>2, <2>3, <2>4 DEF collected, held
<1>8. PICK p \in PurchaseRow : p = d.purchases[id] /\ p.state = "NONE"
  BY <1>2, <1>3 DEF RoundOK, PaymentsOK, RoundRow
<1>9. /\ counting[p] = 0 /\ pendingUliq[p] = 0 /\ pendingUsdc[p] = 0 /\ liveUsdc[p] = 0
      /\ liveUliq[p] = 0 /\ finalUsdc[p] = 0
      /\ \A a \in Buyers : liveUsdcOf(a)[p] = 0 /\ finalUliqOf(a)[p] = 0
  BY <1>8 DEF counting, pendingUliq, pendingUsdc, liveUsdc, liveUliq, finalUsdc, liveUsdcOf,
     finalUliqOf, pending, live, final
<1>10. /\ counting[q] = 1 /\ pendingUliq[q] = uliq /\ pendingUsdc[q] = usdc /\ liveUsdc[q] = usdc
       /\ liveUliq[q] = uliq /\ finalUsdc[q] = 0
       /\ \A a \in Buyers : /\ liveUsdcOf(a)[q] = IF a = b THEN usdc ELSE 0
                            /\ finalUliqOf(a)[q] = 0
  BY <1>5 DEF counting, pendingUliq, pendingUsdc, liveUsdc, liveUliq, finalUsdc, liveUsdcOf,
     finalUliqOf, pending, live, final
<1>11. /\ BooksOK(e, c2, v) /\ e.pendingAllocation \in Nat
  <2>1. /\ e.pendingPurchaseCount = d.pendingPurchaseCount - counting[p] + counting[q]
        /\ e.pendingAllocation = d.pendingAllocation - pendingUliq[p] + pendingUliq[q]
        /\ e.totalRaised = d.totalRaised - liveUsdc[p] + liveUsdc[q]
        /\ e.totalSold = d.totalSold - liveUliq[p] + liveUliq[q]
        /\ c2.balance = c.balance - pendingUsdc[p] + pendingUsdc[q]
        /\ c2.totalReleased = c.totalReleased - finalUsdc[p] + finalUsdc[q]
    BY <1>2, <1>4, <1>6, <1>7, <1>9, <1>10 DEF RoundRow, CustodyRow
  <2>2. \A a \in Buyers :
          e.purchasedByBuyer[a] = d.purchasedByBuyer[a] - liveUsdcOf(a)[p] + liveUsdcOf(a)[q]
    BY <1>2, <1>4, <1>6, <1>9, <1>10 DEF RoundRow
  <2>4. \A a \in Buyers : v.allocated[a] = v.allocated[a] - finalUliqOf(a)[p] + finalUliqOf(a)[q]
    BY <1>2, <1>9, <1>10 DEF VestingRow
  <2>3. BooksOK(d, c, v) /\ e.finalizedAllocation = v.totalAllocated
    BY <1>2, <1>6 DEF RoundOK, BooksOK
  <2>5. /\ d \in RoundRow /\ id \in PurchaseIds /\ q \in PurchaseRow
        /\ p = d.purchases[id] /\ e.purchases = [d.purchases EXCEPT ![id] = q]
    BY <1>2, <1>3, <1>5, <1>6, <1>8
  <2>6. Booked(d, c, v, id, p, q, e, c2, v)
    BY <2>1, <2>2, <2>3, <2>4, <2>5 DEF Booked
  <2> QED
    BY <2>3, <2>5, <2>6, BooksMove
<1>12. PaymentsOK(e, c2)
  BY <1>2, <1>3, <1>4, <1>5, <1>6, <1>7 DEF RoundOK, PaymentsOK, RoundRow, CustodyRow
<1>13. LimitsOK(r, e)
  BY <1>2, <1>4, <1>6 DEF RoundOK, LimitsOK, RoundRow
<1>14. InventoryOK(r, e)
  <2>1. d.unsoldReleased = 0
    BY <1>2, <1>3 DEF RoundOK, InventoryOK, Ended
  <2>2. /\ d.totalSold \in Int /\ d.pendingAllocation \in Int /\ AllocationCap[r] \in Nat
        /\ uliq \in Int /\ InventoryOK(r, d)
    BY <1>2, <1>4, RoundAssumption DEF RoundOK, RoundRow
  <2> QED
    BY <1>6, <2>1, <2>2 DEF InventoryOK
<1>15. RoundOK(r, e, c2, v)
  BY <1>2, <1>11, <1>12, <1>13, <1>14 DEF RoundOK
<1>16. /\ walletUsdc' \in [Buyers -> Nat] /\ treasuryUsdc' = treasuryUsdc
       /\ \A a \in Buyers : walletUsdc'[a] + e.purchasedByBuyer[a]
                              = walletUsdc[a] + d.purchasedByBuyer[a]
  <2>1. walletUsdc' = [walletUsdc EXCEPT ![b] = walletUsdc[b] - usdc] /\ treasuryUsdc' = treasuryUsdc
    BY <1>1 DEF buy, collectFrom
  <2> QED
    BY <1>2, <1>3, <1>4, <1>6, <2>1 DEF RoundRow
<1>17. listingTimestamp = 0
  BY <1>1, <1>3 DEF PresaleInv, ListingOK, Listed
<1>18. /\ vesting' = [vesting EXCEPT ![r] = v] /\ walletUliq' = walletUliq
       /\ UNCHANGED <<now, listingVars, sourceUliq>>
  BY <1>1, <1>2, <1>3 DEF vestingVars
<1>19. SumFunctionOnSet(treasuryUsdc', Treasuries) - c2.totalReleased
          = SumFunctionOnSet(treasuryUsdc, Treasuries) - c.totalReleased
  BY <1>7, <1>16
<1>20. /\ e.state = round[r].state /\ v.released = vesting[r].released
       /\ \A a \in Buyers : walletUsdc'[a] + e.purchasedByBuyer[a]
                              = walletUsdc[a] + round[r].purchasedByBuyer[a]
       /\ SumFunctionOnSet(treasuryUsdc', Treasuries) - c2.totalReleased
          = SumFunctionOnSet(treasuryUsdc, Treasuries) - custody[r].totalReleased
  BY <1>1, <1>6, <1>16, <1>19
<1>21. /\ round' = [round EXCEPT ![r] = e] /\ custody' = [custody EXCEPT ![r] = c2]
       /\ treasuryUsdc' \in [Treasuries -> Nat] /\ v \in VestingRow
  BY <1>2, <1>6, <1>7, <1>16
<1> QED
  BY <1>15, <1>16, <1>17, <1>18, <1>20, <1>21, PurchaseStep

LEMMA WithdrawStep ==
    ASSUME PresaleInv, NEW r \in Rounds, NEW b \in Buyers, NEW id \in PurchaseIds,
           withdrawPurchase(r, id, b)
    PROVE  PresaleInv'
<1>1. PICK d, c, v, p, usdc, uliq :
        /\ d = round[r] /\ c = custody[r] /\ v = vesting[r] /\ p = d.purchases[id]
        /\ usdc = p.usdc /\ uliq = p.uliq
  OBVIOUS
<1>2. /\ d \in RoundRow /\ c \in CustodyRow /\ v \in VestingRow /\ RoundOK(r, d, c, v)
      /\ round \in [Rounds -> RoundRow] /\ custody \in [Rounds -> CustodyRow]
      /\ vesting \in [Rounds -> VestingRow]
      /\ walletUsdc \in [Buyers -> Nat] /\ treasuryUsdc \in [Treasuries -> Nat]
  BY <1>1 DEF PresaleInv, TypesOK
<1>3. /\ p \in PurchaseRow /\ usdc \in Nat /\ uliq \in Nat
  BY <1>1, <1>2 DEF RoundRow, PurchaseRow
<1>4. /\ p.state = "PENDING_WITHDRAWAL" /\ p.buyer = b
      /\ UNCHANGED <<now, listingVars, vestingVars, sourceUliq>>
  BY <1>1 DEF withdrawPurchase, isPending
<1>5. PICK q \in PurchaseRow :
        /\ q.buyer = b /\ q.usdc = usdc /\ q.uliq = uliq /\ q.state = "WITHDRAWN"
        /\ q = [p EXCEPT !.state = "WITHDRAWN"]
  <2> DEFINE q == [p EXCEPT !.state = "WITHDRAWN"]
  <2>1. /\ q \in PurchaseRow
        /\ q.buyer = b /\ q.usdc = usdc /\ q.uliq = uliq /\ q.state = "WITHDRAWN"
    BY <1>1, <1>3, <1>4 DEF PurchaseRow, PurchaseStates
  <2> QED
    BY <2>1
<1>6. PICK e \in RoundRow :
        /\ round' = [round EXCEPT ![r] = e]
        /\ e.purchases = [d.purchases EXCEPT ![id] = q]
        /\ e.totalRaised = d.totalRaised - usdc /\ e.totalSold = d.totalSold - uliq
        /\ e.pendingAllocation = d.pendingAllocation - uliq
        /\ e.pendingPurchaseCount = d.pendingPurchaseCount - 1
        /\ e.purchasedByBuyer = [d.purchasedByBuyer EXCEPT ![b] = @ - usdc]
        /\ e.state = d.state /\ e.balance = d.balance /\ e.unsoldReleased = d.unsoldReleased
        /\ e.finalizedAllocation = d.finalizedAllocation
        /\ e.inventoryFunded = d.inventoryFunded
  <2> DEFINE P == [d.purchases EXCEPT ![id] = q]
             raised == d.totalRaised - usdc
             sold == d.totalSold - uliq
             reserved == d.pendingAllocation - uliq
             count == d.pendingPurchaseCount - 1
             bought == [d.purchasedByBuyer EXCEPT ![b] = @ - usdc]
             withdrawn == d.withdrawnAllocation + uliq
             e == [d EXCEPT !.purchases = P, !.pendingPurchaseCount = count,
                            !.pendingAllocation = reserved, !.totalRaised = raised,
                            !.totalSold = sold, !.purchasedByBuyer = bought,
                            !.withdrawnAllocation = withdrawn]
  <2>1. round' = [round EXCEPT ![r] = e]
    <3>1. round' = [round EXCEPT ![r] =
                     [d EXCEPT !.purchases = [d.purchases EXCEPT ![id] = q],
                               !.pendingPurchaseCount = @ - 1, !.pendingAllocation = @ - uliq,
                               !.totalRaised = @ - usdc, !.totalSold = @ - uliq,
                               !.purchasedByBuyer = [d.purchasedByBuyer EXCEPT ![b] = @ - usdc],
                               !.withdrawnAllocation = @ + uliq]]
      BY <1>1, <1>2, <1>4, <1>5, ZenonT(60) DEF withdrawPurchase, RoundRow
    <3> QED
      BY <1>2, <3>1 DEF RoundRow
  <2>2. /\ P \in [PurchaseIds -> PurchaseRow] /\ raised \in Int /\ sold \in Int
        /\ reserved \in Int /\ count \in Int /\ bought \in [Buyers -> Int] /\ withdrawn \in Int
    BY <1>2, <1>3, <1>5 DEF RoundRow
  <2> HIDE DEF P, raised, sold, reserved, count, bought, withdrawn
  <2>3. e \in RoundRow
    BY <1>2, <2>2 DEF RoundRow
  <2>4. /\ e.purchases = P /\ e.totalRaised = raised /\ e.totalSold = sold
        /\ e.pendingAllocation = reserved /\ e.pendingPurchaseCount = count
        /\ e.purchasedByBuyer = bought
        /\ e.state = d.state /\ e.balance = d.balance /\ e.unsoldReleased = d.unsoldReleased
        /\ e.finalizedAllocation = d.finalizedAllocation
        /\ e.inventoryFunded = d.inventoryFunded
    BY <1>2 DEF RoundRow
  <2> HIDE DEF e
  <2> QED
    BY <2>1, <2>3, <2>4 DEF P, raised, sold, reserved, count, bought
<1>7. PICK c2 \in CustodyRow :
        /\ custody' = [custody EXCEPT ![r] = c2]
        /\ c2.balance = c.balance - usdc /\ c2.totalCollected = c.totalCollected
        /\ c2.totalRefunded = c.totalRefunded + usdc /\ c2.totalReleased = c.totalReleased
        /\ c2.payments[id].state = "REFUNDED"
        /\ \A x \in PurchaseIds \ {id} : c2.payments[x] = c.payments[x]
  <2>1. PICK y \in PaymentRow : y = [c.payments[id] EXCEPT !.state = "REFUNDED"] /\ y.state = "REFUNDED"
    <3> DEFINE y == [c.payments[id] EXCEPT !.state = "REFUNDED"]
    <3>1. c.payments[id] \in PaymentRow
      BY <1>2 DEF CustodyRow
    <3>2. y \in PaymentRow /\ y.state = "REFUNDED"
      BY <3>1 DEF PaymentRow, PaymentStates
    <3> QED
      BY <3>2
  <2> DEFINE payments == [c.payments EXCEPT ![id] = y]
             refunded == c.totalRefunded + usdc
             held == c.balance - usdc
             c2 == [c EXCEPT !.payments = payments, !.totalRefunded = refunded, !.balance = held]
  <2>2. custody' = [custody EXCEPT ![r] = c2]
    BY <1>1, <1>2, <2>1 DEF withdrawPurchase, refundTo, CustodyRow
  <2>3. /\ payments \in [PurchaseIds -> PaymentRow] /\ refunded \in Int /\ held \in Int
        /\ payments[id].state = "REFUNDED"
        /\ \A x \in PurchaseIds \ {id} : payments[x] = c.payments[x]
    BY <1>2, <1>3, <2>1 DEF CustodyRow
  <2> HIDE DEF payments, refunded, held
  <2>4. /\ c2 \in CustodyRow /\ c2.balance = held /\ c2.totalRefunded = refunded
        /\ c2.totalCollected = c.totalCollected /\ c2.totalReleased = c.totalReleased
        /\ c2.payments = payments
    BY <1>2, <2>3 DEF CustodyRow
  <2> HIDE DEF c2
  <2> QED
    BY <2>2, <2>3, <2>4 DEF refunded, held
<1>9. /\ counting[p] = 1 /\ pendingUliq[p] = uliq /\ pendingUsdc[p] = usdc /\ liveUsdc[p] = usdc
      /\ liveUliq[p] = uliq /\ finalUsdc[p] = 0
      /\ \A a \in Buyers : /\ liveUsdcOf(a)[p] = IF a = b THEN usdc ELSE 0
                           /\ finalUliqOf(a)[p] = 0
  BY <1>1, <1>3, <1>4 DEF counting, pendingUliq, pendingUsdc, liveUsdc, liveUliq, finalUsdc, liveUsdcOf,
     finalUliqOf, pending, live, final
<1>10. /\ counting[q] = 0 /\ pendingUliq[q] = 0 /\ pendingUsdc[q] = 0 /\ liveUsdc[q] = 0
       /\ liveUliq[q] = 0 /\ finalUsdc[q] = 0
       /\ \A a \in Buyers : liveUsdcOf(a)[q] = 0 /\ finalUliqOf(a)[q] = 0
  BY <1>5 DEF counting, pendingUliq, pendingUsdc, liveUsdc, liveUliq, finalUsdc, liveUsdcOf,
     finalUliqOf, pending, live, final
<1>11. /\ BooksOK(e, c2, v) /\ e.pendingPurchaseCount \in Nat
       /\ e.totalRaised \in Nat /\ e.totalSold \in Nat
       /\ \A a \in Buyers : e.purchasedByBuyer[a] \in Nat
  <2>1. /\ e.pendingPurchaseCount = d.pendingPurchaseCount - counting[p] + counting[q]
        /\ e.pendingAllocation = d.pendingAllocation - pendingUliq[p] + pendingUliq[q]
        /\ e.totalRaised = d.totalRaised - liveUsdc[p] + liveUsdc[q]
        /\ e.totalSold = d.totalSold - liveUliq[p] + liveUliq[q]
        /\ c2.balance = c.balance - pendingUsdc[p] + pendingUsdc[q]
        /\ c2.totalReleased = c.totalReleased - finalUsdc[p] + finalUsdc[q]
    BY <1>2, <1>3, <1>6, <1>7, <1>9, <1>10 DEF RoundRow, CustodyRow
  <2>2. \A a \in Buyers :
          e.purchasedByBuyer[a] = d.purchasedByBuyer[a] - liveUsdcOf(a)[p] + liveUsdcOf(a)[q]
    BY <1>2, <1>3, <1>6, <1>9, <1>10 DEF RoundRow
  <2>3. \A a \in Buyers : v.allocated[a] = v.allocated[a] - finalUliqOf(a)[p] + finalUliqOf(a)[q]
    BY <1>2, <1>9, <1>10 DEF VestingRow
  <2>4. BooksOK(d, c, v) /\ e.finalizedAllocation = v.totalAllocated
    BY <1>2, <1>6 DEF RoundOK, BooksOK
  <2>5. p = d.purchases[id] /\ e.purchases = [d.purchases EXCEPT ![id] = q]
    BY <1>1, <1>6
  <2>6. Booked(d, c, v, id, p, q, e, c2, v)
    BY <2>1, <2>2, <2>3, <2>4, <2>5 DEF Booked
  <2>7. d \in RoundRow
    BY <1>2
  <2> QED
    BY <2>4, <2>6, <2>7, BooksMove
<1>12. PaymentsOK(e, c2)
  BY <1>2, <1>3, <1>5, <1>6, <1>7 DEF RoundOK, PaymentsOK, RoundRow, CustodyRow
<1>13. LimitsOK(r, e)
  BY <1>2, <1>3, <1>6, HardCapIsNat, RoundAssumption DEF RoundOK, LimitsOK, RoundRow
<1>14. d.pendingPurchaseCount # 0
  BY <1>2, <1>6, <1>11 DEF RoundRow
<1>15. InventoryOK(r, e)
  <2>1. d.unsoldReleased = 0
    BY <1>2, <1>14 DEF RoundOK, InventoryOK
  <2>2. /\ d.totalSold \in Int /\ d.pendingAllocation \in Int /\ AllocationCap[r] \in Nat
        /\ uliq \in Int /\ InventoryOK(r, d)
    BY <1>2, <1>3, RoundAssumption DEF RoundOK, RoundRow
  <2> QED
    BY <1>6, <2>1, <2>2 DEF InventoryOK
<1>16. RoundOK(r, e, c2, v)
  BY <1>2, <1>11, <1>12, <1>13, <1>15 DEF RoundOK
<1>17. /\ walletUsdc' \in [Buyers -> Nat] /\ treasuryUsdc' = treasuryUsdc
       /\ \A a \in Buyers : walletUsdc'[a] + e.purchasedByBuyer[a]
                              = walletUsdc[a] + d.purchasedByBuyer[a]
  <2>1. walletUsdc' = [walletUsdc EXCEPT ![b] = walletUsdc[b] + usdc] /\ treasuryUsdc' = treasuryUsdc
    BY <1>1, <1>4 DEF withdrawPurchase, refundTo
  <2>2. d.purchasedByBuyer \in [Buyers -> Int] /\ walletUsdc \in [Buyers -> Nat] /\ usdc \in Nat
    BY <1>2, <1>3 DEF RoundRow
  <2>3. e.purchasedByBuyer = [d.purchasedByBuyer EXCEPT ![b] = @ - usdc]
    BY <1>6
  <2>4. walletUsdc' \in [Buyers -> Nat]
    BY <2>1, <2>2
  <2>5. ASSUME NEW a \in Buyers
        PROVE  walletUsdc'[a] + e.purchasedByBuyer[a] = walletUsdc[a] + d.purchasedByBuyer[a]
    BY <2>1, <2>2, <2>3, SMTT(30)
  <2> QED
    BY <2>1, <2>4, <2>5, Zenon
<1>18. listingTimestamp = 0
  BY <1>1, <1>14 DEF PresaleInv, ListingOK
<1>19. /\ vesting' = [vesting EXCEPT ![r] = v] /\ walletUliq' = walletUliq
       /\ UNCHANGED <<now, listingVars, sourceUliq>>
  BY <1>1, <1>2, <1>4 DEF vestingVars
<1>20. /\ e.state = round[r].state /\ v.released = vesting[r].released
       /\ \A a \in Buyers : walletUsdc'[a] + e.purchasedByBuyer[a]
                              = walletUsdc[a] + round[r].purchasedByBuyer[a]
       /\ SumFunctionOnSet(treasuryUsdc', Treasuries) - c2.totalReleased
          = SumFunctionOnSet(treasuryUsdc, Treasuries) - custody[r].totalReleased
  BY <1>1, <1>6, <1>7, <1>17
<1>21. /\ round' = [round EXCEPT ![r] = e] /\ custody' = [custody EXCEPT ![r] = c2]
       /\ treasuryUsdc' \in [Treasuries -> Nat] /\ v \in VestingRow
  BY <1>2, <1>6, <1>7, <1>17
<1> QED
  BY <1>16, <1>17, <1>18, <1>19, <1>20, <1>21, PurchaseStep

LEMMA FinalizeStep ==
    ASSUME PresaleInv, NEW r \in Rounds, NEW id \in PurchaseIds, finalizePurchase(r, id)
    PROVE  PresaleInv'
<1>1. PICK d, c, v, p, b, usdc, uliq :
        /\ d = round[r] /\ c = custody[r] /\ v = vesting[r] /\ p = d.purchases[id]
        /\ b = p.buyer /\ usdc = p.usdc /\ uliq = p.uliq
  OBVIOUS
<1>2. /\ d \in RoundRow /\ c \in CustodyRow /\ v \in VestingRow /\ RoundOK(r, d, c, v)
      /\ round \in [Rounds -> RoundRow] /\ custody \in [Rounds -> CustodyRow]
      /\ vesting \in [Rounds -> VestingRow]
      /\ walletUsdc \in [Buyers -> Nat] /\ treasuryUsdc \in [Treasuries -> Nat]
  BY <1>1 DEF PresaleInv, TypesOK
<1>3. /\ p \in PurchaseRow /\ usdc \in Nat /\ uliq \in Nat
  BY <1>1, <1>2 DEF RoundRow, PurchaseRow
<1>4. /\ p.state = "PENDING_WITHDRAWAL" /\ listingTimestamp = 0 /\ uliq <= d.balance
      /\ UNCHANGED <<now, listingVars, sourceUliq>>
      /\ v.balance + uliq + v.totalReleased >= v.totalAllocated + uliq
  BY <1>1 DEF finalizePurchase, isPending, allocate
<1>5. b \in Buyers
  BY <1>1, <1>2, <1>4 DEF RoundOK, PaymentsOK
<1>6. PICK q \in PurchaseRow :
        /\ q.buyer = b /\ q.usdc = usdc /\ q.uliq = uliq /\ q.state = "FINALIZED"
        /\ q = [p EXCEPT !.state = "FINALIZED"]
  <2> DEFINE q == [p EXCEPT !.state = "FINALIZED"]
  <2>1. /\ q \in PurchaseRow
        /\ q.buyer = b /\ q.usdc = usdc /\ q.uliq = uliq /\ q.state = "FINALIZED"
    BY <1>1, <1>3, <1>4 DEF PurchaseRow, PurchaseStates
  <2> QED
    BY <2>1
<1>7. PICK e \in RoundRow :
        /\ round' = [round EXCEPT ![r] = e]
        /\ e.purchases = [d.purchases EXCEPT ![id] = q]
        /\ e.pendingAllocation = d.pendingAllocation - uliq
        /\ e.pendingPurchaseCount = d.pendingPurchaseCount - 1
        /\ e.finalizedAllocation = d.finalizedAllocation + uliq
        /\ e.balance = d.balance - uliq
        /\ e.totalRaised = d.totalRaised /\ e.totalSold = d.totalSold
        /\ e.purchasedByBuyer = d.purchasedByBuyer
        /\ e.state = d.state /\ e.unsoldReleased = d.unsoldReleased
        /\ e.inventoryFunded = d.inventoryFunded
  <2> DEFINE P == [d.purchases EXCEPT ![id] = q]
             count == d.pendingPurchaseCount - 1
             reserved == d.pendingAllocation - uliq
             finalized == d.finalizedAllocation + uliq
             left == d.balance - uliq
             e == [d EXCEPT !.purchases = P, !.pendingPurchaseCount = count,
                            !.pendingAllocation = reserved, !.finalizedAllocation = finalized,
                            !.balance = left]
  <2>1. round' = [round EXCEPT ![r] = e]
    <3>1. round' = [round EXCEPT ![r] =
                     [d EXCEPT !.purchases = [d.purchases EXCEPT ![id] = q],
                               !.pendingPurchaseCount = @ - 1, !.pendingAllocation = @ - uliq,
                               !.finalizedAllocation = @ + uliq, !.balance = @ - uliq]]
      BY <1>1, <1>2, <1>4, <1>6 DEF finalizePurchase, RoundRow
    <3> QED
      BY <1>2, <3>1 DEF RoundRow
  <2>2. /\ P \in [PurchaseIds -> PurchaseRow] /\ count \in Int
        /\ reserved \in Int /\ finalized \in Int /\ left \in Int
    BY <1>2, <1>3, <1>6 DEF RoundRow
  <2> HIDE DEF P, count, reserved, finalized, left
  <2>3. e \in RoundRow
    BY <1>2, <2>2 DEF RoundRow
  <2>4. /\ e.purchases = P /\ e.pendingPurchaseCount = count /\ e.pendingAllocation = reserved
        /\ e.finalizedAllocation = finalized /\ e.balance = left
        /\ e.totalRaised = d.totalRaised /\ e.totalSold = d.totalSold
        /\ e.purchasedByBuyer = d.purchasedByBuyer
        /\ e.state = d.state /\ e.unsoldReleased = d.unsoldReleased
        /\ e.inventoryFunded = d.inventoryFunded
    BY <1>2 DEF RoundRow
  <2> HIDE DEF e
  <2> QED
    BY <2>1, <2>3, <2>4 DEF P, count, reserved, finalized, left
<1>8. PICK c2 \in CustodyRow :
        /\ custody' = [custody EXCEPT ![r] = c2]
        /\ c2.balance = c.balance - usdc /\ c2.totalCollected = c.totalCollected
        /\ c2.totalRefunded = c.totalRefunded /\ c2.totalReleased = c.totalReleased + usdc
        /\ c2.payments[id].state = "RELEASED"
        /\ \A x \in PurchaseIds \ {id} : c2.payments[x] = c.payments[x]
  <2>1. PICK y \in PaymentRow : y = [c.payments[id] EXCEPT !.state = "RELEASED"] /\ y.state = "RELEASED"
    <3> DEFINE y == [c.payments[id] EXCEPT !.state = "RELEASED"]
    <3>1. c.payments[id] \in PaymentRow
      BY <1>2 DEF CustodyRow
    <3>2. y \in PaymentRow /\ y.state = "RELEASED"
      BY <3>1 DEF PaymentRow, PaymentStates
    <3> QED
      BY <3>2
  <2> DEFINE payments == [c.payments EXCEPT ![id] = y]
             released == c.totalReleased + usdc
             held == c.balance - usdc
             c2 == [c EXCEPT !.payments = payments, !.totalReleased = released, !.balance = held]
  <2>2. custody' = [custody EXCEPT ![r] = c2]
    BY <1>1, <1>2, <2>1 DEF finalizePurchase, releaseToTreasury, CustodyRow
  <2>3. /\ payments \in [PurchaseIds -> PaymentRow] /\ released \in Int /\ held \in Int
        /\ payments[id].state = "RELEASED"
        /\ \A x \in PurchaseIds \ {id} : payments[x] = c.payments[x]
    BY <1>2, <1>3, <2>1 DEF CustodyRow
  <2> HIDE DEF payments, released, held
  <2>4. /\ c2 \in CustodyRow /\ c2.balance = held /\ c2.totalReleased = released
        /\ c2.totalCollected = c.totalCollected /\ c2.totalRefunded = c.totalRefunded
        /\ c2.payments = payments
    BY <1>2, <2>3 DEF CustodyRow
  <2> HIDE DEF c2
  <2> QED
    BY <2>2, <2>3, <2>4 DEF released, held
<1>9. PICK v2 \in VestingRow :
        /\ vesting' = [vesting EXCEPT ![r] = v2]
        /\ v2.balance = v.balance + uliq /\ v2.totalAllocated = v.totalAllocated + uliq
        /\ v2.allocated = [v.allocated EXCEPT ![b] = @ + uliq]
        /\ v2.totalReleased = v.totalReleased /\ v2.released = v.released
  <2> DEFINE pool == v.balance + uliq
             total == v.totalAllocated + uliq
             allocated == [v.allocated EXCEPT ![b] = @ + uliq]
             v2 == [v EXCEPT !.balance = pool, !.totalAllocated = total, !.allocated = allocated]
  <2>1. vesting' = [vesting EXCEPT ![r] = v2]
    BY <1>1, <1>2 DEF finalizePurchase, allocate, VestingRow
  <2>2. pool \in Int /\ total \in Int /\ allocated \in [Buyers -> Int]
    BY <1>2, <1>3, <1>5 DEF VestingRow
  <2> HIDE DEF pool, total, allocated
  <2>3. /\ v2 \in VestingRow /\ v2.balance = pool /\ v2.totalAllocated = total
        /\ v2.allocated = allocated
        /\ v2.totalReleased = v.totalReleased /\ v2.released = v.released
    BY <1>2, <2>2 DEF VestingRow
  <2> HIDE DEF v2
  <2> QED
    BY <2>1, <2>3 DEF pool, total, allocated
<1>10. /\ counting[p] = 1 /\ pendingUliq[p] = uliq /\ pendingUsdc[p] = usdc /\ liveUsdc[p] = usdc
       /\ liveUliq[p] = uliq /\ finalUsdc[p] = 0
       /\ \A a \in Buyers : /\ liveUsdcOf(a)[p] = IF a = b THEN usdc ELSE 0
                            /\ finalUliqOf(a)[p] = 0
  BY <1>1, <1>3, <1>4 DEF counting, pendingUliq, pendingUsdc, liveUsdc, liveUliq, finalUsdc, liveUsdcOf,
     finalUliqOf, pending, live, final
<1>11. /\ counting[q] = 0 /\ pendingUliq[q] = 0 /\ pendingUsdc[q] = 0 /\ liveUsdc[q] = usdc
       /\ liveUliq[q] = uliq /\ finalUsdc[q] = usdc
       /\ \A a \in Buyers : /\ liveUsdcOf(a)[q] = IF a = b THEN usdc ELSE 0
                            /\ finalUliqOf(a)[q] = IF a = b THEN uliq ELSE 0
  <2>1. ~pending(q) /\ live(q) /\ final(q)
    BY <1>6 DEF pending, live, final
  <2>2. /\ counting[q] = 0 /\ pendingUliq[q] = 0 /\ pendingUsdc[q] = 0 /\ liveUsdc[q] = usdc
        /\ liveUliq[q] = uliq /\ finalUsdc[q] = usdc
    BY <1>6, <2>1 DEF counting, pendingUliq, pendingUsdc, liveUsdc, liveUliq, finalUsdc
  <2>3. \A a \in Buyers : /\ liveUsdcOf(a)[q] = IF a = b THEN usdc ELSE 0
                          /\ finalUliqOf(a)[q] = IF a = b THEN uliq ELSE 0
    <3>1. ASSUME NEW a \in Buyers, a = b PROVE liveUsdcOf(a)[q] = usdc /\ finalUliqOf(a)[q] = uliq
      BY <1>6, <3>1 DEF liveUsdcOf, finalUliqOf, live, final
    <3>2. ASSUME NEW a \in Buyers, a # b PROVE liveUsdcOf(a)[q] = 0 /\ finalUliqOf(a)[q] = 0
      BY <1>6, <3>2 DEF liveUsdcOf, finalUliqOf
    <3> QED
      BY <3>1, <3>2
  <2> QED
    BY <2>2, <2>3
<1>12. BooksOK(e, c2, v2) /\ e.pendingPurchaseCount \in Nat
  <2>1. /\ e.pendingPurchaseCount = d.pendingPurchaseCount - counting[p] + counting[q]
        /\ e.pendingAllocation = d.pendingAllocation - pendingUliq[p] + pendingUliq[q]
        /\ e.totalRaised = d.totalRaised - liveUsdc[p] + liveUsdc[q]
        /\ e.totalSold = d.totalSold - liveUliq[p] + liveUliq[q]
        /\ c2.balance = c.balance - pendingUsdc[p] + pendingUsdc[q]
        /\ c2.totalReleased = c.totalReleased - finalUsdc[p] + finalUsdc[q]
    BY <1>2, <1>3, <1>7, <1>8, <1>10, <1>11 DEF RoundRow, CustodyRow
  <2>2. ASSUME NEW a \in Buyers
        PROVE  e.purchasedByBuyer[a] = d.purchasedByBuyer[a] - liveUsdcOf(a)[p] + liveUsdcOf(a)[q]
    <3>1. /\ d.purchasedByBuyer[a] \in Int /\ e.purchasedByBuyer[a] = d.purchasedByBuyer[a]
          /\ liveUsdcOf(a)[p] \in Int /\ liveUsdcOf(a)[q] = liveUsdcOf(a)[p]
      BY <1>2, <1>3, <1>7, <1>10, <1>11 DEF RoundRow
    <3> QED
      BY <3>1
  <2>3. \A a \in Buyers : v2.allocated[a] = v.allocated[a] - finalUliqOf(a)[p] + finalUliqOf(a)[q]
    BY <1>2, <1>3, <1>9, <1>10, <1>11 DEF VestingRow
  <2>4. BooksOK(d, c, v) /\ e.finalizedAllocation = v2.totalAllocated
    BY <1>2, <1>7, <1>9 DEF RoundOK, BooksOK
  <2>5. p = d.purchases[id] /\ e.purchases = [d.purchases EXCEPT ![id] = q]
    BY <1>1, <1>7
  <2>6. Booked(d, c, v, id, p, q, e, c2, v2)
    BY <2>1, <2>2, <2>3, <2>4, <2>5 DEF Booked
  <2>7. d \in RoundRow
    BY <1>2
  <2> QED
    BY <2>4, <2>6, <2>7, BooksMove
<1>13. PaymentsOK(e, c2)
  BY <1>2, <1>3, <1>5, <1>6, <1>7, <1>8 DEF RoundOK, PaymentsOK, RoundRow, CustodyRow
<1>14. LimitsOK(r, e)
  BY <1>2, <1>7 DEF RoundOK, LimitsOK
<1>15. InventoryOK(r, e)
  <2>1. /\ d.totalSold \in Int /\ d.pendingAllocation \in Int /\ AllocationCap[r] \in Nat
        /\ uliq \in Int /\ InventoryOK(r, d) /\ d.unsoldReleased \in Int
        /\ d.pendingPurchaseCount \in Int
    BY <1>2, <1>3, RoundAssumption DEF RoundOK, RoundRow
  <2>2. d.unsoldReleased = 0
    BY <1>7, <1>12, <2>1 DEF InventoryOK
  <2> QED
    BY <1>3, <1>4, <1>7, <2>1, <2>2 DEF InventoryOK
<1>16. PoolOK(v2)
  BY <1>2, <1>3, <1>4, <1>9 DEF RoundOK, PoolOK, VestingRow
<1>17. RoundOK(r, e, c2, v2)
  BY <1>12, <1>13, <1>14, <1>15, <1>16 DEF RoundOK
<1>18. PICK t \in Treasuries :
         treasuryUsdc' = [treasuryUsdc EXCEPT ![t] = treasuryUsdc[t] + usdc] /\ walletUsdc' = walletUsdc
  BY <1>1, <1>2 DEF finalizePurchase, releaseToTreasury, CustodyRow
<1>19. SumFunctionOnSet(treasuryUsdc', Treasuries) - c2.totalReleased
          = SumFunctionOnSet(treasuryUsdc, Treasuries) - c.totalReleased
  <2>1. /\ \A x \in Treasuries : treasuryUsdc[x] \in Int /\ treasuryUsdc'[x] \in Int
        /\ \A x \in Treasuries \ {t} : treasuryUsdc'[x] = treasuryUsdc[x]
        /\ treasuryUsdc'[t] = treasuryUsdc[t] + usdc
    BY <1>2, <1>3, <1>18
  <2>2. SumFunctionOnSet(treasuryUsdc', Treasuries)
          = SumFunctionOnSet(treasuryUsdc, Treasuries) - treasuryUsdc[t] + treasuryUsdc'[t]
    BY <2>1, SumChanged, CustodyAssumption
  <2>3. SumFunctionOnSet(treasuryUsdc, Treasuries) \in Int
    <3>1. IsFiniteSet(Treasuries) /\ \A x \in Treasuries : treasuryUsdc[x] \in Int
      BY <2>1, CustodyAssumption, Zenon
    <3> QED
      BY <3>1, SumIsInt, Zenon
  <2> QED
    BY <1>2, <1>3, <1>8, <2>1, <2>2, <2>3, SMTT(30) DEF CustodyRow
<1>20. /\ e.state = round[r].state /\ v2.released = vesting[r].released /\ walletUliq' = walletUliq
       /\ \A a \in Buyers : walletUsdc'[a] + e.purchasedByBuyer[a]
                              = walletUsdc[a] + round[r].purchasedByBuyer[a]
       /\ SumFunctionOnSet(treasuryUsdc', Treasuries) - c2.totalReleased
          = SumFunctionOnSet(treasuryUsdc, Treasuries) - custody[r].totalReleased
  BY <1>1, <1>7, <1>9, <1>18, <1>19 DEF finalizePurchase, allocate
<1>21. /\ treasuryUsdc' \in [Treasuries -> Nat] /\ walletUsdc' \in [Buyers -> Nat]
       /\ round' = [round EXCEPT ![r] = e] /\ custody' = [custody EXCEPT ![r] = c2]
       /\ vesting' = [vesting EXCEPT ![r] = v2]
  BY <1>2, <1>3, <1>7, <1>8, <1>9, <1>18
<1>22. listingTimestamp = 0 /\ UNCHANGED <<now, listingVars, walletUliq, sourceUliq>>
  BY <1>4, <1>20
<1> QED
  BY <1>17, <1>20, <1>21, <1>22, PurchaseStep

-----------------------------------------------------------------------------
(* Vesting. *)

\* What has vested of an allocation at a time.
unlocked(allocation, listing, time) ==
    LET remaining == allocation - initialUnlock(allocation)
        elapsed == time - (listing + CliffSeconds)
    IN  IF listing = 0 \/ time < listing THEN 0
        ELSE IF elapsed <= 0 /\ remaining # 0 THEN initialUnlock(allocation)
        ELSE IF remaining = 0 \/ elapsed >= LinearVestingDurationSeconds THEN allocation
        ELSE initialUnlock(allocation) + (remaining * elapsed) \div LinearVestingDurationSeconds

LEMMA VestedIsUnlocked ==
    \A r \in Rounds, b \in Buyers : vested(r, b) = unlocked(vesting[r].allocated[b], listingTimestamp, now)
BY DEF vested, unlocked

LEMMA InitialUnlockFits ==
    ASSUME NEW a \in Nat
    PROVE  /\ initialUnlock(a) \in Nat /\ initialUnlock(a) <= a
           /\ InitialUnlockBps = BPS_DENOMINATOR => initialUnlock(a) = a
<1>1. InitialUnlockBps \in Nat /\ InitialUnlockBps <= 10000 /\ BPS_DENOMINATOR = 10000
  BY ScheduleAssumption DEF BPS_DENOMINATOR
<1>2. a * InitialUnlockBps \in Nat /\ a * InitialUnlockBps <= a * 10000
  BY <1>1, ProductGrows
<1>3. (a * InitialUnlockBps) \div 10000 \in Nat /\ (a * InitialUnlockBps) \div 10000 <= a
  BY <1>2
<1>4. (a * 10000) \div 10000 = a
  OBVIOUS
<1> QED
  BY <1>1, <1>3, <1>4 DEF initialUnlock

\* The linear part grows and stays below the whole.
LEMMA LinearPart ==
    ASSUME NEW whole \in Nat, NEW duration \in Nat \ {0}, NEW s \in Nat, NEW t \in Nat,
           s <= t, t <= duration
    PROVE  /\ (whole * s) \div duration \in Nat
           /\ (whole * s) \div duration <= (whole * t) \div duration
           /\ (whole * t) \div duration <= whole
<1>1. /\ whole * s \in Nat /\ whole * t \in Nat /\ whole * s <= whole * t
      /\ whole * t <= whole * duration
  BY ProductGrows
<1>2. whole * t < duration * (whole + 1)
  BY <1>1
<1> QED
  BY <1>1, <1>2, Division, DivGrows, DivBelow

LEMMA UnlockedGrows ==
    ASSUME NEW a \in Nat, NEW listing \in Nat, NEW s \in Nat, NEW t \in Nat, s <= t
    PROVE  /\ unlocked(a, listing, s) \in Nat
           /\ unlocked(a, listing, s) <= unlocked(a, listing, t)
           /\ unlocked(a, listing, t) <= a
<1> DEFINE start == listing + CliffSeconds
           init == initialUnlock(a)
           rest == a - init
           D == LinearVestingDurationSeconds
<1>1. init \in Nat /\ init <= a /\ rest \in Nat /\ start \in Nat /\ D \in Nat
  BY InitialUnlockFits, ScheduleAssumption
<1>2. rest # 0 => D > 0
  <2>1. InitialUnlockBps \in Nat /\ InitialUnlockBps <= BPS_DENOMINATOR /\ BPS_DENOMINATOR \in Nat
    BY ScheduleAssumption DEF BPS_DENOMINATOR
  <2> QED
    BY <1>1, <2>1, InitialUnlockFits, ScheduleAssumption
<1>3. ASSUME NEW x \in Nat, NEW y \in Nat, x <= y
      PROVE  /\ unlocked(a, listing, x) \in Nat /\ unlocked(a, listing, x) <= a
             /\ unlocked(a, listing, x) <= unlocked(a, listing, y)
  <2>1. CASE listing = 0 \/ y < listing
    BY <1>3, <2>1 DEF unlocked
  <2>2. CASE listing # 0 /\ y >= listing /\ rest = 0
    BY <1>1, <1>3, <2>2 DEF unlocked
  <2>3. CASE listing # 0 /\ y >= listing /\ rest # 0
    <3>1. ASSUME NEW z \in Nat, listing # 0, z >= listing
          PROVE  unlocked(a, listing, z) = IF z - start <= 0 THEN init
                                           ELSE IF z - start >= D THEN a
                                           ELSE init + (rest * (z - start)) \div D
      BY <2>3, <3>1 DEF unlocked
    <3> DEFINE line(z) == (rest * (z - start)) \div D
    <3>2. ASSUME NEW z \in Nat, NEW w \in Nat, z <= w, z - start > 0, w - start < D
          PROVE  line(z) \in Nat /\ line(z) <= line(w) /\ line(w) <= rest
      <4>1. z - start \in Nat /\ w - start \in Nat /\ z - start <= w - start /\ w - start <= D
        BY <1>1, <3>2
      <4>2. rest \in Nat /\ D \in Nat \ {0}
        BY <1>1, <1>2, <2>3
      <4> HIDE DEF rest, D, start
      <4> QED
        BY <4>1, <4>2, LinearPart
    <3> HIDE DEF line, init, rest, start, D
    <3>3. ASSUME NEW z \in Nat, listing # 0, z >= listing
          PROVE  unlocked(a, listing, z) = IF z - start <= 0 THEN init
                                           ELSE IF z - start >= D THEN a ELSE init + line(z)
      BY <3>1, <3>3 DEF line
    <3>4. a = init + rest
      BY <1>1 DEF rest
    <3>5. CASE x < listing
      <4>1. unlocked(a, listing, x) = 0
        BY <2>3, <3>5 DEF unlocked
      <4>2. y - start > 0 /\ y - start < D => line(y) \in Nat
        BY <1>1, <1>3, <3>2
      <4> QED
        BY <1>1, <1>3, <2>3, <3>3, <4>1, <4>2
    <3>6. CASE x >= listing
      <4>1. x - start > 0 /\ x - start < D => line(x) \in Nat /\ line(x) <= rest
        BY <1>1, <1>3, <3>2
      <4>2. y - start > 0 /\ y - start < D => line(y) \in Nat /\ line(y) <= rest
        BY <1>1, <1>3, <3>2
      <4>3. x - start > 0 /\ y - start < D => line(x) <= line(y)
        BY <1>1, <1>3, <3>2
      <4> QED
        BY <1>1, <1>3, <2>3, <3>3, <3>4, <3>6, <4>1, <4>2, <4>3
    <3> QED
      BY <1>3, <3>5, <3>6
  <2> QED
    BY <1>3, <2>1, <2>2, <2>3
<1> QED
  BY <1>3

LEMMA AllocatedIsNat ==
    ASSUME PresaleInv, NEW r \in Rounds, NEW b \in Buyers
    PROVE  vesting[r].allocated[b] \in Nat
<1>1. /\ vesting[r].allocated[b] = Total(round[r].purchases, finalUliqOf(b))
      /\ round[r].purchases \in [PurchaseIds -> PurchaseRow]
  BY DEF PresaleInv, TypesOK, RoundRow, RoundOK, BooksOK
<1>2. finalUliqOf(b) \in [PurchaseRow -> Nat]
  BY WeightTypes
<1> QED
  BY <1>1, <1>2, TotalIsNat

LEMMA VestedIsNat ==
    ASSUME PresaleInv, NEW r \in Rounds, NEW b \in Buyers
    PROVE  vested(r, b) \in Nat /\ vested(r, b) <= vesting[r].allocated[b]
<1> DEFINE a == vesting[r].allocated[b]
<1>1. a \in Nat /\ listingTimestamp \in Nat /\ now \in Nat /\ now <= now
  BY AllocatedIsNat DEF PresaleInv, TypesOK
<1>2. vested(r, b) = unlocked(a, listingTimestamp, now)
  BY VestedIsUnlocked
<1> HIDE DEF a
<1>3. vested(r, b) \in Nat /\ vested(r, b) <= a
  BY <1>1, <1>2, UnlockedGrows
<1> QED
  BY <1>3 DEF a

\* A pool pays a claim or is bound to its round.
LEMMA PoolStep ==
    ASSUME PresaleInv, NEW r \in Rounds, NEW v2 \in VestingRow,
           vesting' = [vesting EXCEPT ![r] = v2],
           UNCHANGED <<now, listingVars, custodyVars, round, sourceUliq>>,
           v2.allocated = vesting[r].allocated, v2.totalAllocated = vesting[r].totalAllocated,
           PoolOK(v2), \A b \in Buyers : v2.released[b] <= vested(r, b),
           walletUliq' \in [Buyers -> Nat],
           \A b \in Buyers : walletUliq'[b] - v2.released[b] = walletUliq[b] - vesting[r].released[b]
    PROVE  PresaleInv'
<1>1. /\ UNCHANGED <<now, listingTimestamp, round, custody, walletUsdc, treasuryUsdc, sourceUliq>>
      /\ vesting \in [Rounds -> VestingRow] /\ vesting' \in [Rounds -> VestingRow] /\ vesting'[r] = v2
      /\ \A q \in Rounds : q # r => vesting'[q] = vesting[q]
  BY DEF listingVars, custodyVars, PresaleInv, TypesOK
<1>2. TypesOK'
  BY <1>1 DEF PresaleInv, TypesOK
<1>3. ASSUME NEW q \in Rounds PROVE RoundOK(q, round[q], custody[q], vesting[q])'
  <2>1. RoundOK(q, round[q], custody[q], vesting[q])
    BY DEF PresaleInv
  <2>2. CASE q = r
    <3>1. BooksOK(round[r], custody[r], v2)
      BY <2>1, <2>2 DEF RoundOK, BooksOK
    <3> QED
      BY <1>1, <2>1, <2>2, <3>1 DEF RoundOK
  <2>3. CASE q # r
    BY <1>1, <2>1, <2>3
  <2> QED
    BY <2>2, <2>3
<1>4. MoneyOK'
  <2>1. ASSUME NEW b \in Buyers
        PROVE  walletUliq'[b] = vesting'[1].released[b] + vesting'[2].released[b]
    <3>1. /\ walletUliq[b] = vesting[1].released[b] + vesting[2].released[b]
          /\ vesting[1].released[b] \in Int /\ vesting[2].released[b] \in Int
          /\ v2.released[b] \in Int /\ walletUliq'[b] \in Int
          /\ walletUliq'[b] - v2.released[b] = walletUliq[b] - vesting[r].released[b]
      BY <1>1, RoundAssumption DEF PresaleInv, MoneyOK, VestingRow
    <3> QED
      BY <1>1, <3>1, RoundAssumption
  <2> QED
    BY <1>1, <2>1 DEF PresaleInv, MoneyOK
<1>5. SaleOrderOK' /\ ListingOK'
  BY <1>1 DEF PresaleInv, SaleOrderOK, ListingOK
<1>6. ClaimsOK'
  <2>1. ASSUME NEW q \in Rounds, NEW b \in Buyers
        PROVE  vesting'[q].released[b] <= vested(q, b)'
    <3>1. vested(q, b)' = vested(q, b)
      BY <1>1 DEF vested
    <3> QED
      BY <1>1, <3>1 DEF PresaleInv, ClaimsOK
  <2> QED
    BY <2>1 DEF ClaimsOK
<1> QED
  BY <1>2, <1>3, <1>4, <1>5, <1>6 DEF PresaleInv

LEMMA VestingStep ==
    ASSUME PresaleInv, NEW r \in Rounds, setVestingPresale(r) \/ \E b \in Buyers : claim(r, b),
           UNCHANGED <<now, listingVars, custodyVars>>, roundUnchanged
    PROVE  PresaleInv'
<1>1. PICK v : v = vesting[r]
  OBVIOUS
<1>2. /\ v \in VestingRow /\ vesting \in [Rounds -> VestingRow] /\ PoolOK(v)
      /\ walletUliq \in [Buyers -> Nat]
      /\ \A b \in Buyers : v.released[b] <= vested(r, b)
  BY <1>1 DEF PresaleInv, TypesOK, RoundOK, ClaimsOK
<1>3. UNCHANGED <<now, listingVars, custodyVars, round, sourceUliq>>
  BY DEF roundUnchanged
<1>4. CASE setVestingPresale(r)
  <2> DEFINE v2 == [v EXCEPT !.presale = TRUE]
  <2>1. vesting' = [vesting EXCEPT ![r] = v2] /\ walletUliq' = walletUliq
    BY <1>1, <1>2, <1>4 DEF setVestingPresale
  <2>2. /\ v2 \in VestingRow /\ v2.allocated = v.allocated /\ v2.released = v.released
        /\ v2.totalAllocated = v.totalAllocated /\ v2.totalReleased = v.totalReleased
        /\ v2.balance = v.balance
    BY <1>2 DEF VestingRow
  <2> HIDE DEF v2
  <2>3. PoolOK(v2)
    BY <1>2, <2>2 DEF PoolOK
  <2> QED
    BY <1>1, <1>2, <1>3, <2>1, <2>2, <2>3, PoolStep
<1>5. ASSUME NEW b \in Buyers, claim(r, b) PROVE PresaleInv'
  <2>1. vested(r, b) \in Nat
    BY VestedIsNat
  <2>2. PICK amount : amount = claimable(r, b)
    OBVIOUS
  <2>3. /\ amount = vested(r, b) - v.released[b] /\ amount > 0 /\ amount <= v.balance
        /\ v.released[b] \in Nat /\ v.balance \in Nat /\ v.totalReleased \in Int
    BY <1>1, <1>2, <1>5, <2>2 DEF claim, claimable, PoolOK, VestingRow
  <2>4. amount \in Nat
    BY <2>1, <2>3
  <2> DEFINE pool == v.balance - amount
             total == v.totalReleased + amount
             released == [v.released EXCEPT ![b] = @ + amount]
             v2 == [v EXCEPT !.balance = pool, !.totalReleased = total, !.released = released]
  <2>5. /\ vesting' = [vesting EXCEPT ![r] = v2]
        /\ walletUliq' = [walletUliq EXCEPT ![b] = @ + amount]
    BY <1>1, <1>2, <1>5, <2>2 DEF claim, VestingRow
  <2>6. /\ pool \in Nat /\ total \in Int /\ released \in [Buyers -> Nat]
        /\ \A a \in Buyers : released[a] = IF a = b THEN vested(r, b) ELSE v.released[a]
    BY <1>2, <2>1, <2>3, <2>4 DEF PoolOK
  <2>7. pool + total = v.balance + v.totalReleased
    BY <2>3, <2>4
  <2>8. /\ walletUliq' \in [Buyers -> Nat]
        /\ \A a \in Buyers : walletUliq'[a] - released[a] = walletUliq[a] - v.released[a]
    BY <1>2, <2>3, <2>4, <2>5 DEF PoolOK
  <2> HIDE DEF pool, total, released
  <2>14. pool \in Int /\ released \in [Buyers -> Int]
    BY <2>6
  <2>9. /\ v2 \in VestingRow /\ v2.balance = pool /\ v2.totalReleased = total
        /\ v2.released = released
        /\ v2.allocated = v.allocated /\ v2.totalAllocated = v.totalAllocated
    BY <1>2, <2>6, <2>14 DEF VestingRow
  <2> HIDE DEF v2
  <2>10. PoolOK(v2)
    BY <1>2, <2>6, <2>7, <2>9 DEF PoolOK
  <2>11. \A a \in Buyers : v2.released[a] <= vested(r, a)
    BY <1>2, <2>1, <2>6, <2>9
  <2>12. \A a \in Buyers : walletUliq'[a] - v2.released[a] = walletUliq[a] - vesting[r].released[a]
    BY <1>1, <2>8, <2>9
  <2>13. v2.allocated = vesting[r].allocated /\ v2.totalAllocated = vesting[r].totalAllocated
    BY <1>1, <2>9
  <2> QED
    BY <1>3, <2>5, <2>8, <2>9, <2>10, <2>11, <2>12, <2>13, PoolStep
<1> QED
  BY <1>4, <1>5

-----------------------------------------------------------------------------
(* Block time and the listing. *)

\* Time passes or the listing is scheduled, and every beneficiary's vested
\* amount stays or grows.
LEMMA ScheduleStep ==
    ASSUME PresaleInv, UNCHANGED <<custodyVars, vestingVars, round, sourceUliq>>,
           now' \in 1..MaxTime, listingTimestamp' \in 0..MaxTime, ListingOK',
           \A r \in Rounds, b \in Buyers : vested(r, b) <= vested(r, b)' /\ vested(r, b)' \in Nat
    PROVE  PresaleInv'
<1>1. UNCHANGED <<custody, walletUsdc, treasuryUsdc, vesting, walletUliq, round, sourceUliq>>
  BY DEF custodyVars, vestingVars
<1>2. TypesOK'
  BY <1>1 DEF PresaleInv, TypesOK
<1>3. \A q \in Rounds : RoundOK(q, round[q], custody[q], vesting[q])'
  BY <1>1 DEF PresaleInv
<1>4. MoneyOK' /\ SaleOrderOK'
  BY <1>1 DEF PresaleInv, MoneyOK, SaleOrderOK
<1>5. ASSUME NEW r \in Rounds, NEW b \in Buyers PROVE vesting'[r].released[b] <= vested(r, b)'
  <2>1. /\ vesting'[r].released[b] = vesting[r].released[b] /\ vesting[r].released[b] \in Int
        /\ vesting[r].released[b] <= vested(r, b)
    BY <1>1 DEF PresaleInv, TypesOK, VestingRow, ClaimsOK
  <2>2. vested(r, b) \in Int
    BY VestedIsNat
  <2>3. vested(r, b) <= vested(r, b)' /\ vested(r, b)' \in Int
    OBVIOUS
  <2> QED
    BY <2>1, <2>2, <2>3
<1>6. ClaimsOK'
  BY <1>5 DEF ClaimsOK
<1> QED
  BY <1>2, <1>3, <1>4, <1>6 DEF PresaleInv

LEMMA TickStep ==
    ASSUME PresaleInv, timeNext
    PROVE  PresaleInv'
<1>1. /\ UNCHANGED <<custodyVars, vestingVars, round, sourceUliq>> /\ listingTimestamp' = listingTimestamp
      /\ now \in 1..MaxTime /\ now' = now + 1 /\ now < MaxTime /\ listingTimestamp \in 0..MaxTime
  BY DEF timeNext, tick, roundUnchanged, listingVars, PresaleInv, TypesOK
<1>2. ASSUME NEW r \in Rounds, NEW b \in Buyers
      PROVE  vested(r, b) <= vested(r, b)' /\ vested(r, b)' \in Nat
  <2> DEFINE a == vesting[r].allocated[b]
  <2>1. a \in Nat /\ listingTimestamp \in Nat /\ now \in Nat /\ now' \in Nat /\ now <= now'
    BY <1>1, AllocatedIsNat, TimeAssumption
  <2>2. vested(r, b) = unlocked(a, listingTimestamp, now)
    BY VestedIsUnlocked
  <2>3. vested(r, b)' = unlocked(a, listingTimestamp, now')
    BY <1>1 DEF vested, unlocked, vestingVars
  <2> HIDE DEF a
  <2> QED
    BY <2>1, <2>2, <2>3, UnlockedGrows
<1>3. ListingOK'
  BY <1>1 DEF PresaleInv, ListingOK
<1>4. now' \in 1..MaxTime
  BY <1>1, TimeAssumption
<1> QED
  BY <1>1, <1>2, <1>3, <1>4, ScheduleStep

\* The listing is scheduled ahead: nothing has vested yet.
LEMMA ListingStep ==
    ASSUME PresaleInv, UNCHANGED <<custodyVars, vestingVars>>, roundUnchanged,
           configureRounds \/ \E t \in 1..MaxTime :
                                 scheduleListing(t, \A r \in Rounds : isListingReady(r))
    PROVE  PresaleInv'
<1>1. /\ UNCHANGED <<custodyVars, vestingVars, round, sourceUliq>> /\ now' = now
      /\ now \in 1..MaxTime /\ listingTimestamp \in 0..MaxTime /\ vesting' = vesting
  BY DEF configureRounds, scheduleListing, roundUnchanged, vestingVars, PresaleInv, TypesOK
<1>2. \A r \in Rounds, b \in Buyers : vested(r, b) \in Nat
  BY VestedIsNat
<1>3. CASE configureRounds
  <2>1. listingTimestamp' = listingTimestamp
    BY <1>3 DEF configureRounds
  <2>2. \A r \in Rounds, b \in Buyers : vested(r, b)' = vested(r, b)
    BY <1>1, <2>1 DEF vested
  <2>3. ListingOK'
    BY <1>1, <2>1 DEF PresaleInv, ListingOK
  <2> QED
    BY <1>1, <1>2, <2>1, <2>2, <2>3, ScheduleStep
<1>4. ASSUME NEW t \in 1..MaxTime, scheduleListing(t, \A r \in Rounds : isListingReady(r))
      PROVE  PresaleInv'
  <2>1. /\ listingTimestamp = 0 /\ t > now /\ listingTimestamp' = t
        /\ \A r \in Rounds : isListingReady(r)
    BY <1>4 DEF scheduleListing
  <2>2. \A r \in Rounds, b \in Buyers : vested(r, b)' = 0 /\ vested(r, b) = 0
    BY <1>1, <2>1 DEF vested
  <2>3. ListingOK'
    BY <1>1, <2>1 DEF ListingOK, isListingReady, Listed
  <2>4. listingTimestamp' \in 0..MaxTime
    BY <2>1
  <2> QED
    BY <1>1, <2>2, <2>3, <2>4, ScheduleStep
<1> QED
  BY <1>3, <1>4

-----------------------------------------------------------------------------
LEMMA StutterStep ==
    ASSUME PresaleInv, UNCHANGED presaleVars
    PROVE  PresaleInv'
<1>1. UNCHANGED <<now, listingTimestamp, custody, walletUsdc, treasuryUsdc, vesting, walletUliq,
                  round, sourceUliq>>
  BY DEF presaleVars, listingVars, custodyVars, vestingVars
<1> QED
  BY <1>1 DEF PresaleInv, TypesOK, MoneyOK, SaleOrderOK, ListingOK, ClaimsOK, vested

LEMMA PresaleNext_Inv == PresaleInv /\ [PresaleNext]_presaleVars => PresaleInv'
<1> SUFFICES ASSUME PresaleInv, [PresaleNext]_presaleVars PROVE PresaleInv'
  OBVIOUS
<1>1. CASE adminNext
  <2>1. CASE /\ configureRounds \/ \E t \in 1..MaxTime :
                                     scheduleListing(t, \A r \in Rounds : isListingReady(r))
             /\ UNCHANGED <<custodyVars, vestingVars>> /\ roundUnchanged
    BY <2>1, ListingStep
  <2>2. ASSUME NEW r \in Rounds, NEW w \in Windows, configureSaleWindow(r, w[1], w[2])
        PROVE  PresaleInv'
    BY <2>2, WindowStep
  <2>3. ASSUME NEW r \in Rounds,
               \/ markReady(r) \/ activateSale(r) \/ pauseSale(r) \/ unpauseSale(r) \/ endSale(r)
               \/ markListingPending(r) \/ acknowledgeListingLaunch(r) \/ completeSale(r)
        PROVE  PresaleInv'
    BY <2>3, LifeCycleStep
  <2>4. ASSUME NEW r \in Rounds, fundInventory(r) \/ donateInventory(r) \/ releaseUnsold(r)
        PROVE  PresaleInv'
    BY <2>4, InventoryStep
  <2>5. ASSUME NEW r \in Rounds,
               \/ setCustodyPresale(r) \/ cancelTreasuryTransfer(r)
               \/ \E t \in Treasuries : proposeTreasury(r, t) \/ acceptTreasury(r, t),
               UNCHANGED <<now, listingVars, vestingVars>>, roundUnchanged
        PROVE  PresaleInv'
    BY <2>5, TreasuryStep
  <2>6. ASSUME NEW r \in Rounds, setVestingPresale(r),
               UNCHANGED <<now, listingVars, custodyVars>>, roundUnchanged
        PROVE  PresaleInv'
    BY <2>6, VestingStep
  <2> QED
    BY <1>1, <2>1, <2>2, <2>3, <2>4, <2>5, <2>6 DEF adminNext
<1>2. CASE buyerNext
  <2>1. ASSUME NEW r \in Rounds, NEW b \in Buyers, claim(r, b),
               UNCHANGED <<now, listingVars, custodyVars>>, roundUnchanged
        PROVE  PresaleInv'
    BY <2>1, VestingStep
  <2> QED
    BY <1>2, <2>1, BuyStep, WithdrawStep DEF buyerNext
<1>3. CASE finalizerNext
  BY <1>3, FinalizeStep DEF finalizerNext
<1>4. CASE timeNext
  BY <1>4, TickStep
<1>5. CASE UNCHANGED presaleVars
  BY <1>5, StutterStep
<1> QED
  BY <1>1, <1>2, <1>3, <1>4, <1>5 DEF PresaleNext

\* Every transaction of every contract of the presale, and the passing of
\* time, preserves the inductive invariant.
THEOREM PresaleInvariance == PresaleSpec => []PresaleInv
BY PresaleInit_Inv, PresaleNext_Inv, PTL DEF PresaleSpec

-----------------------------------------------------------------------------
(* What the invariant says. *)

LEMMA RowsOf ==
    ASSUME PresaleInv, NEW r \in Rounds
    PROVE  /\ round[r] \in RoundRow /\ custody[r] \in CustodyRow /\ vesting[r] \in VestingRow
           /\ RoundOK(r, round[r], custody[r], vesting[r])
           /\ round[r].purchases \in [PurchaseIds -> PurchaseRow]
           /\ r = 1 \/ r = 2
BY RoundAssumption DEF PresaleInv, TypesOK, RoundRow

\* Every counter of a round is a natural number.
LEMMA CountersAreNat ==
    ASSUME PresaleInv, NEW r \in Rounds
    PROVE  /\ round[r].totalRaised \in Nat /\ round[r].totalSold \in Nat
           /\ round[r].pendingAllocation \in Nat /\ round[r].pendingPurchaseCount \in Nat
           /\ round[r].purchasedByBuyer \in [Buyers -> Nat]
           /\ custody[r].balance \in Nat /\ custody[r].totalReleased \in Nat
           /\ vesting[r].allocated \in [Buyers -> Nat]
<1> DEFINE P == round[r].purchases
<1>1. P \in [PurchaseIds -> PurchaseRow] /\ BooksOK(round[r], custody[r], vesting[r])
  BY RowsOf DEF RoundOK
<1>2. /\ round[r].purchasedByBuyer \in [Buyers -> Int] /\ vesting[r].allocated \in [Buyers -> Int]
  BY RowsOf DEF RoundRow, VestingRow
<1> HIDE DEF P
<1>3. /\ Total(P, counting) \in Nat /\ Total(P, pendingUliq) \in Nat
      /\ Total(P, liveUsdc) \in Nat /\ Total(P, liveUliq) \in Nat
      /\ Total(P, pendingUsdc) \in Nat /\ Total(P, finalUsdc) \in Nat
  BY <1>1, WeightTypes, TotalIsNat
<1>4. \A b \in Buyers : Total(P, liveUsdcOf(b)) \in Nat /\ Total(P, finalUliqOf(b)) \in Nat
  BY <1>1, WeightTypes, TotalIsNat
<1>5. \A b \in Buyers : round[r].purchasedByBuyer[b] \in Nat /\ vesting[r].allocated[b] \in Nat
  BY <1>1, <1>4 DEF BooksOK, P
<1>6. round[r].purchasedByBuyer \in [Buyers -> Nat] /\ vesting[r].allocated \in [Buyers -> Nat]
  BY <1>2, <1>5
<1> QED
  BY <1>1, <1>3, <1>6 DEF BooksOK, P

LEMMA InvImpliesTypes == PresaleInv => PresaleTypeOK
<1> SUFFICES ASSUME PresaleInv PROVE PresaleTypeOK
  OBVIOUS
<1>1. ASSUME NEW r \in Rounds
      PROVE  /\ round[r].state \in SaleStates
             /\ {round[r].totalRaised, round[r].totalSold, round[r].pendingAllocation,
                 round[r].pendingPurchaseCount, round[r].balance} \subseteq Nat
             /\ round[r].purchasedByBuyer \in [Buyers -> Nat]
             /\ {custody[r].balance, accountedBalance(r), vesting[r].balance} \subseteq Nat
             /\ custody[r].treasury \in Treasuries
             /\ custody[r].pendingTreasury \in Treasuries \cup {NoTreasury}
             /\ vesting[r].allocated \in [Buyers -> Nat]
             /\ vesting[r].released \in [Buyers -> Nat]
  <2>1. /\ round[r].state \in SaleStates /\ custody[r].treasury \in Treasuries
        /\ custody[r].pendingTreasury \in Treasuries \cup {NoTreasury}
    BY RowsOf DEF RoundRow, CustodyRow
  <2>2. /\ round[r].balance \in Nat /\ vesting[r].balance \in Nat
        /\ vesting[r].released \in [Buyers -> Nat]
        /\ accountedBalance(r) = custody[r].balance
    BY RowsOf DEF RoundOK, InventoryOK, PoolOK, PaymentsOK, accountedBalance
  <2> QED
    BY <2>1, <2>2, CountersAreNat
<1> QED
  BY <1>1 DEF PresaleTypeOK, PresaleInv, TypesOK

\* For any number of buyers and treasuries, any caps, prices and schedules, no
\* amount of the three contracts goes below zero: no unchecked subtraction
\* underflows.
THEOREM PresaleTypes == PresaleSpec => []PresaleTypeOK
BY PresaleInvariance, InvImpliesTypes, PTL

\* The totals are the sums the properties state.
LEMMA TotalsAreSums ==
    ASSUME PresaleInv, NEW r \in Rounds
    PROVE  /\ Total(round[r].purchases, counting) = Cardinality(Pending(r))
           /\ Total(round[r].purchases, pendingUliq) = UliqOf(r, Pending(r))
           /\ Total(round[r].purchases, pendingUsdc) = UsdcOf(r, Pending(r))
           /\ Total(round[r].purchases, liveUsdc) = UsdcOf(r, Live(r))
           /\ Total(round[r].purchases, liveUliq) = UliqOf(r, Live(r))
           /\ Total(round[r].purchases, finalUsdc) = UsdcOf(r, Live(r) \ Pending(r))
           /\ \A b \in Buyers :
               /\ Total(round[r].purchases, liveUsdcOf(b)) = UsdcOf(r, OwnedBy(b, r, Live(r)))
               /\ Total(round[r].purchases, finalUliqOf(b))
                    = UliqOf(r, OwnedBy(b, r, Live(r) \ Pending(r)))
<1>1. PICK P : P = round[r].purchases
  OBVIOUS
<1>2. P \in [PurchaseIds -> PurchaseRow]
  BY <1>1, RowsOf
<1> DEFINE usdc == [id \in PurchaseIds |-> round[r].purchases[id].usdc]
           uliq == [id \in PurchaseIds |-> round[r].purchases[id].uliq]
           ones == [id \in PurchaseIds |-> 1]
<1>3. \A id \in PurchaseIds : usdc[id] = P[id].usdc /\ uliq[id] = P[id].uliq /\ ones[id] = 1
  BY <1>1
<1>4. \A S : UsdcOf(r, S) = SumFunctionOnSet(usdc, S) /\ UliqOf(r, S) = SumFunctionOnSet(uliq, S)
  BY DEF UsdcOf, UliqOf
<1>5. /\ Pending(r) = {id \in PurchaseIds : pending(P[id])}
      /\ Live(r) = {id \in PurchaseIds : live(P[id])}
      /\ Live(r) \ Pending(r) = {id \in PurchaseIds : final(P[id])}
  BY <1>1 DEF Pending, isPending, Live, pending, live, final
<1>6. ASSUME NEW b
      PROVE  /\ OwnedBy(b, r, Live(r)) = {id \in PurchaseIds : live(P[id]) /\ P[id].buyer = b}
             /\ OwnedBy(b, r, Live(r) \ Pending(r))
                  = {id \in PurchaseIds : final(P[id]) /\ P[id].buyer = b}
  BY <1>1, <1>5 DEF OwnedBy
<1> HIDE DEF usdc, uliq, ones
<1>7. Total(P, counting) = Cardinality(Pending(r))
  <2>1. /\ \A id \in Pending(r) : ones[id] = counting[P[id]]
        /\ \A id \in PurchaseIds \ Pending(r) : counting[P[id]] = 0
        /\ Pending(r) \in SUBSET PurchaseIds
    BY <1>2, <1>3, <1>5 DEF counting
  <2>2. Total(P, counting) = SumFunctionOnSet(ones, Pending(r))
    BY <1>2, <2>1, WeightTypes, TotalIsSumOf
  <2>3. IsFiniteSet(Pending(r)) /\ \A id \in Pending(r) : ones[id] = 1
    BY <1>3, <2>1, PurchaseIdsFinite, FS_Subset
  <2> QED
    BY <2>2, <2>3, SumCounts
<1>8. Total(P, pendingUliq) = UliqOf(r, Pending(r))
  <2>1. /\ \A id \in Pending(r) : uliq[id] = pendingUliq[P[id]]
        /\ \A id \in PurchaseIds \ Pending(r) : pendingUliq[P[id]] = 0
        /\ Pending(r) \in SUBSET PurchaseIds
    BY <1>2, <1>3, <1>5 DEF pendingUliq
  <2> QED
    BY <1>2, <1>4, <2>1, WeightTypes, TotalIsSumOf
<1>9. Total(P, pendingUsdc) = UsdcOf(r, Pending(r))
  <2>1. /\ \A id \in Pending(r) : usdc[id] = pendingUsdc[P[id]]
        /\ \A id \in PurchaseIds \ Pending(r) : pendingUsdc[P[id]] = 0
        /\ Pending(r) \in SUBSET PurchaseIds
    BY <1>2, <1>3, <1>5 DEF pendingUsdc
  <2> QED
    BY <1>2, <1>4, <2>1, WeightTypes, TotalIsSumOf
<1>10. Total(P, liveUsdc) = UsdcOf(r, Live(r))
  <2>1. /\ \A id \in Live(r) : usdc[id] = liveUsdc[P[id]]
        /\ \A id \in PurchaseIds \ Live(r) : liveUsdc[P[id]] = 0
        /\ Live(r) \in SUBSET PurchaseIds
    BY <1>2, <1>3, <1>5 DEF liveUsdc
  <2> QED
    BY <1>2, <1>4, <2>1, WeightTypes, TotalIsSumOf
<1>11. Total(P, liveUliq) = UliqOf(r, Live(r))
  <2>1. /\ \A id \in Live(r) : uliq[id] = liveUliq[P[id]]
        /\ \A id \in PurchaseIds \ Live(r) : liveUliq[P[id]] = 0
        /\ Live(r) \in SUBSET PurchaseIds
    BY <1>2, <1>3, <1>5 DEF liveUliq
  <2> QED
    BY <1>2, <1>4, <2>1, WeightTypes, TotalIsSumOf
<1>12. Total(P, finalUsdc) = UsdcOf(r, Live(r) \ Pending(r))
  <2> DEFINE S == Live(r) \ Pending(r)
  <2>1. /\ \A id \in S : usdc[id] = finalUsdc[P[id]]
        /\ \A id \in PurchaseIds \ S : finalUsdc[P[id]] = 0
        /\ S \in SUBSET PurchaseIds
    BY <1>2, <1>3, <1>5 DEF finalUsdc
  <2> HIDE DEF S
  <2>2. Total(P, finalUsdc) = UsdcOf(r, S)
    BY <1>2, <1>4, <2>1, WeightTypes, TotalIsSumOf
  <2> QED
    BY <2>2 DEF S
<1>13. ASSUME NEW b \in Buyers
       PROVE  Total(P, liveUsdcOf(b)) = UsdcOf(r, OwnedBy(b, r, Live(r)))
  <2> DEFINE S == OwnedBy(b, r, Live(r))
  <2>1. /\ \A id \in S : usdc[id] = liveUsdcOf(b)[P[id]]
        /\ \A id \in PurchaseIds \ S : liveUsdcOf(b)[P[id]] = 0
        /\ S \in SUBSET PurchaseIds
    BY <1>2, <1>3, <1>6 DEF liveUsdcOf
  <2> HIDE DEF S
  <2>2. Total(P, liveUsdcOf(b)) = UsdcOf(r, S)
    BY <1>2, <1>4, <2>1, WeightTypes, TotalIsSumOf
  <2> QED
    BY <2>2 DEF S
<1>14. ASSUME NEW b \in Buyers
       PROVE  Total(P, finalUliqOf(b)) = UliqOf(r, OwnedBy(b, r, Live(r) \ Pending(r)))
  <2> DEFINE S == OwnedBy(b, r, Live(r) \ Pending(r))
  <2>1. /\ \A id \in S : uliq[id] = finalUliqOf(b)[P[id]]
        /\ \A id \in PurchaseIds \ S : finalUliqOf(b)[P[id]] = 0
        /\ S \in SUBSET PurchaseIds
    BY <1>2, <1>3, <1>6 DEF finalUliqOf
  <2> HIDE DEF S
  <2>2. Total(P, finalUliqOf(b)) = UliqOf(r, S)
    BY <1>2, <1>4, <2>1, WeightTypes, TotalIsSumOf
  <2> QED
    BY <2>2 DEF S
<1> QED
  BY <1>1, <1>7, <1>8, <1>9, <1>10, <1>11, <1>12, <1>13, <1>14

LEMMA InvImpliesBooks == PresaleInv => BooksMatchPurchases
<1> SUFFICES ASSUME PresaleInv, NEW r \in Rounds
             PROVE  /\ round[r].pendingPurchaseCount = Cardinality(Pending(r))
                    /\ round[r].pendingAllocation = UliqOf(r, Pending(r))
                    /\ round[r].totalRaised = UsdcOf(r, Live(r))
                    /\ round[r].totalSold = UliqOf(r, Live(r))
                    /\ \A b \in Buyers :
                        round[r].purchasedByBuyer[b] = UsdcOf(r, OwnedBy(b, r, Live(r)))
                    /\ \A id \in PurchaseIds :
                        <<round[r].purchases[id].state, custody[r].payments[id].state>> \in
                          {<<"NONE", "NONE">>, <<"PENDING_WITHDRAWAL", "COLLECTED">>,
                           <<"WITHDRAWN", "REFUNDED">>, <<"FINALIZED", "RELEASED">>}
  BY DEF BooksMatchPurchases
<1>1. BooksOK(round[r], custody[r], vesting[r]) /\ PaymentsOK(round[r], custody[r])
  BY RowsOf DEF RoundOK
<1> QED
  BY <1>1, TotalsAreSums DEF BooksOK, PaymentsOK

\* The counters of a round are exactly the sums over its purchases, and each
\* purchase is in step with its payment, for any number of purchases.
THEOREM Books == PresaleSpec => []BooksMatchPurchases
BY PresaleInvariance, InvImpliesBooks, PTL

\* A sum over the rounds has two terms.
LEMMA SumOfRounds ==
    ASSUME NEW f, DOMAIN f = Rounds, f[1] \in Int, f[2] \in Int
    PROVE  SumFunction(f) = f[1] + f[2]
<1>1. SumFunction(f) = SumFunctionOnSet(f, {1} \cup {2})
  BY RoundAssumption DEF SumFunction, SumFunctionOnSet, FoldFunction
<1>2. IsFiniteSet({}) /\ IsFiniteSet({1})
  BY FS_EmptySet, FS_Singleton
<1>3. SumFunctionOnSet(f, {} \cup {1}) = SumFunctionOnSet(f, {}) + f[1]
  <2>1. 1 \notin {} /\ \A y \in {} \cup {1} : f[y] \in Int
    OBVIOUS
  <2> QED
    BY <1>2, <2>1, SumWith, Zenon
<1>4. SumFunctionOnSet(f, {1} \cup {2}) = SumFunctionOnSet(f, {1}) + f[2]
  <2>1. 2 \notin {1} /\ \A y \in {1} \cup {2} : f[y] \in Int
    OBVIOUS
  <2> QED
    BY <1>2, <2>1, SumWith, Zenon
<1>5. SumFunctionOnSet(f, {}) = 0
  BY SumOfNothing
<1>6. {} \cup {1} = {1}
  OBVIOUS
<1>7. SumFunctionOnSet(f, {1}) = f[1]
  BY <1>3, <1>5, <1>6
<1> QED
  BY <1>1, <1>4, <1>7

LEMMA InvImpliesMadeWhole == PresaleInv => BuyersMadeWhole
<1> SUFFICES ASSUME PresaleInv PROVE BuyersMadeWhole
  OBVIOUS
<1>1. \A r \in Rounds : /\ BooksOK(round[r], custody[r], vesting[r])
                        /\ custody[r].balance = UsdcOf(r, Pending(r))
                        /\ custody[r].totalReleased = UsdcOf(r, Live(r) \ Pending(r))
                        /\ custody[r].balance \in Nat /\ custody[r].totalReleased \in Nat
  BY RowsOf, TotalsAreSums, CountersAreNat DEF RoundOK, BooksOK
<1>2. ASSUME NEW r \in Rounds PROVE custody[r].balance >= UsdcOf(r, Pending(r))
  <2>1. custody[r].balance = UsdcOf(r, Pending(r))
    BY <1>1 DEF BooksOK
  <2>2. custody[r].balance \in Nat
    BY CountersAreNat
  <2> QED
    BY <2>1, <2>2
<1>3. ASSUME NEW b \in Buyers
      PROVE  walletUsdc[b] + SumFunction([r \in Rounds |-> UsdcOf(r, OwnedBy(b, r, Live(r)))]) = Budget
  <2> DEFINE spent == [r \in Rounds |-> UsdcOf(r, OwnedBy(b, r, Live(r)))]
  <2>1. ASSUME NEW r \in Rounds
        PROVE  /\ round[r].purchasedByBuyer[b] = UsdcOf(r, OwnedBy(b, r, Live(r)))
               /\ round[r].purchasedByBuyer[b] \in Int
    <3>1. round[r].purchasedByBuyer[b] = Total(round[r].purchases, liveUsdcOf(b))
      BY <1>1 DEF BooksOK
    <3>2. round[r].purchasedByBuyer \in [Buyers -> Nat]
      BY CountersAreNat
    <3>3. Total(round[r].purchases, liveUsdcOf(b)) = UsdcOf(r, OwnedBy(b, r, Live(r)))
      BY TotalsAreSums
    <3>4. round[r].purchasedByBuyer[b] \in Int
      BY <3>2
    <3> QED
      BY <3>1, <3>3, <3>4
  <2>2. /\ spent[1] = round[1].purchasedByBuyer[b] /\ spent[2] = round[2].purchasedByBuyer[b]
        /\ spent[1] \in Int /\ spent[2] \in Int /\ DOMAIN spent = Rounds
    BY <2>1, RoundAssumption
  <2>3. /\ walletUsdc[b] + round[1].purchasedByBuyer[b] + round[2].purchasedByBuyer[b] = Budget
        /\ walletUsdc[b] \in Int
    BY DEF PresaleInv, MoneyOK, TypesOK
  <2> HIDE DEF spent
  <2>4. SumFunction(spent) = spent[1] + spent[2]
    BY <2>2, SumOfRounds
  <2>5. walletUsdc[b] + SumFunction(spent) = Budget
    BY <2>2, <2>3, <2>4
  <2> QED
    BY <2>5 DEF spent
<1>4. SumFunction(treasuryUsdc) = SumFunction([r \in Rounds |-> UsdcOf(r, Live(r) \ Pending(r))])
  <2> DEFINE released == [r \in Rounds |-> UsdcOf(r, Live(r) \ Pending(r))]
  <2>1. /\ released[1] = custody[1].totalReleased /\ released[2] = custody[2].totalReleased
        /\ released[1] \in Int /\ released[2] \in Int /\ DOMAIN released = Rounds
    BY <1>1, RoundAssumption
  <2>2. SumFunctionOnSet(treasuryUsdc, Treasuries) = custody[1].totalReleased + custody[2].totalReleased
    BY DEF PresaleInv, MoneyOK
  <2>3. DOMAIN treasuryUsdc = Treasuries
    BY DEF PresaleInv, TypesOK
  <2>4. SumFunction(treasuryUsdc) = SumFunctionOnSet(treasuryUsdc, Treasuries)
    BY <2>3 DEF SumFunction, SumFunctionOnSet, FoldFunction
  <2> HIDE DEF released
  <2>5. SumFunction(released) = released[1] + released[2]
    BY <2>1, SumOfRounds
  <2>6. SumFunction(treasuryUsdc) = SumFunction(released)
    BY <2>1, <2>2, <2>4, <2>5
  <2> QED
    BY <2>6 DEF released
<1> QED
  BY <1>2, <1>3, <1>4 DEF BuyersMadeWhole

\* No buyer's USDC is lost or counted twice: it is in the wallet, in custody
\* where it can be refunded in full, or with the treasuries.
THEOREM MadeWhole == PresaleSpec => []BuyersMadeWhole
BY PresaleInvariance, InvImpliesMadeWhole, PTL

LEMMA InvImpliesInventory == PresaleInv => InventoryCoversSales
BY RowsOf DEF RoundOK, InventoryOK, InventoryCoversSales

\* A funded round delivers every pending allocation and strands nothing.
THEOREM Inventory == PresaleSpec => []InventoryCoversSales
BY PresaleInvariance, InvImpliesInventory, PTL

LEMMA InvImpliesLimits == PresaleInv => SalesWithinLimits
BY RowsOf DEF RoundOK, LimitsOK, SalesWithinLimits

\* Neither partial fills and their rounding nor withdrawals bring a round above
\* its caps or a wallet above its maximum, whatever the price.
THEOREM Limits == PresaleSpec => []SalesWithinLimits
BY PresaleInvariance, InvImpliesLimits, PTL

LEMMA InvImpliesOneSale == PresaleInv => OneSaleAtATime
BY RoundAssumption DEF PresaleInv, SaleOrderOK, OneSaleAtATime, Selling, Ended

\* The two rounds never sell at the same time.
THEOREM OneSale == PresaleSpec => []OneSaleAtATime
BY PresaleInvariance, InvImpliesOneSale, PTL

LEMMA InvImpliesSealed == PresaleInv => ListingSealsPurchases
<1> SUFFICES ASSUME PresaleInv, listingTimestamp # 0, NEW r \in Rounds PROVE Pending(r) = {}
  BY DEF ListingSealsPurchases
<1>1. round[r].pendingPurchaseCount = 0
  BY DEF PresaleInv, ListingOK
<1>2. round[r].pendingPurchaseCount = Cardinality(Pending(r))
  BY InvImpliesBooks DEF BooksMatchPurchases
<1>3. IsFiniteSet(Pending(r))
  BY PurchaseIdsFinite, FS_Subset DEF Pending
<1> QED
  BY <1>1, <1>2, <1>3, FS_EmptySet

\* No purchase is pending once the listing is scheduled.
THEOREM Sealed == PresaleSpec => []ListingSealsPurchases
BY PresaleInvariance, InvImpliesSealed, PTL

LEMMA InvImpliesSolvent == PresaleInv => VestingSolvent
<1> SUFFICES ASSUME PresaleInv PROVE VestingSolvent
  OBVIOUS
<1>1. ASSUME NEW r \in Rounds
      PROVE  /\ vesting[r].balance + vesting[r].totalReleased >= vesting[r].totalAllocated
             /\ vesting[r].totalAllocated = round[r].finalizedAllocation
  BY RowsOf DEF RoundOK, PoolOK, BooksOK
<1>2. ASSUME NEW r \in Rounds, NEW b \in Buyers
      PROVE  /\ vesting[r].allocated[b] = UliqOf(r, OwnedBy(b, r, Live(r) \ Pending(r)))
             /\ vesting[r].released[b] <= vested(r, b)
             /\ vested(r, b) <= vesting[r].allocated[b]
  <2>1. vesting[r].allocated[b] = Total(round[r].purchases, finalUliqOf(b))
    BY RowsOf DEF RoundOK, BooksOK
  <2>2. vesting[r].released[b] <= vested(r, b)
    BY DEF PresaleInv, ClaimsOK
  <2> QED
    BY <2>1, <2>2, TotalsAreSums, VestedIsNat
<1>3. ASSUME NEW b \in Buyers
      PROVE  walletUliq[b] = SumFunction([r \in Rounds |-> vesting[r].released[b]])
  <2> DEFINE paid == [r \in Rounds |-> vesting[r].released[b]]
  <2>1. \A r \in Rounds : vesting[r].released[b] \in Int
    BY RowsOf DEF VestingRow
  <2>2. /\ paid[1] = vesting[1].released[b] /\ paid[2] = vesting[2].released[b]
        /\ paid[1] \in Int /\ paid[2] \in Int /\ DOMAIN paid = Rounds
    BY <2>1, RoundAssumption
  <2>3. walletUliq[b] = vesting[1].released[b] + vesting[2].released[b]
    BY DEF PresaleInv, MoneyOK
  <2> HIDE DEF paid
  <2>4. walletUliq[b] = SumFunction(paid)
    BY <2>2, <2>3, SumOfRounds
  <2> QED
    BY <2>4 DEF paid
<1> QED
  BY <1>1, <1>2, <1>3 DEF VestingSolvent

\* Every pool can pay every beneficiary, and no claim runs ahead of the
\* schedule, for any unlock share, cliff and duration.
THEOREM Solvent == PresaleSpec => []VestingSolvent
BY PresaleInvariance, InvImpliesSolvent, PTL
=============================================================================
