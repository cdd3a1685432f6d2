--------------------------- MODULE OrderDecisions ---------------------------
(***************************************************************************)
(* What the billing service promises about an order, whatever the timing   *)
(* of browser, background jobs and chain: it is placed while no other is   *)
(* open, it is decided, the decision is only ever revised towards manual   *)
(* review, the purchase is handed out once, at the moment the order is     *)
(* paid, and a discount is used by exactly the purchase it was quoted for. *)
(***************************************************************************)
EXTENDS Integers, FiniteSets

CONSTANTS
    Orders,          \* order ids
    DiscountCap      \* capped discounts a user may hold or have used

VARIABLES
    decision,        \* none, open, closed, paid, review
    discount,        \* none, plan, held, planUsed, used, freed ("plan" discounts are not capped)
    handedOut        \* how often the purchase of the order was applied

vars == <<decision, discount, handedOut>>

Init ==
    /\ decision = [o \in Orders |-> "none"]
    /\ discount = [o \in Orders |-> "none"]
    /\ handedOut = [o \in Orders |-> 0]

Place(o, d) ==
    /\ decision[o] = "none"
    /\ \A q \in Orders : decision[q] # "open"
    /\ d = "held" => Cardinality({q \in Orders : discount[q] \in {"held", "used"}}) < DiscountCap
    /\ decision' = [decision EXCEPT ![o] = "open"]
    /\ discount' = [discount EXCEPT ![o] = d]
    /\ UNCHANGED handedOut

\* Open orders lapse and unused discounts are given back.
Retire(closed, freed) ==
    /\ \A o \in closed : decision[o] = "open"
    /\ \A o \in freed : discount[o] \in {"plan", "held"}
    /\ decision' = [o \in Orders |-> IF o \in closed THEN "closed" ELSE decision[o]]
    /\ discount' = [o \in Orders |-> IF o \in freed THEN "freed" ELSE discount[o]]
    /\ UNCHANGED handedOut

Pay(o) ==
    /\ decision[o] = "open"
    /\ discount[o] # "freed"
    /\ decision' = [decision EXCEPT ![o] = "paid"]
    /\ discount' = [discount EXCEPT ![o] = CASE @ = "held" -> "used"
                                             [] @ = "plan" -> "planUsed"
                                             [] OTHER -> @]
    /\ handedOut' = [handedOut EXCEPT ![o] = @ + 1]

Review(o) ==
    /\ decision[o] \in {"open", "closed", "paid"}
    /\ decision' = [decision EXCEPT ![o] = "review"]
    /\ UNCHANGED <<discount, handedOut>>

Next ==
    \/ \E o \in Orders, d \in {"none", "plan", "held"} : Place(o, d)
    \/ \E closed, freed \in SUBSET Orders : Retire(closed, freed)
    \/ \E o \in Orders : Pay(o) \/ Review(o)

Spec == Init /\ [][Next]_vars
=============================================================================
