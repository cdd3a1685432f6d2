--------------------------- MODULE MCFundingAgent ---------------------------
(* Two calls of the service for one request: a launch, a refill or a         *)
(* withdrawal.                                                               *)
EXTENDS FundingAgent, TLC

MCOneKey == [c \in Calls |-> CHOOSE a \in ActionIds : TRUE]
MCRequests == [op : {"launch", "fund", "withdraw"}, amount : {1}]
MCSymmetry == Permutations(Calls)
=============================================================================
