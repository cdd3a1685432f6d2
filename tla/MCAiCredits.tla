---------------------------- MODULE MCAiCredits ----------------------------
(* Model values for AiCredits: an agent chat beside standalone calls.       *)
EXTENDS AiCredits

MCKind == [r \in Runs |-> IF r = 1 THEN "chat" ELSE "standalone"]
MCDebit == {-1, 1}
=============================================================================
