------------------------------ MODULE MCBilling ------------------------------
EXTENDS BillingOrders, TLC

CONSTANTS h1, h2, p1, p2

MCSymmetry == Permutations(Hashes \ Mismatched) \cup Permutations(Procs)
=============================================================================
