------------------------- MODULE MCBillingDiscovery -------------------------
EXTENDS BillingDiscovery

CONSTANTS h1, p1
=============================================================================
