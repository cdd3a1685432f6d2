-------------------------- MODULE ULIQGlobalListing --------------------------
(***************************************************************************)
(* The listing controller both presale rounds share, and block time.       *)
(***************************************************************************)
EXTENDS Integers

CONSTANTS
    Rounds,                 \* presale rounds, each with its custody and vesting
    Buyers,
    MaxTime                 \* bound: block time stops here

ASSUME TimeAssumption == MaxTime \in Nat \ {0}

VARIABLES
    now,                    \* block.timestamp
    roundsConfigured,       \* roundOne and roundTwo are set
    listingTimestamp        \* 0 until the listing is scheduled

listingVars == <<roundsConfigured, listingTimestamp>>

GlobalListingInit ==
    /\ now = 1
    /\ roundsConfigured = FALSE
    /\ listingTimestamp = 0

tick ==
    /\ now < MaxTime
    /\ now' = now + 1
    /\ UNCHANGED listingVars

configureRounds ==
    /\ ~roundsConfigured
    /\ roundsConfigured' = TRUE
    /\ UNCHANGED <<now, listingTimestamp>>

\* bothReady: isListingReady() of both rounds.
scheduleListing(timestamp, bothReady) ==
    /\ roundsConfigured
    /\ listingTimestamp = 0
    /\ timestamp > now
    /\ bothReady
    /\ listingTimestamp' = timestamp
    /\ UNCHANGED <<now, roundsConfigured>>
=============================================================================
