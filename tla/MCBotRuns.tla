------------------------------ MODULE MCBotRuns ------------------------------
EXTENDS BotRuns, TLC

CONSTANTS b1, b2, v1, w1, w2, r1, r2

MCSymmetry == Permutations(Requests) \cup Permutations(Bots \ VaultBots)
=============================================================================
