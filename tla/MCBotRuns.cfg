SPECIFICATION BotRunsFairSpec
CONSTANTS
    b1 = b1
    b2 = b2
    v1 = v1
    w1 = w1
    w2 = w2
    r1 = r1
    r2 = r2
    Recovery = Recovery
    None = None
    Bots = {b1}
    VaultBots = {}
    Workers = {w1, w2}
    Requests = {r1}
    MaxRunningBots = 1
    MaxErrors = 2
INVARIANT BotRunsTypeOK
PROPERTIES RunningBotsTick StoppedBotsFallSilent FaultyBotsHalt
CHECK_DEADLOCK FALSE
