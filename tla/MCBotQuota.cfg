SPECIFICATION BotRunsSpec
CONSTANTS
    b1 = b1
    b2 = b2
    v1 = v1
    w1 = w1
    w2 = w2
    r1 = r1
    r2 = r2
    Recovery = Recovery
    None = None
    Bots = {b1, b2, v1}
    VaultBots = {v1}
    Workers = {}
    Requests = {r1, r2}
    MaxRunningBots = 1
    MaxErrors = 2
SYMMETRY MCSymmetry
INVARIANT RunningWithinQuota
CHECK_DEADLOCK FALSE
