CONSTANTS
    h1 = h1
    h2 = h2
    w1 = w1
    w2 = w2
    Hooks = {h1, h2}
    Workers = {w1, w2}
    NoWorker = NoWorker
    MaxAttempts = 2
    ClaimTime = 1
    MaxDelay = 1
    MaxEvents = 1
    MaxClaims = 4
    MaxCrashes = 1
    Worlds <- OneInTime
SPECIFICATION Spec
INVARIANTS
    AttemptsLimited
CHECK_DEADLOCK FALSE
