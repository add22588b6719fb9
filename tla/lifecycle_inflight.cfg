CONSTANTS
    s1 = s1
    s2 = s2
    r1 = r1
    r2 = r2
    Stacks = {s1}
    Replicas = {r1}
    NoStack = NoStack
    NoUpdate = NoUpdate
    NoCheckpoint = NoCheckpoint
    NoLease = NoLease
    Skew <- MCSkewOne
    DbSkew = 0
    LeaseDuration = 1
    Grace = 0
    StaleAfter = 1
    MaxUpdates = 2
    MaxLog = 3
    MaxInFlight = 2
    MaxTime = 2
    Horizon = 2
SPECIFICATION Spec
INVARIANTS
    IInv
    CheckpointOrder
    RepairsBuildOnHead
    WebhooksTellLife
PROPERTIES
    ImplementsLock
CHECK_DEADLOCK FALSE
