CONSTANTS
    s1 = s1
    s2 = s2
    r1 = r1
    r2 = r2
    Stacks = {s1, s2}
    Replicas = {r1}
    NoStack = NoStack
    NoUpdate = NoUpdate
    NoCheckpoint = NoCheckpoint
    NoLease = NoLease
    Skew <- MCSkewOne
    DbSkew = 0
    LeaseDuration = 1
    Grace = 0
    StaleAfter = 1
    MaxUpdates = 2
    MaxLog = 0
    MaxInFlight = 1
    MaxTime = 3
    Horizon = 1
SPECIFICATION FairSpec
PROPERTIES
    StackFreed
CHECK_DEADLOCK FALSE
