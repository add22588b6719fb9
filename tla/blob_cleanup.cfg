CONSTANTS
    s1 = s1
    s2 = s2
    s3 = s3
    k1 = k1
    k2 = k2
    w1 = w1
    w2 = w2
    Stacks = {s1, s2, s3}
    Old = {s1, s2}
    Keys = {k1, k2}
    Shared = {k1}
    Workers = {w1, w2}
    NoKey = NoKey
    NoWorker = NoWorker
    MaxFailures = 1
SPECIFICATION FairSpec
INVARIANTS
    NamedBlobsKept
    
PROPERTIES
    EventuallyDeleted
CHECK_DEADLOCK FALSE
