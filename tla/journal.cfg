CONSTANTS
    a = a
    b = b
    c = c
    Urns = {a, b, c}
    None = None
    BaseUrns <- TwoUrns
    BasePending <- LeftPending
    OldDeps <- DepsBefore
    NewDeps <- DepsNow
    Program = {a, b, c}
    MaxEntries = 8
    MaxInFlight = 2
SPECIFICATION Spec
INVARIANTS
    HeadIsWorld
    SnapshotOrdered
CHECK_DEADLOCK FALSE
