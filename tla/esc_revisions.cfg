CONSTANTS
    n1 = n1
    t1 = t1
    t2 = t2
    c1 = c1
    c2 = c2
    Names = {n1}
    Texts = {t1, t2}
    NoText = NoText
    Clients = {c1, c2}
    Coarse = FALSE
    SweepLimit = 1
    MaxEnvironments = 2
    MaxRevisions = 3
    MaxDrafts = 1
    MaxStamp = 2
    MaxSessions = 2
    MaxRows = 4
SPECIFICATION FairSpec
INVARIANTS
    BodyIsLatest
    AppliedAsEdited
    SessionShowsRevision
PROPERTIES
    EditsReplaceWhatWasRead
    
    EventuallyClosed
CHECK_DEADLOCK FALSE
