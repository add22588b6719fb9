CONSTANTS
    ch = ch
    k1 = k1
    s1 = s1
    s2 = s2
    s3 = s3
    c1 = c1
    c2 = c2
    Channels = {ch}
    Keys = {k1}
    Subs = {s1, s2, s3}
    Conns = {c1, c2}
    NoConn = NoConn
    ChannelOf <- OneChannel
    KeyOf <- SameKey
    MaxConcurrent = 2
    MaxEvents = 2
    MaxFailures = 1
    Worlds <- TwoWorlds
SPECIFICATION FairSpec
INVARIANTS
    CountersTrue
    ConnectionsOwned
    
PROPERTIES
    
    ShutdownDrains
CHECK_DEADLOCK FALSE
