CONSTANTS
    s1 = s1
    s2 = s2
    r1 = r1
    r2 = r2
    Stacks = {s1}
    Replicas = {r1, r2}
    NoStack = NoStack
    NoUpdate = NoUpdate
    NoCheckpoint = NoCheckpoint
    NoLease = NoLease
    Skew <- MCSkew
    DbSkew = 0
    LeaseDuration = 2
    Grace = 1
    StaleAfter = 2
    MaxUpdates = 1
    MaxLog = 0
    MaxInFlight = 2
    MaxTime = 6
    Horizon = 6
    t1 = t1
    t2 = t2
    c1 = c1
    c2 = c2
    v1 = v1
    v2 = v2
    view = view
    Tickets = {t1, t2}
    Scopes = {view}
    Callers = {c1, c2}
    Servers = {v1, v2}
    ServerSkew <- TwoClocks
    TicketTtl = 1
    NonceBatch = 1
    NoClaims = NoClaims
    MaxTicketTime = 2
    u1 = u1
    u2 = u2
    n1 = n1
    n2 = n2
    i1 = i1
    k1 = k1
    k2 = k2
    st1 = st1
    st2 = st2
    st3 = st3
    q1 = q1
    q2 = q2
    Slots = {u1, u2}
    Tenants = {n1, n2}
    TenantOf <- OneEach
    Installations = {i1}
    Admins <- AllAdmins
    Tokens = {k1, k2}
    States = {st1, st2, st3}
    Setup <- ThreeStates
    Calls = {q1, q2}
    NoTenant = NoTenant
    NoToken = NoToken
    NoState = NoState
    NoInstallation = NoInstallation
    NoCall = NoCall
    DrainLimit = 2
    p1 = p1
    p2 = p2
    Ids = {1, 2, 3}
    Names = {1, 2}
    Projects = {p1, p2}
    Sorts = {"name"}
    PageSizes = {1, 2}
    MicrosPerMilli = 2
    MaxMicros = 0
    o1 = o1
    o2 = o2
    x1 = x1
    d1 = d1
    d2 = d2
    m1 = m1
    m2 = m2
    e1 = e1
    e2 = e2
    e3 = e3
    Policies = {e1, e2, e3}
    NoId = NoId
    Owners = {o1, o2}
    Pairs = {x1}
    Conditions = {d1, d2}
    Admissions = {m1, m2}
    a = a
    b = b
    c = c
    Texts = {a, b, c}
    Big = {a, b}
    NoText = NoText
    NoBase = NoBase
    NoTx = NoTx
    MaxSeq = 3
    Faults <- OneKind
    h1 = h1
    h2 = h2
    h3 = h3
    ResourceUrns = {h1, h2, h3}
    NoParent = NoParent
    MaxResources = 4
    MaxChars = 2
    MaxEdits = 2
    Refused = Refused
SPECIFICATION ServicesSpec
INVARIANTS
    BaseReadable
    CheckpointsReadable
    OneCheckpointPerSave
    AcceptedIsHead
    EditsExact
    RepairSound
    PairsOwned
    UsedOnce
    ConfirmedUsable
    WalkComplete
PROPERTIES
    LeaseRespected
    DisconnectDrains
    BindingBacked
CHECK_DEADLOCK FALSE
