SPECIFICATION XSpec
CONSTANTS
    w1 = w1
    m1 = m1
    m2 = m2
    h1 = h1
    h2 = h2
    r1 = r1
    r2 = r2
    g1 = g1
    g2 = g2
    i1 = i1
    i2 = i2
    Workers = {w1}
    Messages = {m1, m2}
    RequireTLS = {m1}
    Hosts = {h1, h2}
    Records = {r1, r2}
    MaxIdle = 1
    None = None
    Recipients <- Batch
    Lookups = {g1, g2}
    Ids = {i1, i2}
    NoId = NoId
    TTL = 2
    Ages = {1, 3}
    minRetryDelay = 1
    maxRetryDelay = 3
    MaxFailures = 2
    MaxTime = 3
    Callers = {"c1", "c2"}
    MXNames = {"m"}
    AddressNames = {"h"}
    PositiveTTL = 1
    NegativeTTL = 2
    Capacity = 1
    DMaxTime = 2
    TWorkers = {"w1", "w2"}
    Processes = {"p1", "p2"}
    SlotLimit = 1
    LeaseTTL = 2
    Samples = 1
    FirstPenalty = 1
    MaxPenalty = 2
    LeastPenalty = 1
    TMaxTime = 3
    Dialers = {"c1", "c2"}
    LimitChoices <- ShapingLimits
    Scale = 2
    ShapeTTL = 1
    Slack = 1
    SMaxTime = 6
    PDomains = {"d", "e"}
    PWorkers = {"w"}
    PRules = {"rule"}
    PThreshold <- Two
    PWindow <- Two
    PPause <- Two
    PMaxKeys = 1
    MaxEntries = 1
    MaxDuration = 3
    PMaxTime = 3
INVARIANTS
    PolicyKept
    OwnEnvelope
    
    
    
    FreshAnswers
    LeasesBounded
    ShapedWithin
    PauseStands
SYMMETRY HostSymmetry
