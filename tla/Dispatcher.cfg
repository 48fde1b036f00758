SPECIFICATION DSpec
CONSTANTS
    m1 = m1
    n1 = n1
    r1 = r1
    r2 = r2
    Ids = {m1}
    Rcpts = {r1, r2}
    RcptTo <- MCRcptTo
    DsnIds = {}
    NotifyOn = {}
    MaxAttempts = 1
    MaxRetryAge = TRUE
    Size <- MCSize
    LegacyIds = {}
    NoFile = NoFile
    Torn = Torn
    MaxMessages = 0
    MaxBytes = 0
    LowPercent = 0
    MinFree = FALSE
    Quarantine = FALSE
    BatchLimit = 2
    Fair = FALSE
    FetchLimit = 2
    AttemptCap = 2
    MaxFaults = 1
INVARIANTS NobodyDropped AtMostOnce AttemptsBounded
SYMMETRY RcptSymmetry
