SPECIFICATION FairDSpec
CONSTANTS
    m1 = m1
    n1 = n1
    r1 = r1
    r2 = r2
    Ids = {m1, n1}
    Rcpts = {r1}
    RcptTo <- MCRcptTo
    DsnIds = {n1}
    NotifyOn = {"FAILURE", "DELAY", "SUCCESS"}
    MaxAttempts = 1
    MaxRetryAge = FALSE
    Size <- MCSize
    LegacyIds = {}
    NoFile = NoFile
    Torn = Torn
    MaxMessages = 0
    MaxBytes = 0
    LowPercent = 0
    MinFree = FALSE
    Quarantine = FALSE
    BatchLimit = 1
    Fair = TRUE
    FetchLimit = 2
    AttemptCap = 2
    MaxFaults = 0
PROPERTIES UsesQueue EventuallySettles
