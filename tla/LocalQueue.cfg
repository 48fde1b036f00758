SPECIFICATION Spec
CONSTANTS
    m1 = m1
    m2 = m2
    m3 = m3
    Ids = {m1, m2, m3}
    Rcpts = {r1}
    Size <- MCSize
    LegacyIds = {m1}
    NoFile = NoFile
    Torn = Torn
    MaxMessages = 2
    MaxBytes = 3
    LowPercent = 50
    MinFree = FALSE
    Quarantine = TRUE
    BatchLimit = 2
    Fair = FALSE
    FetchLimit = 2
    AttemptCap = 1
    MaxFaults = 1
INVARIANTS AcceptedKept OneCopy LeasedBacked OneWorker QuarantineHolds
    MessageBound ByteBound
PROPERTIES ResumesBelowLow SettledStays
