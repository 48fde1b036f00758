SPECIFICATION Spec
CONSTANTS
    KIds = {"a", "b"}
    Poison = Poison
    NoReceipt = NoReceipt
    Partitions <- TwoTopics
    KLimit = 2
    KMaxRecords = 3
    KMaxRebalances = 1
    Days = {0, 1}
    Tuples = {1, 2, 3, 4}
    Group <- GroupOf
    maxTuples = 3
    maxRowsPerReport = 2
    MaxAdds = 3
    Sites = {"x", "y"}
    MaxRecords = 2
    ChannelSize = 1
    MaxPosted = 3
    Events = {"e1", "e2"}
    MaxPending = 1
    OMaxAttempts = 2
    BatchSize = 1
    OMaxFaults = 2
    ReportIds = {"r"}
    Admitters = {"w1", "w2"}
    Addresses = {"a", "b"}
    SeenDays = 1
    WarmupLimit = 1
    UMaxDay = 2
    UMaxComplaints = 1
INVARIANTS LostOnlyIfOvertaken ReportedOrKept FeedbackKept
PROPERTY OutboxKeepsEvents
