SPECIFICATION MCSpec
CONSTANTS
    w1 = w1
    w2 = w2
    text = text
    image = image
    one = one
    two = two
    more = more
    Workers = {w1, w2}
    Jobs = {text, image}
    NoOne = NoOne
    NoJob = NoJob
    Kind <- MixedKind
    JobsOf <- MixedJobs
    RunLock <- MixedLock
    Locks <- BatchLocks
    DailyLimit = 9
    MonthlyLimit = 9
    DaysPerMonth = 2
    MaxCost = 1
    MaxRequests = 2
    MaxDays = 0
    MaxManual = 2
    Channels <- Accounts
    Target = "facebook"
    Images <- Frozen
    Medias <- Attached
    MaxTouches = 1
PROPERTIES
    OpenIsClosed
INVARIANTS
    OneOpenRequest
    OutputsPaid
    SubmissionHolds
CHECK_DEADLOCK FALSE
