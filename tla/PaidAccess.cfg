SPECIFICATION MCSpec
CONSTANTS
    w1 = w1
    w2 = w2
    text = text
    image = image
    None = None
    ig = ig
    x = x
    Workers = {w1, w2}
    Jobs = {image}
    NoOne = NoOne
    NoJob = NoJob
    Kind <- ImageKind
    JobsOf <- SameJobs
    RunLock <- SameLock
    Locks <- BatchLocks
    DailyLimit = 2
    MonthlyLimit = 3
    DaysPerMonth = 2
    MaxCost = 2
    MaxRequests = 3
    MaxDays = 2
    MaxManual = 1
INVARIANTS
    NoSilentSpending
    SpendingBounded
    NeverPaidAgain

    
CHECK_DEADLOCK FALSE
