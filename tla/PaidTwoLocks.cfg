SPECIFICATION Spec
CONSTANTS
    w1 = w1
    w2 = w2
    text = text
    image = image
    Workers = {w1, w2}
    Jobs = {text}
    NoOne = NoOne
    NoJob = NoJob
    Kind <- TextKind
    JobsOf <- SameJobs
    RunLock <- TextLock
    Locks <- BatchLocks
    DailyLimit = 9
    MonthlyLimit = 9
    DaysPerMonth = 2
    MaxCost = 1
    MaxRequests = 2
    MaxDays = 0
    MaxManual = 0
INVARIANTS
    NeverPaidAgain
CHECK_DEADLOCK FALSE
