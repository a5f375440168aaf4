SPECIFICATION MCSpec
CONSTANTS
    Posts = {p1}
    Workers = {w1, w2}
    NoWorker = NoWorker
    MaxContent = 1
    MaxEvents = 5
    MaxSnaps = 2
    MaxAttempts = 2
    MaxRows = 4
    Waiting = {1, 2}
    TranslatedPosts = {2}
    MaxSource = 2
    MaxProduct = 2
    MaxTries = 1
    MaxChanges = 2
SYMMETRY WorkerSymmetry
INVARIANTS
    OneLiveCard
    LiveCardBlocksRetry
    ReceiptsTruthful
    ApprovalBatchStops
PROPERTIES
    RecoveryReadsRight
    UnscheduledOnlyWhenGone
    QueueAnswers
CHECK_DEADLOCK FALSE
