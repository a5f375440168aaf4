SPECIFICATION LiveSpec
CONSTANTS
    Posts = {p1}
    Workers = {w1}
    NoWorker = NoWorker
    MaxContent = 1
    MaxEvents = 3
    MaxSnaps = 1
    MaxAttempts = 1
    MaxRows = 4
PROPERTY CancelledReturnsToReview
CHECK_DEADLOCK FALSE
