SPECIFICATION MCSpec
CONSTANTS
    Posts = {p1}
    Workers = {w1}
    NoWorker = NoWorker
    MaxContent = 2
    MaxEvents = 4
    MaxSnaps = 1
    MaxAttempts = 1
    MaxRows = 4
INVARIANTS
    OnlyConfirmedIsSubmitted
    AttemptSnapshotsUsable
    ReviewBackedByJournal
    CalendarSeen
PROPERTIES
    RunsEnd
    ScheduleReachesReview
    CalendarConcludes
CHECK_DEADLOCK FALSE
