SPECIFICATION MCSpec
CONSTANTS
    None = None
    a = a
    b = b
    p = p
    q = q
    Keys = {a, b}
    Places = {p, q}
    Versions = {1, 2}
    Big = {2}
    MaxSeq = 3
    MaxUploads = 2
    MaxEvents = 3
    NoWork = NoWork
    MaxScans = 2
    MaxBatches = 2
    MaxCrashes = 1
    Kinds <- JobKinds
    MaxJobs = 2
    MaxRefine = 2
    MaxJobEvents = 3
INVARIANTS
    BatchesAndJobsHold
    MirrorTruth
PROPERTIES
    CreatedOnce
SYMMETRY AnyKey
CHECK_DEADLOCK FALSE
