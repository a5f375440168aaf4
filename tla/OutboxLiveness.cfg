SPECIFICATION MCSpec
CONSTANTS
    a = a
    b = b
    publish = publish
    MaxOps = 3
    MaxBoots = 3
    Tearing = TRUE
PROPERTY EventuallyTold
INVARIANTS
    OperationsTruthful
    NoSecondClick
CHECK_DEADLOCK FALSE
