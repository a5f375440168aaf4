SPECIFICATION MCSpec
CONSTANTS
    None = None
    Tabs = {t}
    Jobs = {j}
    Fresh = 1
    SessionAge = 2
    Delay = 2
    MaxWire = 2
    MaxOutputs = 2
    MaxGiven = 2
    MaxChanges = 1
    MaxCrashes = 1
INVARIANTS
    NothingUnregistered
    QuiescedMeansStill
PROPERTIES
    NoDraftOverlooked
    PicturesStay
CHECK_DEADLOCK FALSE
