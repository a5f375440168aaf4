SPECIFICATION Spec
CONSTANTS
    Shas = {"v1", "v2"}
    Installed = "v1"
    Released = "v2"
    Enabled = {"web", "scheduler"}
    MaxGeneration = 6
    Limit <- OnceEach
    MaxTrouble = 3
INVARIANT FailedIsNoTarget
CHECK_DEADLOCK FALSE
