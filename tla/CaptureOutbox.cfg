SPECIFICATION MCSpec
CONSTANTS
    None = None
    a = a
    b = b
    publish = publish
    capture = capture
    alert = alert
    Events <- Pair
    Kind <- ReadyAndReceipt
    Roles <- Everyone
    Route <- BothRoles
    Legacy <- Pair
    Retired <- OnlyB
    LegacyRoles <- Before
    MaxPayload = 2
    MaxTrouble = 1
    Posts <- Pair
    Facebook <- OnlyB
    Images = 1
    MaxText = 2
    MaxMedia = 1
    MaxScans = 2
    MaxCrashes = 1
INVARIANTS
    OutboxTellsTruth
PROPERTIES
    CaptureAccounts
CHECK_DEADLOCK FALSE
