\* The staleness guard where the transactions of a task overlap (MCTaskStore).
CONSTANTS
    u1 = u1
    u2 = u2
    User <- TwoUsers
    Nobody = Nobody
    Settings <- SkewedSettings
SPECIFICATION Spec
PROPERTIES StaleIsOlder
CHECK_DEADLOCK FALSE
