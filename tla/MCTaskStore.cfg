\* The store under rough and calm settings (MCTaskStore).
CONSTANTS
    u1 = u1
    u2 = u2
    User <- TwoUsers
    Nobody = Nobody
    Settings <- AllSettings
SPECIFICATION Spec
SYMMETRY UserSymmetry
INVARIANTS StoreInv CopiesAreGenuine CalmListExact CalmDrawerCurrent
PROPERTIES RowsNeverGoBackOnEvent
CHECK_DEADLOCK FALSE
