\* A release that shortens a type.
CONSTANTS
    Task = {t1, t2, t3}
    Instance = {i1}
    Releases <- Shrinking
    NoRow = NoRow
    Down = Down
SPECIFICATION Spec
INVARIANTS KnownStatuses
