\* A definition whose statuses are listed out of order.
CONSTANTS
    Task = {t1, t2, t3}
    Instance = {i1}
    Releases <- Unordered
    NoRow = NoRow
    Down = Down
SPECIFICATION Spec
INVARIANTS FinalStatusIsHighest
