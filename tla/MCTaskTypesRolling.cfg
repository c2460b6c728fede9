\* Two instances of different releases serving at the same time.
CONSTANTS
    Task = {t1, t2, t3}
    Instance = {i1, i2}
    Releases <- Growing
    NoRow = NoRow
    Down = Down
SPECIFICATION Spec
INVARIANTS KnownTypes
