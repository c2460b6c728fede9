\* Two instances of releases that add, drop and lengthen types, one after the
\* other and overlapping; two processes, on the host or in containers, in every
\* kind of environment, beside the database of another project.
CONSTANTS
    Task = {t1, t2, t3}
    Instance = {i1, i2}
    Releases <- Growing
    NoRow = NoRow
    Down = Down
    Process = {p1, p2}
    Shells <- AllShells
    Files <- AllFiles
    InNetwork <- Network
    Earlier <- OtherProject
    NoConfig = NoConfig
SPECIFICATION MCSpec
INVARIANTS TasksServable OneDatabase
