\* A lock timeout that is set and blank.
CONSTANTS
    Process = {p1}
    Shells <- BlankShells
    Files <- NoFiles
    InNetwork <- Network
    Earlier <- NoJobs
    NoConfig = NoConfig
SPECIFICATION StartupSpec
INVARIANTS TimeoutsHold
