CONSTANTS
    OptionLists <- Lists
    NoValue = ""
    Toast = {1, 2}
    Nothing = Nothing
SPECIFICATION OverlaysSpec
INVARIANTS ActiveOptionExists
PROPERTIES HostsServe TrapHolds
CHECK_DEADLOCK FALSE
