\* One browser at rest in its rooms loses its connection and comes back.
CONSTANTS
    c1 = c1
    c2 = c2
    taskRoom = taskRoom
    userRoom = userRoom
    Client <- OneClient
    Room <- Rooms
    Held <- Rooms
    MaxConnections = 2
    MaxDrops = 2
    MaxMounts = 0
    MaxChanges = 1
SPECIFICATION Spec
INVARIANT
    NothingMissed
CHECK_DEADLOCK FALSE
