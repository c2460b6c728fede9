\* Joins, drops and reconnects interleaved with changes and reads.
CONSTANTS
    c1 = c1
    c2 = c2
    taskRoom = taskRoom
    userRoom = userRoom
    Client <- TwoClients
    Room <- Rooms
    Held <- NoneHeld
    MaxConnections = 2
    MaxDrops = 2
    MaxMounts = 2
    MaxChanges = 1
SPECIFICATION FairSpec
INVARIANTS
    LinkInv
    GapIsRead
PROPERTY
    SubscriptionsReturn
CHECK_DEADLOCK FALSE
